-------------------------- MODULE ServicesProofs ---------------------------
(***************************************************************************)
(* Theorems of module Services, for any number of requests: what each of   *)
(* the seven services promises, whichever is followed.  A section for each *)
(* service proves that its invariant (LessonInv, AccessInv, GradesInv,     *)
(* TopicInv, MediaInv, DeskInv, XpInv) is inductive for the service's own  *)
(* specification; the last section puts them together.                     *)
(***************************************************************************)
EXTENDS Services, Integers, Sequences, FiniteSetsExt, FiniteSetTheorems, TLAPS

-----------------------------------------------------------------------------
(***************************************************************************)
(* Sums over finite sets.  The theorems on well-founded relations give an  *)
(* induction over finite sets that is stated with a set in place of a      *)
(* predicate; with it, what SumFunctionOnSet computes can be proved.       *)
(***************************************************************************)
LEMMA FiniteInduction ==
    ASSUME NEW S, IsFiniteSet(S), NEW G,
           \A T \in SUBSET S : (\A U \in (SUBSET T) \ {T} : U \in G) => T \in G
    PROVE  \A T \in SUBSET S : T \in G
<1> DEFINE Bad == {T \in SUBSET S : T \notin G}
<1> SUFFICES ASSUME Bad # {} PROVE FALSE
  OBVIOUS
<1>1. IsWellFoundedOn(StrictSubsetOrdering(S), SUBSET S)
  <2>1. IsWellFoundedOn(StrictSubsetOrdering(S), FiniteSubsetsOf(S))
    BY FS_StrictSubsetOrderingWellFounded, Zenon
  <2>2. FiniteSubsetsOf(S) = SUBSET S
    BY FS_FiniteSubsetsOfFinite, Zenon
  <2> QED BY <2>1, <2>2, Zenon
<1>2. Bad \subseteq SUBSET S
  OBVIOUS
<1>3. \E T \in Bad : \A U \in Bad : ~(<<U, T>> \in StrictSubsetOrdering(S))
  <2> HIDE DEF Bad
  <2> DEFINE R == StrictSubsetOrdering(S)
             P == SUBSET S
  <2>1. IsWellFoundedOn(R, P) /\ Bad \subseteq P
    BY <1>1, <1>2
  <2> HIDE DEF R, P
  <2>2. \E T \in Bad : \A U \in Bad : ~(<<U, T>> \in R)
    BY <2>1, WFMin, Zenon
  <2> QED BY <2>2 DEF R
<1>4. PICK T \in Bad : \A U \in Bad : ~(<<U, T>> \in StrictSubsetOrdering(S))
  BY <1>3
<1>5. \A U \in (SUBSET T) \ {T} : <<U, T>> \in StrictSubsetOrdering(S)
  BY <1>4 DEF StrictSubsetOrdering
<1>6. T \in SUBSET S /\ \A U \in (SUBSET T) \ {T} : U \in G
  BY <1>4, <1>5
<1> QED BY <1>4, <1>6

-----------------------------------------------------------------------------
Pick(s) == CHOOSE x \in s : TRUE
IsFold(g, w, S) ==
    g = [s \in SUBSET S |-> IF s = {} THEN 0 ELSE w[Pick(s)] + g[s \ {Pick(s)}]]

LEMMA PickIsIn == ASSUME NEW s, s # {} PROVE Pick(s) \in s
BY DEF Pick

\* Two sums agree where both are defined.
LEMMA FoldsAgree ==
    ASSUME NEW w, NEW S, IsFiniteSet(S), NEW g, IsFold(g, w, S),
           NEW T, S \subseteq T, NEW h, IsFold(h, w, T)
    PROVE  \A U \in SUBSET S : g[U] = h[U]
<1> DEFINE G == {U \in SUBSET S : g[U] = h[U]}
<1>1. ASSUME NEW U \in SUBSET S, \A V \in (SUBSET U) \ {U} : V \in G
      PROVE  U \in G
  <2>1. CASE U = {}
    BY <2>1 DEF IsFold
  <2>2. CASE U # {}
    <3>1. Pick(U) \in U
      BY <2>2, PickIsIn
    <3>2. U \ {Pick(U)} \in (SUBSET U) \ {U}
      BY <3>1
    <3>3. g[U \ {Pick(U)}] = h[U \ {Pick(U)}]
      BY <1>1, <3>2
    <3>4. g[U] = w[Pick(U)] + g[U \ {Pick(U)}]
      BY <2>2 DEF IsFold
    <3>5. h[U] = w[Pick(U)] + h[U \ {Pick(U)}]
      BY <2>2 DEF IsFold
    <3> QED BY <3>3, <3>4, <3>5
  <2> QED BY <2>1, <2>2
<1> HIDE DEF G
<1>2. \A U \in SUBSET S : U \in G
  BY <1>1, FiniteInduction
<1> QED BY <1>2 DEF G

LEMMA FoldsExists ==
    ASSUME NEW w, NEW S, IsFiniteSet(S)
    PROVE  \E g : IsFold(g, w, S)
<1> DEFINE G == {T \in SUBSET S : \E g : IsFold(g, w, T)}
<1>1. ASSUME NEW T \in SUBSET S, \A U \in (SUBSET T) \ {T} : U \in G
      PROVE  T \in G
  <2> DEFINE f(U) == CHOOSE g : IsFold(g, w, U)
             g == [s \in SUBSET T |-> IF s = {} THEN 0
                                      ELSE w[Pick(s)] + f(s \ {Pick(s)})[s \ {Pick(s)}]]
  <2>1. ASSUME NEW U \in (SUBSET T) \ {T} PROVE IsFold(f(U), w, U) /\ IsFiniteSet(U)
    <3>1. \E h : IsFold(h, w, U)
      BY <1>1
    <3>2. IsFiniteSet(U)
      BY FS_Subset
    <3> HIDE DEF IsFold
    <3> QED BY <3>1, <3>2
  <2>2. ASSUME NEW s \in (SUBSET T) \ {T} PROVE g[s] = f(s)[s]
    <3>1. IsFold(f(s), w, s)
      BY <2>1
    <3> DEFINE k == f(s)
    <3>2. k[s] = IF s = {} THEN 0 ELSE w[Pick(s)] + k[s \ {Pick(s)}]
      <4> HIDE DEF k
      <4>1. IsFold(k, w, s) BY <3>1 DEF k
      <4> QED BY <4>1 DEF IsFold
    <3>3. CASE s = {}
      <4> HIDE DEF f
      <4> QED BY <3>2, <3>3
    <3>4. CASE s # {}
      <4> DEFINE r == s \ {Pick(s)}
      <4>1. r \in (SUBSET T) \ {T} /\ r \subseteq s
        BY <3>4, PickIsIn
      <4>2. IsFold(f(r), w, r) /\ IsFiniteSet(r)
        BY <2>1, <4>1
      <4>3. f(r)[r] = k[r]
        <5> HIDE DEF f, IsFold, r
        <5> QED BY <3>1, <4>1, <4>2, FoldsAgree
      <4>4. g[s] = w[Pick(s)] + f(r)[r]
        <5> HIDE DEF f
        <5> QED BY <3>4
      <4> HIDE DEF f, g, k
      <4> QED BY <3>2, <3>4, <4>3, <4>4 DEF k
    <3> QED BY <3>3, <3>4
  <2>3. \A s \in (SUBSET T) \ {{}} : s \ {Pick(s)} \in (SUBSET T) \ {T}
    BY PickIsIn
  <2>4. g = [s \in SUBSET T |-> IF s = {} THEN 0 ELSE w[Pick(s)] + g[s \ {Pick(s)}]]
    <3>1. \A s \in (SUBSET T) \ {{}} : f(s \ {Pick(s)})[s \ {Pick(s)}] = g[s \ {Pick(s)}]
      <4> HIDE DEF f, g
      <4> QED BY <2>2, <2>3
    <3> DEFINE e(s) == IF s = {} THEN 0 ELSE w[Pick(s)] + f(s \ {Pick(s)})[s \ {Pick(s)}]
               d(s) == IF s = {} THEN 0 ELSE w[Pick(s)] + g[s \ {Pick(s)}]
    <3>2. \A s \in SUBSET T : e(s) = d(s)
      <4> HIDE DEF f, g
      <4> QED BY <3>1
    <3>3. g = [s \in SUBSET T |-> e(s)]
      OBVIOUS
    <3> HIDE DEF e, d, f, g
    <3>4. [s \in SUBSET T |-> e(s)] = [s \in SUBSET T |-> d(s)]
      BY <3>2
    <3> QED BY <3>3, <3>4 DEF d
  <2> HIDE DEF g, f
  <2>5. IsFold(g, w, T)
    BY <2>4 DEF IsFold
  <2>6. \E h : IsFold(h, w, T)
    BY <2>5
  <2> QED BY <2>6
<1> HIDE DEF G
<1>2. S \in G
  <2>1. \A T \in SUBSET S : T \in G
    BY <1>1, FiniteInduction
  <2> QED BY <2>1
<1> QED BY <1>2 DEF G

\* The library's sum is the last value of its fold.
LEMMA SumIsFold ==
    ASSUME NEW w, NEW S, IsFiniteSet(S), NEW g, IsFold(g, w, S)
    PROVE  \A T \in SUBSET S : SumFunctionOnSet(w, T) = g[T]
<1> SUFFICES ASSUME NEW T \in SUBSET S PROVE SumFunctionOnSet(w, T) = g[T]
  OBVIOUS
<1> DEFINE k == CHOOSE h : IsFold(h, w, T)
<1>1. IsFiniteSet(T)
  BY FS_Subset
<1>2. IsFold(k, w, T)
  <2>1. \E h : IsFold(h, w, T)
    BY <1>1, FoldsExists
  <2> HIDE DEF IsFold
  <2> QED BY <2>1
<1>3. SumFunctionOnSet(w, T) = k[T]
  BY DEF SumFunctionOnSet, FoldFunctionOnSet, MapThenFoldSet, IsFold, Pick
<1>4. k[T] = g[T]
  <2>1. ASSUME NEW h, IsFold(h, w, T) PROVE h[T] = g[T]
    <3>1. T \subseteq S /\ T \in SUBSET T
      OBVIOUS
    <3> QED BY <1>1, <2>1, <3>1, FoldsAgree
  <2> HIDE DEF k
  <2> QED BY <1>2, <2>1
<1> HIDE DEF k
<1> QED BY <1>3, <1>4

\* What a sum over a finite set is: nothing over the empty set, and one
\* summand, whichever is taken first, and the sum of the others.
LEMMA SumRecursion ==
    ASSUME NEW w, NEW S, IsFiniteSet(S), \A x \in S : w[x] \in Nat
    PROVE  \A T \in SUBSET S :
              /\ SumFunctionOnSet(w, T) \in Nat
              /\ T = {} => SumFunctionOnSet(w, T) = 0
              /\ \A x \in T : SumFunctionOnSet(w, T) = w[x] + SumFunctionOnSet(w, T \ {x})
<1>1. PICK g : IsFold(g, w, S)
  BY FoldsExists
<1>2. \A T \in SUBSET S : SumFunctionOnSet(w, T) = g[T]
  BY <1>1, SumIsFold
<1> DEFINE G == {T \in SUBSET S : g[T] \in Nat /\ \A x \in T : g[T] = w[x] + g[T \ {x}]}
<1>3. ASSUME NEW T \in SUBSET S, \A U \in (SUBSET T) \ {T} : U \in G
      PROVE  T \in G
  <2>1. CASE T = {}
    <3>1. g[T] = 0
      BY <1>1, <2>1 DEF IsFold
    <3> QED BY <2>1, <3>1
  <2>2. CASE T # {}
    <3> DEFINE c == Pick(T)
    <3>1. c \in T /\ w[c] \in Nat
      BY <2>2, PickIsIn
    <3>2. g[T] = w[c] + g[T \ {c}]
      BY <1>1, <2>2 DEF IsFold
    <3> HIDE DEF c
    <3>3. g[T \ {c}] \in Nat /\ \A x \in T \ {c} : g[T \ {c}] = w[x] + g[(T \ {c}) \ {x}]
      <4>1. T \ {c} \in (SUBSET T) \ {T}
        BY <3>1
      <4>2. T \ {c} \in G
        BY <1>3, <4>1
      <4> QED BY <4>2
    <3>4. ASSUME NEW x \in T, x # c PROVE g[T] = w[x] + g[T \ {x}]
      <4>1. T \ {x} \in (SUBSET T) \ {T} /\ (T \ {x}) \ {c} \in (SUBSET T) \ {T}
        BY <3>1, <3>4
      <4>2. T \ {x} \in G /\ (T \ {x}) \ {c} \in G
        BY <1>3, <4>1
      <4>3. g[T \ {x}] = w[c] + g[(T \ {x}) \ {c}]
        BY <3>1, <3>4, <4>2
      <4>4. (T \ {x}) \ {c} = (T \ {c}) \ {x} /\ w[x] \in Nat /\ g[(T \ {x}) \ {c}] \in Nat
        BY <4>2
      <4>5. g[T \ {c}] = w[x] + g[(T \ {c}) \ {x}]
        BY <3>3, <3>4
      <4> DEFINE z == g[(T \ {x}) \ {c}]
      <4>6. z \in Nat /\ g[T \ {x}] = w[c] + z /\ g[T] = w[c] + (w[x] + z)
        BY <3>2, <4>3, <4>4, <4>5
      <4> HIDE DEF z
      <4> QED BY <3>1, <4>4, <4>6
    <3>5. g[T] \in Nat
      BY <3>1, <3>2, <3>3
    <3> QED BY <3>2, <3>4, <3>5
  <2> QED BY <2>1, <2>2
<1>4. \A T \in SUBSET S : T \in G
  <2> HIDE DEF G
  <2> QED BY <1>3, FiniteInduction
<1> SUFFICES ASSUME NEW T \in SUBSET S
             PROVE  /\ SumFunctionOnSet(w, T) \in Nat
                    /\ T = {} => SumFunctionOnSet(w, T) = 0
                    /\ \A x \in T : SumFunctionOnSet(w, T) = w[x] + SumFunctionOnSet(w, T \ {x})
  OBVIOUS
<1>5. T = {} => g[T] = 0
  BY <1>1 DEF IsFold
<1>6. \A x \in T : T \ {x} \in SUBSET S
  OBVIOUS
<1> QED BY <1>2, <1>4, <1>5, <1>6

\* A sum is bounded by its largest summand.
LEMMA SumBound ==
    ASSUME NEW S, IsFiniteSet(S), NEW k \in Nat, NEW w, \A x \in S : w[x] \in 0 .. k
    PROVE  SumFunctionOnSet(w, S) \in 0 .. (k * Cardinality(S))
<1> DEFINE G == {T \in SUBSET S : SumFunctionOnSet(w, T) <= k * Cardinality(T)}
<1>1. \A T \in SUBSET S :
         /\ SumFunctionOnSet(w, T) \in Nat
         /\ T = {} => SumFunctionOnSet(w, T) = 0
         /\ \A x \in T : SumFunctionOnSet(w, T) = w[x] + SumFunctionOnSet(w, T \ {x})
  <2>1. \A x \in S : w[x] \in Nat
    OBVIOUS
  <2> QED BY <2>1, SumRecursion
<1>2. ASSUME NEW T \in SUBSET S, \A U \in (SUBSET T) \ {T} : U \in G
      PROVE  T \in G
  <2>1. IsFiniteSet(T) /\ Cardinality(T) \in Nat
    BY FS_Subset, FS_CardinalityType
  <2>2. CASE T = {}
    BY <1>1, <2>1, <2>2, FS_EmptySet
  <2>3. CASE T # {}
    <3>1. PICK x \in T : TRUE
      BY <2>3
    <3>2. T \ {x} \in G
      BY <1>2
    <3>3. Cardinality(T \ {x}) = Cardinality(T) - 1
      BY <2>1, <3>1, FS_RemoveElement
    <3> DEFINE n == Cardinality(T)
               a == SumFunctionOnSet(w, T \ {x})
    <3>4. n \in Nat /\ a \in Nat /\ w[x] \in 0 .. k /\ a <= k * (n - 1)
          /\ SumFunctionOnSet(w, T) = w[x] + a
      BY <1>1, <2>1, <3>2, <3>3
    <3> HIDE DEF n, a
    <3>5. w[x] + a <= k * n
      <4>1. k * (n - 1) + k = k * n /\ k * (n - 1) \in Int /\ k * n \in Int
        BY <3>4
      <4> QED BY <3>4, <4>1
    <3> QED BY <3>4, <3>5 DEF n
  <2> QED BY <2>2, <2>3
<1>3. \A T \in SUBSET S : T \in G
  <2> HIDE DEF G
  <2> QED BY <1>2, FiniteInduction
<1>4. k * Cardinality(S) \in Nat
  BY FS_CardinalityType
<1> QED BY <1>1, <1>3, <1>4

\* A sum depends on its summands only.
LEMMA SumSame ==
    ASSUME NEW S, IsFiniteSet(S), NEW v, NEW w,
           \A x \in S : v[x] \in Nat /\ w[x] = v[x]
    PROVE  SumFunctionOnSet(w, S) = SumFunctionOnSet(v, S)
<1> DEFINE G == {T \in SUBSET S : SumFunctionOnSet(w, T) = SumFunctionOnSet(v, T)}
<1>1. \A T \in SUBSET S :
         /\ T = {} => SumFunctionOnSet(w, T) = 0
         /\ \A x \in T : SumFunctionOnSet(w, T) = w[x] + SumFunctionOnSet(w, T \ {x})
  <2>1. \A x \in S : w[x] \in Nat
    OBVIOUS
  <2> QED BY <2>1, SumRecursion
<1>2. \A T \in SUBSET S :
         /\ T = {} => SumFunctionOnSet(v, T) = 0
         /\ \A x \in T : SumFunctionOnSet(v, T) = v[x] + SumFunctionOnSet(v, T \ {x})
  <2>1. \A x \in S : v[x] \in Nat
    OBVIOUS
  <2> QED BY <2>1, SumRecursion
<1>3. ASSUME NEW T \in SUBSET S, \A U \in (SUBSET T) \ {T} : U \in G
      PROVE  T \in G
  <2>1. CASE T = {}
    BY <1>1, <1>2, <2>1
  <2>2. CASE T # {}
    <3>1. PICK x \in T : TRUE
      BY <2>2
    <3>2. T \ {x} \in G
      BY <1>3
    <3> QED BY <1>1, <1>2, <3>1, <3>2
  <2> QED BY <2>1, <2>2
<1>4. \A T \in SUBSET S : T \in G
  <2> HIDE DEF G
  <2> QED BY <1>3, FiniteInduction
<1> QED BY <1>4

\* The sum over two sets apart.
LEMMA SumSplit ==
    ASSUME NEW A, NEW B, IsFiniteSet(A \cup B), A \cap B = {},
           NEW w, \A x \in A \cup B : w[x] \in Nat
    PROVE  SumFunctionOnSet(w, A \cup B) = SumFunctionOnSet(w, A) + SumFunctionOnSet(w, B)
<1> DEFINE G == {T \in SUBSET B :
                   SumFunctionOnSet(w, A \cup T) = SumFunctionOnSet(w, A) + SumFunctionOnSet(w, T)}
<1>1. \A T \in SUBSET (A \cup B) :
         /\ SumFunctionOnSet(w, T) \in Nat
         /\ T = {} => SumFunctionOnSet(w, T) = 0
         /\ \A x \in T : SumFunctionOnSet(w, T) = w[x] + SumFunctionOnSet(w, T \ {x})
  BY SumRecursion
<1>2. ASSUME NEW T \in SUBSET B, \A U \in (SUBSET T) \ {T} : U \in G
      PROVE  T \in G
  <2>1. CASE T = {}
    <3>1. A \cup T = A
      BY <2>1
    <3> QED BY <1>1, <2>1, <3>1
  <2>2. CASE T # {}
    <3>1. PICK x \in T : TRUE
      BY <2>2
    <3>2. T \ {x} \in G
      BY <1>2
    <3>3. (A \cup T) \ {x} = A \cup (T \ {x}) /\ x \in A \cup T
      BY <3>1
    <3> DEFINE a == SumFunctionOnSet(w, A)
               t == SumFunctionOnSet(w, T \ {x})
    <3>4. SumFunctionOnSet(w, A \cup T) = w[x] + (a + t)
      <4>1. A \cup T \in SUBSET (A \cup B)
        OBVIOUS
      <4>2. SumFunctionOnSet(w, A \cup T) = w[x] + SumFunctionOnSet(w, (A \cup T) \ {x})
        BY <1>1, <3>3, <4>1
      <4>3. SumFunctionOnSet(w, A \cup (T \ {x})) = a + t
        BY <3>2
      <4> QED BY <3>3, <4>2, <4>3
    <3>5. SumFunctionOnSet(w, T) = w[x] + t
      <4>1. T \in SUBSET (A \cup B)
        OBVIOUS
      <4> QED BY <1>1, <3>1, <4>1
    <3>6. a \in Nat /\ t \in Nat /\ w[x] \in Nat
      BY <1>1, <3>1
    <3> HIDE DEF a, t
    <3>7. w[x] + (a + t) = a + (w[x] + t)
      BY <3>6
    <3> QED BY <3>4, <3>5, <3>7 DEF a
  <2> QED BY <2>1, <2>2
<1>3. IsFiniteSet(B)
  BY FS_Subset
<1>4. \A T \in SUBSET B : T \in G
  <2> HIDE DEF G
  <2> QED BY <1>2, <1>3, FiniteInduction
<1> QED BY <1>4

-----------------------------------------------------------------------------
(***************************************************************************)
(* Engagement.  A request writes by a row it read some time ago.  The      *)
(* invariant says what that row can be trusted for (SeenSound): if it was  *)
(* completed, it counted as watched, and a report of completion stands for *)
(* enough.                                                                 *)
(***************************************************************************)
Watched(r) == r.completed => r.exists /\ r.viewed /\ r.max >= CompletePct

SeenSound ==
    \A r \in Requests : engRequest[r] # None =>
        /\ Watched(engRequest[r].seen)
        /\ engRequest[r].op = "COMPLETE" => engRequest[r].pct >= CompletePct

LessonInv ==
    /\ Lesson!TypeOK
    /\ SeenSound
    /\ Lesson!CompletedIsWatched
    /\ Lesson!CompletedIsInGraph
    /\ Lesson!CreditStands

-----------------------------------------------------------------------------
LEMMA LessonInit ==
    ASSUME Lesson!GoodConstants, Lesson!Init
    PROVE  LessonInv
<1>1. /\ engRow.completed = FALSE /\ (engRow.by # None) = FALSE /\ engRow.max = 0
      /\ engCredited = FALSE /\ engWatched = 0
      /\ \A r \in Requests : engRequest[r] = None
  BY DEF Lesson!Init, Lesson!NoRow
<1>2. Lesson!TypeOK
  BY DEF Lesson!Init, Lesson!TypeOK, Lesson!NoRow, Lesson!Rows
<1>3. SeenSound /\ Lesson!CompletedIsWatched /\ Lesson!CompletedIsInGraph
  BY <1>1 DEF SeenSound, Lesson!CompletedIsWatched, Lesson!CompletedIsInGraph
<1>4. Lesson!CreditStands
  <2>1. engRow.completed = engCredited /\ (engRow.by # None) = engRow.completed
    BY <1>1, Zenon
  <2>2. engRow.max >= engWatched
    BY <1>1
  <2> QED BY <2>1, <2>2, Zenon DEF Lesson!CreditStands
<1> QED BY <1>2, <1>3, <1>4 DEF LessonInv

\* A call that only reads.
LEMMA LessonReadHolds ==
    ASSUME Lesson!GoodConstants, LessonInv, NEW r \in Requests, NEW op \in Lesson!Operations,
           NEW pct \in Nat,
           op = "COMPLETE" => pct >= CompletePct,
           engRequest' = [engRequest EXCEPT ![r] = [op |-> op, pct |-> pct, seen |-> engRow]],
           UNCHANGED <<engRow, engEdges, engActive, engCredited, engWatched, engCalm>>,
           engSheet' \in [done : BOOLEAN, busy : Requests \cup {None}]
    PROVE  LessonInv'
<1>1. Lesson!TypeOK'
  BY DEF LessonInv, Lesson!TypeOK
<1>2. SeenSound'
  BY DEF LessonInv, Lesson!TypeOK, SeenSound, Watched, Lesson!CompletedIsWatched
<1> QED BY <1>1, <1>2 DEF LessonInv, Lesson!CompletedIsWatched, Lesson!CompletedIsInGraph,
                          Lesson!CreditStands

-----------------------------------------------------------------------------
(***************************************************************************)
(* The row a request writes, and the edges its event adds.                 *)
(***************************************************************************)
LEMMA WrittenRow ==
    ASSUME Lesson!GoodConstants, LessonInv, NEW r \in Requests, engRequest[r] # None
    PROVE  LET q == engRequest[r]
               new == Lesson!Written(q.op, q.pct, q.seen)
           IN  /\ new \in Lesson!Rows
               /\ Watched(new)
               /\ Lesson!Event(q.op, q.seen, new) \subseteq Lesson!Edges
               /\ new.completed => "COMPLETED" \in Lesson!Event(q.op, q.seen, new)
<1> DEFINE q == engRequest[r]
           new == Lesson!Written(q.op, q.pct, q.seen)
<1>1. /\ q.op \in Lesson!Operations /\ q.pct \in Nat /\ q.seen \in Lesson!Rows
         /\ engRow \in Lesson!Rows
      /\ engEdges \subseteq Lesson!Edges /\ CompletePct \in Nat
      /\ Watched(q.seen) /\ Watched(engRow)
      /\ q.op = "COMPLETE" => q.pct >= CompletePct
      /\ engRow.completed => "COMPLETED" \in engEdges
  BY DEF Lesson!GoodConstants, LessonInv, Lesson!TypeOK, SeenSound, Lesson!CompletedIsWatched,
     Lesson!CompletedIsInGraph, Watched
<1>2. Lesson!Larger(q.seen.max, q.pct) \in Nat /\ Lesson!Larger(q.seen.max, q.pct) >= q.seen.max
      /\ Lesson!Larger(q.seen.max, q.pct) >= q.pct
      /\ Lesson!Larger(q.seen.max, CompletePct) \in Nat
         /\ Lesson!Larger(q.seen.max, CompletePct) >= CompletePct
  BY <1>1 DEF Lesson!Larger, Lesson!Rows
<1>3. CASE q.op \in Lesson!Records
  <2>1. new = Lesson!Recorded(q.seen, q.op, q.pct)
    BY <1>3 DEF Lesson!Written, Lesson!Records, Lesson!Revokes
  <2>2. new \in Lesson!Rows
    BY <1>1, <1>2, <1>3, <2>1 DEF Lesson!Recorded, Lesson!Rows
  <2>3. Watched(new)
    BY <1>1, <1>2, <1>3, <2>1 DEF Lesson!Recorded, Lesson!Rows, Watched
  <2>4. Lesson!Event(q.op, q.seen, new) = Lesson!Merged(new)
    BY <1>3 DEF Lesson!Event
  <2> QED BY <1>1, <2>2, <2>3, <2>4 DEF Lesson!Merged, Lesson!Edges
<1>4. CASE q.op \in {"ATTEND", "SUPPORT"} /\ ~(q.op = "ATTEND" /\ q.seen.completed)
  <2>1. new = Lesson!Granted(q.seen)
    BY <1>4 DEF Lesson!Written, Lesson!Attended, Lesson!Records, Lesson!Revokes
  <2>2. new \in Lesson!Rows /\ Watched(new)
    BY <1>1, <1>2, <2>1 DEF Lesson!Granted, Lesson!Rows, Watched
  <2>3. Lesson!Event(q.op, q.seen, new) =
          Lesson!Merged([viewed |-> TRUE, completed |-> TRUE, skipped |-> q.seen.skipped])
    BY <1>4 DEF Lesson!Event, Lesson!Records
  <2> QED BY <1>1, <2>2, <2>3 DEF Lesson!Merged, Lesson!Edges
<1>5. CASE q.op = "ATTEND" /\ q.seen.completed
  <2>1. new = [engRow EXCEPT !.by = "CURATOR"]
    BY <1>5 DEF Lesson!Written, Lesson!Attended, Lesson!Records, Lesson!Revokes
  <2>2. new \in Lesson!Rows /\ Watched(new)
    BY <1>1, <2>1 DEF Lesson!Rows, Watched
  <2>3. Lesson!Event(q.op, q.seen, new) = engEdges
    BY <1>5 DEF Lesson!Event, Lesson!Records
  <2> QED BY <1>1, <2>1, <2>2, <2>3 DEF Lesson!Rows
<1>6. CASE q.op \in Lesson!Revokes
  <2>1. new = IF q.seen.completed THEN Lesson!Revoked ELSE engRow
    BY <1>6 DEF Lesson!Written, Lesson!Records, Lesson!Revokes
  <2>2. new \in Lesson!Rows /\ Watched(new)
    BY <1>1, <2>1 DEF Lesson!Revoked, Lesson!Rows, Watched
  <2>3. new.completed => engRow.completed
    BY <1>1, <2>1 DEF Lesson!Revoked, Lesson!Rows
  <2>4. Lesson!Event(q.op, q.seen, new) \in
          {engEdges, Lesson!Merged([viewed |-> q.seen.viewed, completed |-> FALSE,
                                    skipped |-> q.seen.skipped])}
    BY <1>6 DEF Lesson!Event, Lesson!Records, Lesson!Revokes
  <2> QED BY <1>1, <2>2, <2>3, <2>4 DEF Lesson!Merged, Lesson!Edges
<1> QED BY <1>1, <1>3, <1>4, <1>5, <1>6 DEF Lesson!Operations, Lesson!Grants, Lesson!Records

\* Writing what was read of this very row keeps the credit right.
LEMMA CalmWrite ==
    ASSUME Lesson!GoodConstants, LessonInv, NEW r \in Requests, Lesson!Write(r)
    PROVE  Lesson!CreditStands'
<1> DEFINE q == engRequest[r]
           new == Lesson!Written(q.op, q.pct, q.seen)
<1> SUFFICES ASSUME engCalm' PROVE /\ engRow'.completed = engCredited'
                                   /\ (engRow'.by # None) = engRow'.completed
                                   /\ engRow'.max >= engWatched'
  BY DEF Lesson!CreditStands
<1>1. /\ q.op \in Lesson!Operations /\ q.pct \in Nat /\ engRow \in Lesson!Rows
         /\ CompletePct \in Nat
      /\ engWatched \in Nat /\ engCredited \in BOOLEAN
      /\ None # "AUTO" /\ None # "CURATOR"
  BY DEF Lesson!GoodConstants, LessonInv, Lesson!TypeOK, Lesson!Write
<1>2. q.seen = engRow /\ engCalm
  BY DEF Lesson!Write
<1>3. engRow.completed = engCredited /\ (engRow.by # None) = engRow.completed
      /\ engRow.max >= engWatched
  BY <1>2 DEF LessonInv, Lesson!CreditStands
<1>4. /\ engRow' = new
      /\ engCredited' = (q.op \in Lesson!Grants
                         \/ (engCredited /\ ~(q.op \in Lesson!Revokes /\ engRow.completed)))
      /\ engWatched' = IF q.op \in Lesson!Records THEN Lesson!Larger(engWatched, q.pct)
         ELSE engWatched
  BY <1>2 DEF Lesson!Write
<1>5. CASE q.op \in Lesson!Records
  <2>1. /\ engRow'.completed = (q.op = "COMPLETE" \/ engRow.completed)
        /\ engRow'.by = IF q.op = "COMPLETE" /\ engRow.by = None THEN "AUTO" ELSE engRow.by
        /\ engRow'.max = Lesson!Larger(engRow.max, q.pct)
    <3>1. new = Lesson!Recorded(engRow, q.op, q.pct)
      BY <1>2, <1>5 DEF Lesson!Written, Lesson!Records, Lesson!Revokes
    <3> QED BY <1>1, <1>4, <1>5, <3>1 DEF Lesson!Recorded, Lesson!Records, Lesson!Rows
  <2>2. engRow'.max >= engWatched'
    BY <1>1, <1>3, <1>4, <1>5, <2>1 DEF Lesson!Larger, Lesson!Rows
  <2>3. engRow'.completed = engCredited'
    <3>1. q.op \notin Lesson!Revokes /\ (q.op \in Lesson!Grants <=> q.op = "COMPLETE")
      BY <1>5 DEF Lesson!Records, Lesson!Revokes, Lesson!Grants
    <3> QED BY <1>3, <1>4, <2>1, <3>1
  <2>4. (engRow'.by # None) = engRow'.completed
    BY <1>1, <1>3, <2>1 DEF Lesson!Rows
  <2> QED BY <2>2, <2>3, <2>4
<1>6. CASE q.op \in {"ATTEND", "SUPPORT"}
  <2>1. new \in {Lesson!Granted(engRow), [engRow EXCEPT !.by = "CURATOR"]} /\ new.completed
    BY <1>1, <1>2, <1>6 DEF Lesson!Written, Lesson!Attended, Lesson!Granted, Lesson!Records,
                            Lesson!Revokes, Lesson!Rows
  <2>2. Lesson!Larger(engRow.max, CompletePct) >= engRow.max /\ engRow.max \in Nat
    BY <1>1 DEF Lesson!Larger, Lesson!Rows
  <2>3. engRow'.completed /\ engRow'.by = "CURATOR" /\ engRow'.max >= engRow.max
    <3>1. CASE new = Lesson!Granted(engRow)
      BY <1>1, <1>4, <2>1, <2>2, <3>1 DEF Lesson!Granted, Lesson!Rows
    <3>2. CASE new = [engRow EXCEPT !.by = "CURATOR"]
      BY <1>1, <1>4, <2>1, <2>2, <3>2 DEF Lesson!Rows
    <3> QED BY <2>1, <3>1, <3>2
  <2>4. engCredited' /\ engWatched' = engWatched
    BY <1>4, <1>6 DEF Lesson!Grants, Lesson!Records
  <2>5. engRow'.max \in Nat
    BY <1>1, <1>4, <2>1 DEF Lesson!Granted, Lesson!Rows, Lesson!Larger
  <2>6. engRow'.max >= engWatched'
    BY <1>1, <1>3, <2>2, <2>3, <2>4, <2>5
  <2> QED BY <1>1, <2>3, <2>4, <2>6
<1>7. CASE q.op \in Lesson!Revokes
  <2>1. engRow' = IF engRow.completed THEN Lesson!Revoked ELSE engRow
    BY <1>2, <1>4, <1>7 DEF Lesson!Written, Lesson!Records, Lesson!Revokes
  <2>2. engWatched' = engWatched /\ engCredited' = (engCredited /\ ~engRow.completed)
    BY <1>1, <1>4, <1>7 DEF Lesson!Records, Lesson!Revokes, Lesson!Grants
  <2> QED BY <1>1, <1>3, <2>1, <2>2 DEF Lesson!Revoked, Lesson!Rows
<1> QED BY <1>1, <1>5, <1>6, <1>7 DEF Lesson!Operations, Lesson!Grants, Lesson!Records

LEMMA LessonWriteHolds ==
    ASSUME Lesson!GoodConstants, LessonInv, NEW r \in Requests, Lesson!Write(r)
    PROVE  LessonInv'
<1> DEFINE q == engRequest[r]
           new == Lesson!Written(q.op, q.pct, q.seen)
<1>1. /\ engRow' = new /\ engEdges' = Lesson!Event(q.op, q.seen, new)
      /\ engRequest' = [engRequest EXCEPT ![r] = None]
      /\ UNCHANGED <<engActive, engSheet>> /\ engRequest[r] # None
  BY DEF Lesson!Write
<1>2. /\ engRow' \in Lesson!Rows /\ Watched(engRow') /\ engEdges' \subseteq Lesson!Edges
      /\ engRow'.completed => "COMPLETED" \in engEdges'
  BY <1>1, WrittenRow
<1>3. engCredited' \in BOOLEAN /\ engCalm' \in BOOLEAN
  BY DEF Lesson!Write
<1>4. engWatched' \in Nat
  BY DEF Lesson!Write, LessonInv, Lesson!TypeOK, Lesson!Larger
<1>5. Lesson!TypeOK'
  BY <1>1, <1>2, <1>3, <1>4 DEF LessonInv, Lesson!TypeOK
<1>6. SeenSound'
  BY <1>1 DEF LessonInv, Lesson!TypeOK, SeenSound
<1>7. Lesson!CompletedIsWatched' /\ Lesson!CompletedIsInGraph'
  BY <1>2 DEF Lesson!CompletedIsWatched, Lesson!CompletedIsInGraph, Watched
<1> QED BY <1>5, <1>6, <1>7, CalmWrite DEF LessonInv

LEMMA LessonStep ==
    ASSUME Lesson!GoodConstants, LessonInv, [Lesson!Next]_(Lesson!engagementVars)
    PROVE  LessonInv'
<1>1. ASSUME NEW r \in Requests, NEW type \in Lesson!Records, NEW pct \in Percents,
             Lesson!RecordRead(r, type, pct)
      PROVE  LessonInv'
  <2>1. pct \in Nat /\ Lesson!Kind(type, pct) \in Lesson!Operations
    BY DEF Lesson!GoodConstants, Lesson!Kind, Lesson!Operations, Lesson!Records
  <2>2. Lesson!Kind(type, pct) = "COMPLETE" => pct >= CompletePct
    BY <1>1 DEF Lesson!RecordRead, Lesson!Kind
  <2> QED BY <1>1, <2>1, <2>2, LessonReadHolds DEF Lesson!RecordRead, LessonInv, Lesson!TypeOK
<1>2. ASSUME NEW r \in Requests, Lesson!SupportRead(r)
      PROVE  LessonInv'
  <2>1. PICK op \in {"SUPPORT", "UNSUPPORT"} : Lesson!StaffRead(r, op)
    BY <1>2 DEF Lesson!SupportRead
  <2>2. op \in Lesson!Operations /\ op # "COMPLETE"
    BY DEF Lesson!Operations, Lesson!Grants, Lesson!Revokes
  <2> QED BY <1>2, <2>1, <2>2, LessonReadHolds
             DEF Lesson!SupportRead, Lesson!StaffRead, LessonInv, Lesson!TypeOK
<1>3. ASSUME NEW r \in Requests, NEW op \in {"ATTEND", "UNATTEND"},
             Lesson!ClickAttendance(r, op)
      PROVE  LessonInv'
  <2>1. op \in Lesson!Operations /\ op # "COMPLETE"
    BY DEF Lesson!Operations, Lesson!Grants, Lesson!Revokes
  <2>2. engSheet' \in [done : BOOLEAN, busy : Requests \cup {None}]
    BY <1>3 DEF Lesson!ClickAttendance, LessonInv, Lesson!TypeOK
  <2> QED BY <1>3, <2>1, <2>2, LessonReadHolds DEF Lesson!ClickAttendance, Lesson!StaffRead
<1>4. ASSUME NEW r \in Requests, Lesson!Write(r)
      PROVE  LessonInv'
  BY <1>4, LessonWriteHolds
<1>5. ASSUME NEW r \in Requests, Lesson!Refuse(r)
      PROVE  LessonInv'
  BY <1>5 DEF Lesson!Refuse, LessonInv, Lesson!TypeOK, SeenSound, Lesson!CompletedIsWatched,
              Lesson!CompletedIsInGraph, Lesson!CreditStands
<1>6. CASE Lesson!ReadSheet
  <2>1. engSheet' \in [done : BOOLEAN, busy : Requests \cup {None}]
    BY <1>6 DEF Lesson!ReadSheet, LessonInv, Lesson!TypeOK, Lesson!Rows
  <2> QED BY <1>6, <2>1 DEF Lesson!ReadSheet, LessonInv, Lesson!TypeOK, SeenSound,
                            Lesson!CompletedIsWatched,
                            Lesson!CompletedIsInGraph, Lesson!CreditStands
<1>7. CASE Lesson!Enrol
  BY <1>7 DEF Lesson!Enrol, LessonInv, Lesson!TypeOK, SeenSound, Lesson!CompletedIsWatched,
              Lesson!CompletedIsInGraph, Lesson!CreditStands
<1>8. CASE UNCHANGED Lesson!engagementVars
  BY <1>8
     DEF Lesson!engagementVars, LessonInv, Lesson!TypeOK, SeenSound, Lesson!CompletedIsWatched,
              Lesson!CompletedIsInGraph, Lesson!CreditStands
<1> QED BY <1>1, <1>2, <1>3, <1>4, <1>5, <1>6, <1>7, <1>8 DEF Lesson!Next

-----------------------------------------------------------------------------
\* In every reachable state the properties hold, and every row a request has
\* read and will write back is one that was watched if it is completed.
THEOREM LessonInvariance == ASSUME Lesson!GoodConstants PROVE Lesson!Spec => []LessonInv
<1>1. Lesson!Init => LessonInv
  BY LessonInit
<1>2. LessonInv /\ [Lesson!Next]_(Lesson!engagementVars) => LessonInv'
  BY LessonStep
<1> QED BY <1>1, <1>2, PTL DEF Lesson!Spec

\* However the student's page, the curators and support overlap, a completed
\* lesson counts as watched and is completed in the graph; without overlap,

-----------------------------------------------------------------------------
(***************************************************************************)
(* LessonAccess.  The count of OpenedToldOnce is inductive: a call that    *)
(* writes what it read opens the lesson exactly when it goes on to announce *)
(* it, and one that announces is one fewer to announce and one more told or *)
(* lost.  What is about to be announced is open by hand (StillByHand), and *)
(* not for its date, which may move: only a lock, a revocation or a removal *)
(* closes it, and each shuts every announcement.                           *)
(***************************************************************************)
ByHand == accLesson # None /\ (accLesson.forAll \/ accGranted)
StillByHand == Access!Announcing \ accShut # {} => ByHand

AccessInv == Access!TypeOK /\ Access!OpenedToldOnce /\ StillByHand

-----------------------------------------------------------------------------
(***************************************************************************)
(* Calls that are about to announce.                                       *)
(***************************************************************************)
LEMMA AccessLibrary ==
    /\ \A S : Access!IsFiniteSet(S) <=> IsFiniteSet(S)
    /\ \A S : Access!Cardinality(S) = Cardinality(S)
BY DEF Access!IsFiniteSet, IsFiniteSet, Access!Cardinality, Cardinality

LEMMA AnnouncingIsFinite ==
    ASSUME Access!GoodConstants
    PROVE  IsFiniteSet(Access!Announcing) /\ Cardinality(Access!Announcing) \in Nat
<1>1. Access!Announcing \subseteq Requests
  BY DEF Access!Announcing
<1>2. IsFiniteSet(Access!Announcing)
  BY <1>1, FS_Subset, AccessLibrary DEF Access!GoodConstants
<1> QED BY <1>2, FS_CardinalityType

\* One call more.
LEMMA OneMore ==
    ASSUME Access!GoodConstants, NEW r \in Requests,
           Access!Announcing' = Access!Announcing \cup {r},
           r \notin Access!Announcing
    PROVE  Cardinality(Access!Announcing') = Cardinality(Access!Announcing) + 1
BY AnnouncingIsFinite, FS_AddElement

\* One call fewer.
LEMMA OneFewer ==
    ASSUME Access!GoodConstants, NEW r \in Access!Announcing,
           Access!Announcing' = Access!Announcing \ {r}
    PROVE  Cardinality(Access!Announcing) = Cardinality(Access!Announcing') + 1
<1>1. Cardinality(Access!Announcing') = Cardinality(Access!Announcing) - 1
  BY AnnouncingIsFinite, FS_RemoveElement
<1> QED BY <1>1, AnnouncingIsFinite

\* A call that writes what it read opens the lesson if and only if it
\* announces it.
LEMMA OpensAndNotifies ==
    ASSUME NEW q \in Access!Calls, ~Access!Stale(q)
    PROVE  Access!Opens(q.op) <=> Access!Notifies(q)
<1>1. CASE q.op = "grant"
  BY <1>1 DEF Access!Stale, Access!Opens, Access!Notifies
<1>2. CASE q.op # "grant"
  <2>1. q.was = accLesson.forAll /\ q.was \in BOOLEAN
    BY <1>2 DEF Access!Stale, Access!Calls
  <2> QED BY <1>2, <2>1 DEF Access!Opens, Access!Notifies, Access!LeftOpen
<1> QED BY <1>1, <1>2

-----------------------------------------------------------------------------
LEMMA AccessInit ==
    ASSUME Access!GoodConstants, Access!Init
    PROVE  AccessInv
<1>1. Access!TypeOK
  <2>1. 0 \in 0 .. MaxOpenings
    BY DEF Access!GoodConstants
  <2> QED BY <2>1 DEF Access!Init, Access!TypeOK
<1>2. Access!Announcing = {}
  BY DEF Access!Init, Access!Announcing
<1>3. Access!OpenedToldOnce
  BY <1>2, FS_EmptySet, AccessLibrary DEF Access!Init, Access!OpenedToldOnce
<1>4. StillByHand
  BY <1>2 DEF StillByHand
<1> QED BY <1>1, <1>3, <1>4 DEF AccessInv

\* The count after a step that leaves the announcing calls alone.
LEMMA SameCount ==
    ASSUME Access!GoodConstants, AccessInv, Access!TypeOK',
           Access!Announcing' = Access!Announcing, accCalm' => accCalm,
           accOpenings' - accOpenings = accLost' - accLost, accTold' = accTold
    PROVE  Access!OpenedToldOnce'
BY AnnouncingIsFinite, AccessLibrary DEF AccessInv, Access!TypeOK, Access!OpenedToldOnce

\* A step that neither announces nor closes, but for what it shuts.
LEMMA StillOpen ==
    ASSUME AccessInv, Access!Announcing' \ accShut' \subseteq Access!Announcing \ accShut,
           ByHand => ByHand'
    PROVE  StillByHand'
BY DEF AccessInv, StillByHand

LEMMA AccessReadHolds ==
    ASSUME Access!GoodConstants, AccessInv, NEW r \in Requests, NEW op \in Access!Operations,
           Access!Read(r, op)
    PROVE  AccessInv'
<1>1. (IF op = "grant" THEN accGranted ELSE accLesson.forAll) \in BOOLEAN
  BY DEF AccessInv, Access!TypeOK, Access!Read
<1>2. Access!TypeOK'
  BY <1>1 DEF AccessInv, Access!TypeOK, Access!Calls, Access!Read
<1>3. Access!Announcing' = Access!Announcing
  <2>1. accRequest'[r].step = "write" /\ accRequest[r] = None
    BY DEF AccessInv, Access!TypeOK, Access!Read
  <2>2. \A q \in Requests \ {r} : accRequest'[q] = accRequest[q]
    BY DEF AccessInv, Access!TypeOK, Access!Read
  <2> QED BY <2>1, <2>2 DEF Access!Announcing
<1>4. StillByHand'
  BY <1>3, StillOpen DEF Access!Read, ByHand
<1> QED BY <1>2, <1>3, <1>4, SameCount DEF AccessInv, Access!TypeOK, Access!Read

LEMMA WriteStepHolds ==
    ASSUME Access!GoodConstants, AccessInv, NEW r \in Requests, Access!WriteStep(r)
    PROVE  AccessInv'
<1> DEFINE q == accRequest[r]
<1>1. q \in Access!Calls /\ q.step = "write"
      /\ accLesson \in [scheduled : BOOLEAN, forAll : BOOLEAN]
  BY DEF AccessInv, Access!TypeOK, Access!WriteStep
<1>2. /\ accLesson' \in [scheduled : BOOLEAN, forAll : BOOLEAN]
      /\ accDue' \in BOOLEAN /\ accGranted' \in BOOLEAN
  <2>1. Access!WriteLesson(q.op) /\ q.op \in Access!Operations
    BY <1>1 DEF Access!WriteStep, Access!Calls
  <2> QED BY <1>1, <2>1 DEF Access!WriteLesson, Access!Operations, AccessInv, Access!TypeOK
<1>3. accOpenings' \in 0 .. MaxOpenings
      /\ accOpenings' = accOpenings + (IF Access!Opens(q.op) THEN 1 ELSE 0)
  BY DEF AccessInv, Access!TypeOK, Access!GoodConstants, Access!WriteStep
<1>4. accRequest' = [accRequest EXCEPT ![r] =
         IF Access!Notifies(q) THEN [q EXCEPT !.step = "notify"] ELSE None]
  BY DEF Access!WriteStep
<1>5. [q EXCEPT !.step = "notify"] \in Access!Calls
      /\ [q EXCEPT !.step = "notify"].step = "notify"
  BY <1>1 DEF Access!Calls
<1>6. accCalm' \in BOOLEAN /\ (accCalm' => accCalm /\ ~Access!Stale(q))
      /\ UNCHANGED <<accEnrolled, accTold, accLost>>
      /\ accShut' = IF q.op = "lock" THEN Requests ELSE accShut \ {r}
  BY DEF Access!WriteStep
<1>7. Access!TypeOK'
  BY <1>2, <1>3, <1>4, <1>5, <1>6 DEF AccessInv, Access!TypeOK
<1>8. r \notin Access!Announcing /\ \A p \in Requests \ {r} : accRequest'[p] = accRequest[p]
  BY <1>1, <1>4 DEF Access!Announcing, AccessInv, Access!TypeOK
<1>9. Access!OpenedToldOnce'
  <2> SUFFICES ASSUME accCalm' PROVE accOpenings'
                      = accTold' + accLost' + Cardinality(Access!Announcing')
    BY AccessLibrary DEF Access!OpenedToldOnce
  <2>1. accOpenings = accTold + accLost + Cardinality(Access!Announcing)
        /\ (Access!Opens(q.op) <=> Access!Notifies(q))
    BY <1>1, <1>6, OpensAndNotifies, AccessLibrary DEF AccessInv, Access!OpenedToldOnce
  <2>2. CASE Access!Notifies(q)
    <3>1. accRequest'[r] # None /\ accRequest'[r].step = "notify"
      BY <1>4, <1>5, <2>2 DEF Access!GoodConstants, AccessInv, Access!TypeOK
    <3>2. Access!Announcing' = Access!Announcing \cup {r}
      BY <1>8, <3>1 DEF Access!Announcing
    <3>3. Cardinality(Access!Announcing') = Cardinality(Access!Announcing) + 1
      BY <1>8, <3>2, OneMore
    <3>4. accOpenings' = accOpenings + 1
      BY <1>3, <2>1, <2>2
    <3> QED BY <1>6, <2>1, <3>3, <3>4, AnnouncingIsFinite DEF AccessInv, Access!TypeOK
  <2>3. CASE ~Access!Notifies(q)
    <3>1. accRequest'[r] = None
      BY <1>4, <2>3 DEF AccessInv, Access!TypeOK
    <3>2. Access!Announcing' = Access!Announcing
      BY <1>8, <3>1 DEF Access!Announcing
    <3>3. accOpenings' = accOpenings
      BY <1>3, <2>1, <2>3 DEF AccessInv, Access!TypeOK
    <3> QED BY <1>6, <2>1, <3>2, <3>3
  <2> QED BY <2>2, <2>3
<1>10. StillByHand'
  <2> SUFFICES ASSUME NEW p \in Access!Announcing' \ accShut' PROVE ByHand'
    BY DEF StillByHand
  <2>1. p \in Requests /\ q.op # "lock" /\ q.op \in Access!Operations
    BY <1>1, <1>6 DEF Access!Announcing, Access!Calls
  <2>2. accLesson' # None
    BY <1>2, <2>1 DEF Access!GoodConstants
  <2>3. CASE p = r
    <3>1. Access!Notifies(q)
      BY <1>4, <2>3 DEF Access!Announcing, AccessInv, Access!TypeOK
    <3>2. accLesson'.forAll \/ accGranted'
      BY <1>1, <2>1, <3>1 DEF Access!Notifies, Access!LeftOpen, Access!WriteStep,
                              Access!WriteLesson, Access!Operations
    <3> QED BY <2>2, <3>2 DEF ByHand
  <2>4. CASE p # r
    <3>1. ByHand
      BY <1>6, <1>8, <2>1, <2>4 DEF AccessInv, StillByHand, Access!Announcing
    <3> QED BY <1>1, <2>1, <2>2, <3>1 DEF ByHand, Access!WriteStep, Access!WriteLesson,
                                          Access!Operations
  <2> QED BY <2>3, <2>4
<1> QED BY <1>7, <1>9, <1>10 DEF AccessInv

\* An announcement, sent or lost.
LEMMA AnnounceHolds ==
    ASSUME Access!GoodConstants, AccessInv, NEW r \in Requests, Access!Notify(r)
           \/ Access!NotifyFails(r)
    PROVE  AccessInv'
<1>1. /\ accRequest[r] # None /\ accRequest[r].step = "notify"
      /\ accRequest' = [accRequest EXCEPT ![r] = None]
      /\ UNCHANGED <<accLesson, accDue, accGranted, accEnrolled, accOpenings, accShut, accCalm>>
      /\ \/ accTold' = accTold + 1 /\ accLost' = accLost
         \/ accTold' = accTold /\ accLost' = accLost + 1
  BY DEF Access!Notify, Access!NotifyFails
<1>2. Access!TypeOK'
  BY <1>1 DEF AccessInv, Access!TypeOK
<1>3. r \in Access!Announcing /\ Access!Announcing' = Access!Announcing \ {r}
  BY <1>1 DEF Access!Announcing, AccessInv, Access!TypeOK
<1>4. Cardinality(Access!Announcing) = Cardinality(Access!Announcing') + 1
  BY <1>3, OneFewer
<1>5. Cardinality(Access!Announcing') \in Nat
  BY <1>3, AnnouncingIsFinite, FS_RemoveElement, FS_CardinalityType
<1>6. StillByHand'
  BY <1>1, <1>3, StillOpen DEF ByHand
<1> QED BY <1>1, <1>2, <1>4, <1>5, <1>6, AccessLibrary
           DEF AccessInv, Access!OpenedToldOnce, Access!TypeOK

LEMMA AccessStep ==
    ASSUME Access!GoodConstants, AccessInv, [Access!Next]_(Access!accessVars)
    PROVE  AccessInv'
<1>1. ASSUME NEW r \in Requests, NEW op \in Access!Operations, Access!Read(r, op)
      PROVE  AccessInv'
  BY <1>1, AccessReadHolds
<1>2. ASSUME NEW r \in Requests, Access!WriteStep(r)
      PROVE  AccessInv'
  BY <1>2, WriteStepHolds
<1>3. ASSUME NEW r \in Requests, Access!Notify(r) \/ Access!NotifyFails(r)
      PROVE  AccessInv'
  BY <1>3, AnnounceHolds
<1>4. ASSUME NEW r \in Requests, Access!WriteFails(r)
      PROVE  AccessInv'
  <2>1. Access!TypeOK'
    BY <1>4 DEF Access!WriteFails, AccessInv, Access!TypeOK
  <2>2. Access!Announcing' = Access!Announcing
    BY <1>4 DEF Access!WriteFails, Access!Announcing, AccessInv, Access!TypeOK
  <2>3. StillByHand'
    BY <1>4, <2>2, StillOpen DEF Access!WriteFails, ByHand
  <2> QED BY <1>4, <2>1, <2>2, <2>3, SameCount DEF Access!WriteFails, AccessInv, Access!TypeOK
<1>5. CASE Access!GrantLesson
  <2>1. Access!TypeOK'
    BY <1>5 DEF Access!GrantLesson, Access!GoodConstants, AccessInv, Access!TypeOK
  <2>2. Access!Announcing' = Access!Announcing
    BY <1>5 DEF Access!GrantLesson, Access!Announcing
  <2>3. StillByHand'
    BY <1>5, <2>2, StillOpen DEF Access!GrantLesson, ByHand
  <2> QED BY <1>5, <2>1, <2>2, <2>3, SameCount DEF Access!GrantLesson, AccessInv, Access!TypeOK
<1>6. CASE Access!RevokeContentGrant \/ Access!Remove \/ Access!Day \/ Access!Enrol
           \/ UNCHANGED Access!accessVars
  <2>1. Access!TypeOK'
    BY <1>6 DEF Access!RevokeContentGrant, Access!Remove, Access!Day, Access!Enrol,
                Access!accessVars, AccessInv, Access!TypeOK
  <2>2. /\ Access!Announcing' = Access!Announcing
        /\ UNCHANGED <<accCalm, accOpenings, accTold, accLost>>
    BY <1>6 DEF Access!RevokeContentGrant, Access!Remove, Access!Day, Access!Enrol,
                Access!accessVars, Access!Announcing
  <2>3. StillByHand'
    <3>1. CASE accShut' = Requests
      BY <3>1 DEF StillByHand, Access!Announcing
    <3>2. CASE Access!Day \/ Access!Enrol \/ UNCHANGED Access!accessVars
      BY <2>2, <3>2, StillOpen DEF Access!Day, Access!Enrol, Access!accessVars, ByHand
    <3> QED BY <1>6, <3>1, <3>2 DEF Access!RevokeContentGrant, Access!Remove
  <2> QED BY <2>1, <2>2, <2>3, SameCount DEF AccessInv, Access!TypeOK
<1> QED BY <1>1, <1>2, <1>3, <1>4, <1>5, <1>6 DEF Access!Next

-----------------------------------------------------------------------------
\* In every reachable state the openings by hand are those told, those lost
\* and those a call is about to announce, unless calls have met.
THEOREM AccessInvariance == ASSUME Access!GoodConstants PROVE Access!Spec => []AccessInv
<1>1. Access!Init => AccessInv
  BY AccessInit
<1>2. AccessInv /\ [Access!Next]_(Access!accessVars) => AccessInv'
  BY AccessStep
<1> QED BY <1>1, <1>2, PTL DEF Access!Spec

\* Calls that do not overlap announce each opening exactly once or lose its

-----------------------------------------------------------------------------
(***************************************************************************)
(* Grading.  A call that nothing overlaps has marked the questions it has  *)
(* left behind, each as its answer deserves, and has earned the sum of their *)
(* marks (Handing, Reviewing); between calls the marks are either none or  *)
(* all, and then the score is their sum (Settled).                         *)
(***************************************************************************)
GradesLive(r) == graRequest[r] # None

\* Nothing has marked these questions; and an automatic mark fits its answer.
Unmarked(qs) == \A q \in qs : graAnswer[q] = None \/ graAnswer[q].mark = None
Deserved(q) ==
    /\ graAnswer[q] # None /\ graAnswer[q].mark \in Nat
    /\ Grades!Deserved(graAnswer[q])

OneCall == graCalm => \A r, s \in Requests : GradesLive(r) /\ GradesLive(s) => r = s

\* What a call that nothing overlaps has done so far.
Handing(c) ==
    IF c.step = "read"
    THEN /\ Unmarked(graPaper.asked)
         /\ c.left = graPaper.asked \cap AutoGraded
         /\ c.earned = 0
    ELSE /\ c.left \subseteq graPaper.asked \cap AutoGraded
         /\ Unmarked(graPaper.asked \cap Open)
         /\ \A q \in c.left : graAnswer[q] = c.seen[q]
         /\ \A q \in (graPaper.asked \cap AutoGraded) \ c.left : Deserved(q)
         /\ c.earned = Grades!SumOfMarks(graAnswer, (graPaper.asked \cap AutoGraded) \ c.left)

Reviewing(c) ==
    /\ c.left \subseteq graPaper.asked \cap Open
    /\ \A q \in graPaper.asked \cap AutoGraded : Deserved(q) /\ graAnswer[q] = c.seen[q]
    /\ c.earned = Grades!SumOfMarks(graAnswer, (graPaper.asked \cap Open) \ c.left)

GradesOnItsWay(c) ==
    /\ c.op = "save" => graStatus = "IN_PROGRESS" /\ Unmarked(graPaper.asked)
    /\ c.op = "submit" => graStatus = "IN_PROGRESS" /\ Handing(c)
    /\ c.op = "grade" => graStatus # "IN_PROGRESS" /\ Reviewing(c)

GradesUnderway == graCalm => \A r \in Requests : GradesLive(r) => GradesOnItsWay(graRequest[r])

AllMarked ==
    /\ Grades!Total > 0 => graScore.points = Grades!SumOfMarks(graAnswer, graPaper.asked)
    /\ graScore.xp <= MaxXp
    /\ \A q \in graPaper.asked \cap AutoGraded : Deserved(q)

GradesSettled ==
    graCalm /\ Grades!Idle =>
        IF graStatus = "IN_PROGRESS" THEN Unmarked(graPaper.asked) ELSE AllMarked

GradesInv == Grades!TypeOK /\ OneCall /\ GradesUnderway /\ GradesSettled

-----------------------------------------------------------------------------
LEMMA GradesLibrary ==
    /\ \A S : Grades!IsFiniteSet(S) <=> IsFiniteSet(S)
    /\ \A S : Grades!Cardinality(S) = Cardinality(S)
    /\ \A w, S : Grades!SumFunctionOnSet(w, S) = SumFunctionOnSet(w, S)
BY DEF Grades!IsFiniteSet, IsFiniteSet, Grades!Cardinality, Cardinality,
   Grades!SumFunctionOnSet,
       SumFunctionOnSet, Grades!FoldFunctionOnSet, FoldFunctionOnSet, Grades!MapThenFoldSet,
       MapThenFoldSet

LEMMA GradesNones ==
    ASSUME Grades!GoodConstants
    PROVE  /\ None \notin 0 .. Points /\ None \notin Grades!Written /\ None \notin Grades!Scores
           /\ None \notin Grades!Calls /\ IsFiniteSet(Grades!Questions)
              /\ AutoGraded \cap Open = {}
           /\ {} \in Answers /\ Points \in Nat /\ MaxXp \in Nat /\ MaxCalls \in Nat
BY GradesLibrary DEF Grades!GoodConstants

LEMMA MarkType ==
    ASSUME Grades!GoodConstants, NEW row \in Grades!Rows
    PROVE  Grades!Mark(row) \in 0 .. Points
BY GradesNones DEF Grades!Mark, Grades!Rows, Grades!Written

\* The marks of a set of questions.
LEMMA MarksBound ==
    ASSUME Grades!GoodConstants, NEW rows \in [Grades!Questions -> Grades!Rows],
           NEW qs \in SUBSET Grades!Questions,
           NEW k \in Nat, \A q \in qs : Grades!Mark(rows[q]) <= k
    PROVE  Grades!SumOfMarks(rows, qs) \in 0 .. (k * Cardinality(qs))
<1> DEFINE w == [q \in qs |-> Grades!Mark(rows[q])]
<1>1. IsFiniteSet(qs)
  BY GradesNones, FS_Subset
<1>2. \A q \in qs : w[q] \in 0 .. k
  <2> SUFFICES ASSUME NEW q \in qs PROVE Grades!Mark(rows[q]) \in 0 .. k
    OBVIOUS
  <2>1. Grades!Mark(rows[q]) \in 0 .. Points
    BY MarkType
  <2> QED BY <2>1, GradesNones
<1> HIDE DEF w
<1>3. SumFunctionOnSet(w, qs) \in 0 .. (k * Cardinality(qs))
  BY <1>1, <1>2, SumBound
<1> QED BY <1>3, GradesLibrary DEF Grades!SumOfMarks, w

LEMMA MarksType ==
    ASSUME Grades!GoodConstants, NEW rows \in [Grades!Questions -> Grades!Rows],
           NEW qs \in SUBSET Grades!Questions
    PROVE  /\ Grades!SumOfMarks(rows, qs) \in Nat
           /\ Grades!SumOfMarks(rows, qs) <= Points * Cardinality(qs)
           /\ Cardinality(qs) \in Nat /\ Points * Cardinality(qs) \in Nat
<1>1. Points \in Nat /\ \A q \in qs : Grades!Mark(rows[q]) <= Points
  BY GradesNones, MarkType
<1>2. Grades!SumOfMarks(rows, qs) \in 0 .. (Points * Cardinality(qs))
  BY <1>1, MarksBound
<1>3. Cardinality(qs) \in Nat
  BY GradesNones, FS_Subset, FS_CardinalityType
<1>4. Points * Cardinality(qs) \in Nat
  <2> DEFINE c == Cardinality(qs)
  <2>1. c \in Nat
    BY <1>3
  <2> HIDE DEF c
  <2>2. Points * c \in Nat
    BY <1>1, <2>1
  <2> QED BY <2>2 DEF c
<1> DEFINE t == Points * Cardinality(qs)
<1> HIDE DEF t
<1>5. Grades!SumOfMarks(rows, qs) \in Nat /\ Grades!SumOfMarks(rows, qs) <= t
  BY <1>2, <1>4 DEF t
<1> QED BY <1>3, <1>4, <1>5 DEF t

LEMMA NoMarks ==
    ASSUME Grades!GoodConstants, NEW rows \in [Grades!Questions -> Grades!Rows],
           NEW qs \in SUBSET Grades!Questions,
           \A q \in qs : Grades!Mark(rows[q]) = 0
    PROVE  Grades!SumOfMarks(rows, qs) = 0
<1>1. Grades!SumOfMarks(rows, qs) \in 0 .. (0 * Cardinality(qs))
  BY MarksBound
<1>2. Cardinality(qs) \in Nat
  BY MarksType
<1>3. 0 * Cardinality(qs) = 0
  <2> DEFINE c == Cardinality(qs)
  <2> HIDE DEF c
  <2>1. c \in Nat => 0 * c = 0
    OBVIOUS
  <2> QED BY <1>2, <2>1 DEF c
<1> QED BY <1>1, <1>3

LEMMA SameMarks ==
    ASSUME Grades!GoodConstants, NEW rows \in [Grades!Questions -> Grades!Rows], NEW other,
           NEW qs \in SUBSET Grades!Questions, \A q \in qs : other[q] = rows[q]
    PROVE  Grades!SumOfMarks(other, qs) = Grades!SumOfMarks(rows, qs)
<1>1. [q \in qs |-> Grades!Mark(other[q])] = [q \in qs |-> Grades!Mark(rows[q])]
  OBVIOUS
<1> QED BY <1>1 DEF Grades!SumOfMarks

LEMMA MarksOfBoth ==
    ASSUME Grades!GoodConstants, NEW rows \in [Grades!Questions -> Grades!Rows],
           NEW A \in SUBSET Grades!Questions, NEW B \in SUBSET Grades!Questions, A \cap B = {}
    PROVE  Grades!SumOfMarks(rows, A \cup B)
           = Grades!SumOfMarks(rows, A) + Grades!SumOfMarks(rows, B)
<1> DEFINE S == A \cup B
           w == [q \in S |-> Grades!Mark(rows[q])]
           v(T) == [q \in T |-> Grades!Mark(rows[q])]
<1>1. IsFiniteSet(S)
  BY GradesNones, FS_Subset
<1>2. \A q \in S : w[q] \in Nat
  <2> SUFFICES ASSUME NEW q \in S PROVE Grades!Mark(rows[q]) \in Nat
    OBVIOUS
  <2> QED BY MarkType, GradesNones
<1>3. ASSUME NEW T \in SUBSET S PROVE SumFunctionOnSet(v(T), T) = SumFunctionOnSet(w, T)
  <2>1. IsFiniteSet(T)
    BY <1>1, FS_Subset
  <2>2. \A q \in T : w[q] \in Nat /\ v(T)[q] = w[q]
    BY <1>2
  <2> HIDE DEF v, w
  <2> QED BY <2>1, <2>2, SumSame
<1> HIDE DEF w
<1>4. SumFunctionOnSet(w, A \cup B) = SumFunctionOnSet(w, A) + SumFunctionOnSet(w, B)
  BY <1>1, <1>2, SumSplit
<1>5. A \in SUBSET S /\ B \in SUBSET S /\ A \cup B \in SUBSET S
  OBVIOUS
<1>6. \A T : Grades!SumOfMarks(rows, T) = SumFunctionOnSet(v(T), T)
  BY GradesLibrary DEF Grades!SumOfMarks
<1> HIDE DEF v, S
<1> QED BY <1>3, <1>4, <1>5, <1>6

\* One more question is marked.
LEMMA OneMoreMark ==
    ASSUME Grades!GoodConstants, NEW rows \in [Grades!Questions -> Grades!Rows],
           NEW row \in Grades!Rows,
           NEW q \in Grades!Questions, NEW qs \in SUBSET Grades!Questions, q \notin qs
    PROVE  Grades!SumOfMarks([rows EXCEPT ![q] = row], qs \cup {q})
           = Grades!SumOfMarks(rows, qs) + Grades!Mark(row)
<1>1. PICK other \in [Grades!Questions -> Grades!Rows] : other = [rows EXCEPT ![q] = row]
  OBVIOUS
<1>2. other[q] = row /\ \A x \in qs : other[x] = rows[x]
  BY <1>1
<1>3. Grades!SumOfMarks(other, qs \cup {q})
      = Grades!SumOfMarks(other, qs) + Grades!SumOfMarks(other, {q})
  BY MarksOfBoth
<1>4. Grades!SumOfMarks(other, qs) = Grades!SumOfMarks(rows, qs)
  BY <1>2, SameMarks
<1>5. Grades!SumOfMarks(other, {q}) = Grades!Mark(row)
  <2> DEFINE w == [x \in {q} |-> Grades!Mark(other[x])]
  <2>1. w[q] = Grades!Mark(row) /\ w[q] \in Nat
    BY <1>2, MarkType, GradesNones
  <2>2. \A x \in {q} : w[x] \in Nat
    BY <2>1
  <2>3. IsFiniteSet({q})
    BY FS_Singleton
  <2> HIDE DEF w
  <2>4. /\ SumFunctionOnSet(w, {q}) = w[q] + SumFunctionOnSet(w, {q} \ {q})
        /\ SumFunctionOnSet(w, {}) = 0
    BY <2>2, <2>3, SumRecursion
  <2>5. SumFunctionOnSet(w, {q}) = w[q]
    <3>1. {q} \ {q} = {}
      OBVIOUS
    <3> QED BY <2>1, <2>4, <3>1
  <2> QED BY <2>1, <2>5, GradesLibrary DEF Grades!SumOfMarks, w
<1> QED BY <1>1, <1>3, <1>4, <1>5

\* The share of the XP is a number, and at most the XP of the assignment.
LEMMA ShareOfXp ==
    ASSUME NEW m \in Nat, NEW e \in Nat, NEW t \in Nat
    PROVE  /\ Grades!ComputeScoreXp(m, e, t) \in Nat
           /\ e <= t => Grades!ComputeScoreXp(m, e, t) <= m
<1>1. CASE t <= 0 \/ m <= 0 \/ e <= 0
  BY <1>1 DEF Grades!ComputeScoreXp
<1>2. CASE t > 0 /\ m > 0 /\ e > 0
  <2> DEFINE x == 2 * m * e + t
             d == 2 * t
  <2>1. m * e \in Nat /\ m * t \in Nat /\ (e <= t => m * e <= m * t)
    OBVIOUS
  <2>2. x \in Nat /\ d \in Nat /\ d > 0
    <3> DEFINE y == m * e
    <3>1. 2 * m * e = 2 * y
      OBVIOUS
    <3>2. y \in Nat
      BY <2>1
    <3> HIDE DEF y
    <3> QED BY <1>2, <3>1, <3>2
  <2>3. e <= t => x < (m + 1) * d
    <3> DEFINE y == m * e
               z == m * t
    <3>1. 2 * m * e = 2 * y /\ (m + 1) * d = 2 * z + 2 * t
      OBVIOUS
    <3>2. y \in Nat /\ z \in Nat /\ (e <= t => y <= z)
      BY <2>1
    <3> HIDE DEF y, z
    <3> QED BY <1>2, <3>1, <3>2
  <2>4. Grades!ComputeScoreXp(m, e, t) = x \div d
    BY <1>2 DEF Grades!ComputeScoreXp
  <2> HIDE DEF x, d
  <2> DEFINE y == x \div d
             z == x % d
  <2>5. y \in Int /\ z \in Int /\ x = d * y + z /\ 0 <= z /\ z < d
    BY <2>2
  <2> HIDE DEF y, z
  <2>6. y >= 0
    <3> SUFFICES ASSUME y <= -1 PROVE FALSE
      BY <2>5
    <3>1. d * y <= d * (-1)
      BY <2>2, <2>5
    <3> QED BY <2>2, <2>5, <3>1
  <2>7. ASSUME e <= t PROVE y <= m
    <3> SUFFICES ASSUME y >= m + 1 PROVE FALSE
      BY <2>5
    <3>1. d * y >= d * (m + 1)
      BY <2>2, <2>5
    <3>2. d * (m + 1) = (m + 1) * d
      BY <2>2
    <3> QED BY <2>2, <2>3, <2>5, <2>7, <3>1, <3>2
  <2> QED BY <2>4, <2>5, <2>6, <2>7 DEF y
<1> QED BY <1>1, <1>2

-----------------------------------------------------------------------------
LEMMA GradesInit ==
    ASSUME Grades!GoodConstants, Grades!Init
    PROVE  GradesInv
<1>1. /\ graAnswer = [q \in Grades!Questions |-> None] /\ graRequest = [r \in Requests |-> None]
      /\ graStatus = "IN_PROGRESS" /\ graScore = None /\ graCalls = 0 /\ graCalm = TRUE
  BY DEF Grades!Init
<1>2. Grades!TypeOK
  <2>1. graPaper \in [asked : SUBSET Grades!Questions, type : {"CHOICE", "EXACT", "NUMBER"},
                      key : Keys, file : BOOLEAN]
    BY DEF Grades!Init, Grades!Questions
  <2>2. graAnswer \in [Grades!Questions -> Grades!Rows]
        /\ graRequest \in [Requests -> Grades!Calls \cup {None}]
    BY <1>1 DEF Grades!Rows
  <2> QED BY <1>1, <2>1, <2>2, GradesNones DEF Grades!TypeOK, Grades!Statuses
<1>3. \A r \in Requests : ~GradesLive(r)
  BY <1>1 DEF GradesLive
<1>4. Unmarked(graPaper.asked)
  BY <1>1, <1>2 DEF Grades!TypeOK, Unmarked
<1> QED BY <1>1, <1>2, <1>3, <1>4 DEF GradesInv, OneCall, GradesUnderway, GradesSettled

\* The questions asked, and those of each kind.
LEMMA PaperType ==
    ASSUME Grades!TypeOK
    PROVE  /\ graPaper.asked \subseteq Grades!Questions
           /\ graPaper.asked = (graPaper.asked \cap AutoGraded) \cup (graPaper.asked \cap Open)
BY DEF Grades!TypeOK, Grades!Questions

LEMMA TotalType ==
    ASSUME Grades!GoodConstants, Grades!TypeOK
    PROVE  Grades!Total \in Nat
BY PaperType, MarksType, GradesLibrary DEF Grades!Total, Grades!TypeOK

\* What a call is, in a state that overlaps nothing.
LEMMA GradesAlone ==
    ASSUME GradesInv, NEW r \in Requests, GradesLive(r), graCalm
    PROVE  GradesOnItsWay(graRequest[r]) /\ \A s \in Requests \ {r} : ~GradesLive(s)
BY DEF GradesInv, OneCall, GradesUnderway

LEMMA GradesGoesOn ==
    ASSUME Grades!GoodConstants, GradesInv, NEW r \in Requests, GradesLive(r),
           NEW c \in Grades!Calls,
           graRequest' = [graRequest EXCEPT ![r] = c], graCalm' = graCalm,
           graCalm => GradesOnItsWay(c)'
    PROVE  OneCall' /\ GradesUnderway' /\ GradesSettled'
<1>1. graRequest'[r] = c /\ c # None /\ \A s \in Requests \ {r} : graRequest'[s] = graRequest[s]
  BY GradesNones DEF GradesInv, Grades!TypeOK
<1>2. graCalm => \A s \in Requests \ {r} : ~GradesLive(s)'
  BY <1>1, GradesAlone DEF GradesLive
<1>3. OneCall' /\ GradesSettled'
  BY <1>1, <1>2 DEF OneCall, GradesSettled, Grades!Idle, GradesLive
<1>4. GradesUnderway'
  BY <1>1, <1>2 DEF GradesUnderway, GradesLive
<1> QED BY <1>3, <1>4

LEMMA GradesEnds ==
    ASSUME Grades!GoodConstants, GradesInv, NEW r \in Requests, GradesLive(r),
           graRequest' = [graRequest EXCEPT ![r] = None], graCalm' => graCalm,
           graCalm' => (IF graStatus = "IN_PROGRESS" THEN Unmarked(graPaper.asked)
                        ELSE AllMarked)'
    PROVE  OneCall' /\ GradesUnderway' /\ GradesSettled'
<1>1. graRequest'[r] = None /\ \A s \in Requests \ {r} : graRequest'[s] = graRequest[s]
  BY DEF GradesInv, Grades!TypeOK
<1>2. graCalm' => \A s \in Requests : ~GradesLive(s)'
  BY <1>1, GradesAlone DEF GradesLive
<1> QED BY <1>2 DEF OneCall, GradesUnderway, GradesSettled

\* A call begins, and rests on what the calls before it have settled.
LEMMA GradesBeginHolds ==
    ASSUME Grades!GoodConstants, GradesInv, NEW r \in Requests,
           NEW op \in {"save", "submit", "grade"},
           NEW left \in SUBSET graPaper.asked, Grades!Begin(r, op, left),
           op \in {"save", "submit"} => graStatus = "IN_PROGRESS",
           op = "submit" => left = graPaper.asked \cap AutoGraded,
           op = "grade" => graStatus # "IN_PROGRESS" /\ left = graPaper.asked \cap Open
    PROVE  GradesInv'
<1>1. /\ graRequest[r] = None /\ graCalls < MaxCalls /\ graCalls' = graCalls + 1
      /\ graCalm' = (graCalm /\ \A s \in Requests : graRequest[s] = None)
      /\ UNCHANGED <<graPaper, graStatus, graAnswer, graScore>>
  BY DEF Grades!Begin
<1>2. PICK c \in Grades!Calls : /\ graRequest' = [graRequest EXCEPT ![r] = c] /\ c.op = op
                                   /\ c.step = "read"
                                /\ c.left = left /\ c.seen = graAnswer /\ c.earned = 0
  <2> DEFINE d == [op |-> op, step |-> "read", left |-> left, seen |-> graAnswer, earned |-> 0]
  <2>1. d \in Grades!Calls /\ d.op = op /\ d.step = "read" /\ d.left = left
        /\ d.seen = graAnswer /\ d.earned = 0
    BY PaperType DEF Grades!Calls, GradesInv, Grades!TypeOK
  <2>2. graRequest' = [graRequest EXCEPT ![r] = d]
    BY DEF Grades!Begin
  <2> HIDE DEF d
  <2> QED BY <2>1, <2>2
<1>3. Grades!TypeOK'
  <2>1. graCalls' \in 0 .. MaxCalls /\ graCalm' \in BOOLEAN
    BY <1>1, GradesNones DEF GradesInv, Grades!TypeOK
  <2> QED BY <1>1, <1>2, <2>1 DEF GradesInv, Grades!TypeOK
<1>4. graRequest'[r] = c /\ c # None
      /\ (graCalm' => \A s \in Requests \ {r} : graRequest'[s] = None)
  BY <1>1, <1>2, GradesNones DEF GradesInv, Grades!TypeOK
<1>5. OneCall' /\ GradesSettled'
  BY <1>4 DEF OneCall, GradesSettled, Grades!Idle, GradesLive
<1>6. GradesUnderway'
  <2> SUFFICES ASSUME graCalm' PROVE GradesOnItsWay(c)'
    BY <1>4 DEF GradesUnderway, GradesLive
  <2>1. IF graStatus = "IN_PROGRESS" THEN Unmarked(graPaper.asked) ELSE AllMarked
    BY <1>1 DEF GradesInv, GradesSettled, Grades!Idle
  <2>2. op = "grade" => Reviewing(c)
    <3> SUFFICES ASSUME op = "grade" PROVE Reviewing(c)
      OBVIOUS
    <3>1. \A q \in graPaper.asked \cap AutoGraded : Deserved(q) /\ graAnswer[q] = c.seen[q]
      BY <1>2, <2>1 DEF AllMarked
    <3>2. (graPaper.asked \cap Open) \ c.left = {}
      BY <1>2
    <3>3. c.earned = Grades!SumOfMarks(graAnswer, {})
      BY <1>2, NoMarks DEF GradesInv, Grades!TypeOK
    <3> QED BY <1>2, <3>1, <3>2, <3>3 DEF Reviewing
  <2>3. op = "submit" => Handing(c)
    BY <1>2, <2>1 DEF Handing
  <2>4. GradesOnItsWay(c)
    BY <1>2, <2>1, <2>2, <2>3 DEF GradesOnItsWay
  <2>5. UNCHANGED <<Handing(c), Reviewing(c), Unmarked(graPaper.asked)>>
    BY <1>1 DEF Handing, Reviewing, Unmarked, Deserved, Grades!Deserved, Grades!Awarded, Grades!Correct
  <2> QED BY <1>1, <2>4, <2>5 DEF GradesOnItsWay
<1> QED BY <1>3, <1>5, <1>6 DEF GradesInv

\* A step that writes one answer, as a row of the table.
LEMMA OneAnswer ==
    ASSUME GradesInv, NEW q \in Grades!Questions, NEW row \in Grades!Rows,
           graAnswer' = [graAnswer EXCEPT ![q] = row]
    PROVE  /\ graAnswer' \in [Grades!Questions -> Grades!Rows] /\ graAnswer'[q] = row
           /\ \A x \in Grades!Questions \ {q} : graAnswer'[x] = graAnswer[x]
BY DEF GradesInv, Grades!TypeOK

LEMMA SaveHolds ==
    ASSUME Grades!GoodConstants, GradesInv, NEW r \in Requests, NEW q \in Grades!Questions,
           NEW value \in Answers,
           Grades!SaveAnswer(r, q, value)
    PROVE  GradesInv'
<1>1. /\ GradesLive(r) /\ graRequest[r] \in Grades!Calls /\ graRequest[r].op = "save"
      /\ UNCHANGED <<graPaper, graStatus, graScore, graCalls, graCalm>>
  BY DEF Grades!SaveAnswer, GradesLive, GradesInv, Grades!TypeOK
<1>2. PICK row \in Grades!Written : /\ graAnswer' = [graAnswer EXCEPT ![q] = row]
                                    /\ row.mark = IF graAnswer[q] = None THEN None
                                       ELSE graAnswer[q].mark
  <2> DEFINE w == [value |-> value, mark |-> IF graAnswer[q] = None THEN None
                   ELSE graAnswer[q].mark]
  <2>1. graAnswer[q] \in Grades!Rows
    BY DEF GradesInv, Grades!TypeOK
  <2>2. w \in Grades!Written /\ w.mark = IF graAnswer[q] = None THEN None ELSE graAnswer[q].mark
    BY <2>1 DEF Grades!Written, Grades!Rows
  <2>3. graAnswer' = [graAnswer EXCEPT ![q] = w]
    BY DEF Grades!SaveAnswer, GradesInv, Grades!TypeOK
  <2> HIDE DEF w
  <2> QED BY <2>2, <2>3
<1>3. /\ graAnswer' \in [Grades!Questions -> Grades!Rows] /\ graAnswer'[q] = row
      /\ \A x \in Grades!Questions \ {q} : graAnswer'[x] = graAnswer[x]
  BY <1>2, OneAnswer DEF Grades!Rows
<1>4. Unmarked(graPaper.asked) => Unmarked(graPaper.asked)'
  BY <1>1, <1>2, <1>3, PaperType DEF Unmarked, GradesInv
<1>5. graCalm => graStatus = "IN_PROGRESS" /\ Unmarked(graPaper.asked)
  BY <1>1, GradesAlone DEF GradesOnItsWay
<1>6. CASE graRequest[r].left = {q}
  <2>1. graRequest' = [graRequest EXCEPT ![r] = None]
    BY <1>6 DEF Grades!SaveAnswer, Grades!End
  <2>2. Grades!TypeOK'
    BY <1>1, <1>3, <2>1 DEF GradesInv, Grades!TypeOK
  <2>3. graCalm => (IF graStatus = "IN_PROGRESS" THEN Unmarked(graPaper.asked) ELSE AllMarked)'
    BY <1>1, <1>4, <1>5
  <2> QED BY <1>1, <2>1, <2>2, <2>3, GradesEnds DEF GradesInv
<1>7. CASE graRequest[r].left # {q}
  <2>1. PICK c \in Grades!Calls : graRequest' = [graRequest EXCEPT ![r] = c] /\ c.op = "save"
    <3> DEFINE d == [graRequest[r] EXCEPT !.step = "read", !.left = graRequest[r].left \ {q},
                     !.earned = 0]
    <3>1. d \in Grades!Calls /\ d.op = "save"
      BY <1>1 DEF Grades!Calls
    <3>2. graRequest' = [graRequest EXCEPT ![r] = d]
      BY <1>1, <1>7 DEF Grades!SaveAnswer, Grades!Continue, GradesInv, Grades!TypeOK
    <3> HIDE DEF d
    <3> QED BY <3>1, <3>2
  <2>2. Grades!TypeOK'
    BY <1>1, <1>3, <2>1 DEF GradesInv, Grades!TypeOK
  <2>3. graCalm => GradesOnItsWay(c)'
    BY <1>1, <1>4, <1>5, <2>1 DEF GradesOnItsWay
  <2> QED BY <1>1, <2>1, <2>2, <2>3, GradesGoesOn DEF GradesInv
<1> QED BY <1>6, <1>7

LEMMA GradesReadHolds ==
    ASSUME Grades!GoodConstants, GradesInv, NEW r \in Requests, Grades!ReadAnswers(r)
    PROVE  GradesInv'
<1>1. /\ GradesLive(r) /\ graRequest[r] \in Grades!Calls /\ graRequest[r].op = "submit"
         /\ graRequest[r].step = "read"
      /\ UNCHANGED <<graPaper, graStatus, graAnswer, graScore, graCalls, graCalm>>
  BY DEF Grades!ReadAnswers, GradesLive, GradesInv, Grades!TypeOK
<1>2. PICK c \in Grades!Calls : /\ graRequest' = [graRequest EXCEPT ![r] = c]
                                /\ c.op = "submit" /\ c.step = "mark" /\ c.seen = graAnswer
                                /\ c.left = graRequest[r].left
                                   /\ c.earned = graRequest[r].earned
  <2> DEFINE d == [graRequest[r] EXCEPT !.seen = graAnswer, !.step = "mark"]
  <2>1. /\ d \in Grades!Calls /\ d.op = "submit" /\ d.step = "mark" /\ d.seen = graAnswer
        /\ d.left = graRequest[r].left /\ d.earned = graRequest[r].earned
    BY <1>1 DEF Grades!Calls, GradesInv, Grades!TypeOK
  <2>2. graRequest' = [graRequest EXCEPT ![r] = d]
    BY DEF Grades!ReadAnswers
  <2> HIDE DEF d
  <2> QED BY <2>1, <2>2
<1>3. Grades!TypeOK'
  BY <1>1, <1>2 DEF GradesInv, Grades!TypeOK
<1>4. ASSUME graCalm PROVE GradesOnItsWay(c)
  <2>1. /\ graStatus = "IN_PROGRESS" /\ Unmarked(graPaper.asked)
        /\ c.left = graPaper.asked \cap AutoGraded /\ c.earned = 0
    BY <1>1, <1>2, <1>4, GradesAlone DEF GradesOnItsWay, Handing
  <2>2. (graPaper.asked \cap AutoGraded) \ c.left = {} /\ Unmarked(graPaper.asked \cap Open)
    BY <2>1 DEF Unmarked
  <2>3. c.earned = Grades!SumOfMarks(graAnswer, {})
    BY <2>1, NoMarks DEF GradesInv, Grades!TypeOK
  <2>4. Handing(c)
    BY <1>2, <2>1, <2>2, <2>3 DEF Handing
  <2> QED BY <1>2, <2>1, <2>4 DEF GradesOnItsWay
<1>5. UNCHANGED <<Handing(c), Reviewing(c), Unmarked(graPaper.asked)>>
  BY <1>1 DEF Handing, Reviewing, Unmarked, Deserved, Grades!Deserved, Grades!Awarded, Grades!Correct
<1>6. graCalm => GradesOnItsWay(c)'
  BY <1>1, <1>4, <1>5 DEF GradesOnItsWay
<1> QED BY <1>1, <1>2, <1>3, <1>6, GradesGoesOn DEF GradesInv

\* A question is marked: its marks join those of the questions before.
LEMMA MarkHolds ==
    ASSUME Grades!GoodConstants, GradesInv, NEW r \in Requests, NEW q \in Grades!Questions,
           Grades!MarkAnswer(r, q)
    PROVE  GradesInv'
<1>1. /\ GradesLive(r) /\ graRequest[r] \in Grades!Calls /\ graRequest[r].op = "submit"
         /\ graRequest[r].step = "mark"
      /\ q \in graRequest[r].left
         /\ UNCHANGED <<graPaper, graStatus, graScore, graCalls, graCalm>>
  BY DEF Grades!MarkAnswer, GradesLive, GradesInv, Grades!TypeOK
<1>2. PICK seen \in Grades!Rows : seen = graRequest[r].seen[q]
  BY <1>1 DEF Grades!Calls
<1>3. PICK mark \in 0 .. Points : mark = IF seen = None THEN 0 ELSE Grades!Awarded(seen.value)
  BY GradesNones DEF Grades!Awarded
<1>4. PICK row \in Grades!Written : /\ graAnswer' = [graAnswer EXCEPT ![q] = row]
                                       /\ row.mark = mark
                                    /\ row.value = IF graAnswer[q] = None THEN {}
                                       ELSE graAnswer[q].value
  <2> DEFINE w == [value |-> IF graAnswer[q] = None THEN {} ELSE graAnswer[q].value,
                   mark |-> mark]
  <2>1. graAnswer[q] \in Grades!Rows
    BY DEF GradesInv, Grades!TypeOK
  <2>2. w \in Grades!Written /\ w.mark = mark
        /\ w.value = IF graAnswer[q] = None THEN {} ELSE graAnswer[q].value
    BY <2>1, GradesNones DEF Grades!Written, Grades!Rows
  <2>3. graAnswer' = [graAnswer EXCEPT ![q] = w]
    BY <1>2, <1>3 DEF Grades!MarkAnswer, GradesInv, Grades!TypeOK
  <2> HIDE DEF w
  <2> QED BY <2>2, <2>3
<1>5. PICK c \in Grades!Calls : /\ graRequest' = [graRequest EXCEPT ![r] = c]
                                /\ c.op = "submit" /\ c.step = "mark"
                                   /\ c.seen = graRequest[r].seen
                                /\ c.left = graRequest[r].left \ {q}
                                /\ c.earned = graRequest[r].earned + mark
  <2> DEFINE d == [graRequest[r] EXCEPT !.step = "mark", !.left = graRequest[r].left \ {q},
                                        !.earned = graRequest[r].earned + mark]
  <2>1. graRequest[r].earned + mark \in Nat
    BY <1>1, GradesNones DEF Grades!Calls
  <2>2. /\ d \in Grades!Calls /\ d.op = "submit" /\ d.step = "mark"
           /\ d.seen = graRequest[r].seen
        /\ d.left = graRequest[r].left \ {q} /\ d.earned = graRequest[r].earned + mark
    BY <1>1, <2>1 DEF Grades!Calls
  <2>3. graRequest' = [graRequest EXCEPT ![r] = d]
    BY <1>1, <1>2, <1>3 DEF Grades!MarkAnswer, Grades!Continue, GradesInv, Grades!TypeOK
  <2> HIDE DEF d
  <2> QED BY <2>2, <2>3
<1>6. /\ graAnswer' \in [Grades!Questions -> Grades!Rows] /\ graAnswer'[q] = row
      /\ \A x \in Grades!Questions \ {q} : graAnswer'[x] = graAnswer[x]
  BY <1>4, OneAnswer DEF Grades!Rows
<1>7. Grades!TypeOK'
  BY <1>1, <1>5, <1>6 DEF GradesInv, Grades!TypeOK
<1>8. ASSUME graCalm PROVE GradesOnItsWay(c)'
  <2>1. /\ graStatus = "IN_PROGRESS"
           /\ graRequest[r].left \subseteq graPaper.asked \cap AutoGraded
        /\ Unmarked(graPaper.asked \cap Open)
        /\ \A x \in graRequest[r].left : graAnswer[x] = graRequest[r].seen[x]
        /\ \A x \in (graPaper.asked \cap AutoGraded) \ graRequest[r].left : Deserved(x)
        /\ graRequest[r].earned
           = Grades!SumOfMarks(graAnswer, (graPaper.asked \cap AutoGraded) \ graRequest[r].left)
    BY <1>1, <1>8, GradesAlone DEF GradesOnItsWay, Handing
  <2>2. q \in graPaper.asked /\ q \in AutoGraded /\ q \notin Open
    BY <1>1, <2>1, GradesNones
  <2>3. Deserved(q)'
    <3>1. graAnswer'[q] # None /\ graAnswer'[q].mark = mark /\ mark \in Nat
      BY <1>3, <1>4, <1>6, GradesNones DEF Grades!Written
    <3>2. Grades!Deserved(row)
      <4>1. seen = graAnswer[q]
        BY <1>1, <1>2, <2>1
      <4>2. CASE seen = None
        BY <1>3, <1>4, <4>1, <4>2 DEF Grades!Deserved
      <4>3. CASE seen # None
        BY <1>3, <1>4, <4>1, <4>3 DEF Grades!Deserved
      <4> QED BY <4>2, <4>3
    <3>3. Grades!Deserved(row)' <=> Grades!Deserved(row)
      BY <1>1 DEF Grades!Deserved, Grades!Awarded, Grades!Correct
    <3>4. Grades!Deserved(row)'
      BY <3>2, <3>3
    <3> QED BY <1>6, <3>1, <3>4 DEF Deserved
  <2>4. ASSUME NEW x \in (graPaper.asked \cap AutoGraded) \ c.left PROVE Deserved(x)'
    <3>1. CASE x = q
      BY <2>3, <3>1
    <3>2. CASE x # q
      <4>1. Deserved(x) /\ graAnswer'[x] = graAnswer[x]
        BY <1>5, <1>6, <2>1, <2>4, <3>2 DEF Grades!Questions
      <4> QED BY <1>1, <4>1 DEF Deserved, Grades!Deserved, Grades!Awarded, Grades!Correct
    <3> QED BY <3>1, <3>2
  <2>5. Unmarked(graPaper.asked \cap Open)'
    BY <1>1, <1>6, <2>1, <2>2, PaperType DEF Unmarked, Grades!Questions
  <2>6. \A x \in c.left : graAnswer'[x] = c.seen[x]
    BY <1>5, <1>6, <2>1 DEF Grades!Questions
  <2>7. c.earned = Grades!SumOfMarks(graAnswer', (graPaper.asked \cap AutoGraded) \ c.left)
    <3> DEFINE qs == (graPaper.asked \cap AutoGraded) \ graRequest[r].left
    <3>1. qs \in SUBSET Grades!Questions /\ q \notin qs
          /\ (graPaper.asked \cap AutoGraded) \ c.left = qs \cup {q}
      BY <1>1, <1>5, <2>2, PaperType DEF GradesInv
    <3>2. graRequest[r].earned = Grades!SumOfMarks(graAnswer, qs)
      BY <2>1
    <3> HIDE DEF qs
    <3>3. row \in Grades!Rows /\ Grades!Mark(row) = mark
      BY <1>4, GradesNones DEF Grades!Rows, Grades!Mark, Grades!Written
    <3>4. graAnswer \in [Grades!Questions -> Grades!Rows]
      BY DEF GradesInv, Grades!TypeOK
    <3>5. Grades!SumOfMarks([graAnswer EXCEPT ![q] = row], qs \cup {q})
          = Grades!SumOfMarks(graAnswer, qs) + mark
      BY <3>1, <3>3, <3>4, OneMoreMark
    <3> QED BY <1>4, <1>5, <3>1, <3>2, <3>5
  <2>8. c.left \subseteq graPaper.asked \cap AutoGraded
    BY <1>5, <2>1
  <2>9. Handing(c)'
    BY <1>1, <1>5, <2>4, <2>5, <2>6, <2>7, <2>8 DEF Handing
  <2> QED BY <1>1, <1>5, <2>1, <2>9 DEF GradesOnItsWay
<1> QED BY <1>1, <1>5, <1>7, <1>8, GradesGoesOn DEF GradesInv

\* The score of an attempt handed in: no open question has a mark yet.
LEMMA HandInHolds ==
    ASSUME Grades!GoodConstants, GradesInv, NEW r \in Requests, Grades!FinishSubmit(r)
    PROVE  GradesInv'
<1>1. /\ GradesLive(r) /\ graRequest[r] \in Grades!Calls /\ graRequest[r].op = "submit"
         /\ graRequest[r].step = "mark"
      /\ graRequest[r].left = {} /\ graRequest' = [graRequest EXCEPT ![r] = None]
      /\ UNCHANGED <<graPaper, graAnswer, graCalls, graCalm>>
      /\ graStatus' \in Grades!Statuses \ {"IN_PROGRESS"}
  BY DEF Grades!FinishSubmit, Grades!End, GradesLive, GradesInv, Grades!TypeOK, Grades!Statuses
<1>2. PICK earned \in Nat : earned = graRequest[r].earned
  BY <1>1 DEF Grades!Calls
<1>3. PICK xp \in Nat : xp = Grades!ComputeScoreXp(MaxXp, earned, Grades!Total)
  BY ShareOfXp, TotalType, GradesNones DEF GradesInv
<1>4. graScore' = [points |-> earned, xp |-> xp] /\ graScore' \in Grades!Scores
  BY <1>2, <1>3 DEF Grades!FinishSubmit, Grades!Scores
<1>5. Grades!TypeOK'
  BY <1>1, <1>4 DEF GradesInv, Grades!TypeOK
<1>6. ASSUME graCalm PROVE AllMarked'
  <2>1. /\ Unmarked(graPaper.asked \cap Open)
           /\ (\A q \in graPaper.asked \cap AutoGraded : Deserved(q))
        /\ earned = Grades!SumOfMarks(graAnswer, (graPaper.asked \cap AutoGraded) \ {})
    BY <1>1, <1>2, <1>6, GradesAlone DEF GradesOnItsWay, Handing
  <2>2. (graPaper.asked \cap AutoGraded) \ {} = graPaper.asked \cap AutoGraded
    OBVIOUS
  <2>3. graAnswer \in [Grades!Questions -> Grades!Rows]
        /\ graPaper.asked \cap Open \in SUBSET Grades!Questions
        /\ graPaper.asked \cap AutoGraded \in SUBSET Grades!Questions
    BY PaperType DEF GradesInv, Grades!TypeOK
  <2>4. Grades!SumOfMarks(graAnswer, graPaper.asked \cap Open) = 0
    <3>1. \A q \in graPaper.asked \cap Open : Grades!Mark(graAnswer[q]) = 0
      BY <2>1 DEF Unmarked, Grades!Mark
    <3> QED BY <2>3, <3>1, NoMarks
  <2>5. Grades!SumOfMarks(graAnswer, graPaper.asked) = earned
    <3>1. (graPaper.asked \cap AutoGraded) \cap (graPaper.asked \cap Open) = {}
      BY GradesNones
    <3>2. Grades!SumOfMarks(graAnswer,
                            (graPaper.asked \cap AutoGraded) \cup (graPaper.asked \cap Open))
            = Grades!SumOfMarks(graAnswer, graPaper.asked \cap AutoGraded)
              + Grades!SumOfMarks(graAnswer, graPaper.asked \cap Open)
      BY <2>3, <3>1, MarksOfBoth
    <3>3. graPaper.asked = (graPaper.asked \cap AutoGraded) \cup (graPaper.asked \cap Open)
      BY PaperType DEF GradesInv
    <3>4. Grades!SumOfMarks(graAnswer, graPaper.asked \cap AutoGraded) = earned
      BY <2>1, <2>2, Zenon
    <3>5. Grades!SumOfMarks(graAnswer, graPaper.asked)
            = Grades!SumOfMarks(graAnswer,
                                (graPaper.asked \cap AutoGraded)
                                \cup (graPaper.asked \cap Open))
      BY <3>3, Zenon
    <3>6. earned + 0 = earned
      OBVIOUS
    <3> QED BY <2>4, <3>2, <3>4, <3>5, <3>6, Zenon
  <2>6. xp <= MaxXp
    <3>1. earned <= Grades!Total
      BY <2>3, <2>5, PaperType, MarksType, GradesLibrary DEF Grades!Total, GradesInv
    <3> QED BY <1>3, <3>1, ShareOfXp, TotalType, GradesNones DEF GradesInv
  <2>7. \A q \in graPaper.asked \cap AutoGraded : Deserved(q)'
    BY <1>1, <2>1 DEF Deserved, Grades!Deserved, Grades!Awarded, Grades!Correct
  <2> QED BY <1>1, <1>4, <2>5, <2>6, <2>7 DEF AllMarked
<1>7. graCalm' => (IF graStatus = "IN_PROGRESS" THEN Unmarked(graPaper.asked) ELSE AllMarked)'
  BY <1>1, <1>6
<1> QED BY <1>1, <1>5, <1>7, GradesEnds DEF GradesInv

LEMMA GradeHolds ==
    ASSUME Grades!GoodConstants, GradesInv, NEW r \in Requests, NEW q \in Open,
           NEW mark \in 0 .. Points,
           Grades!GradeAnswer(r, q, mark)
    PROVE  GradesInv'
<1>1. /\ GradesLive(r) /\ graRequest[r] \in Grades!Calls /\ graRequest[r].op = "grade"
      /\ q \in graRequest[r].left /\ q \in Grades!Questions /\ q \notin AutoGraded
      /\ UNCHANGED <<graPaper, graStatus, graScore, graCalls, graCalm>>
  BY GradesNones DEF Grades!GradeAnswer, GradesLive, GradesInv, Grades!TypeOK, Grades!Questions
<1>2. PICK row \in Grades!Written : graAnswer' = [graAnswer EXCEPT ![q] = row]
      /\ row.mark = mark
  <2> DEFINE w == [value |-> IF graAnswer[q] = None THEN {} ELSE graAnswer[q].value,
                   mark |-> mark]
  <2>1. graAnswer[q] \in Grades!Rows
    BY <1>1 DEF GradesInv, Grades!TypeOK
  <2>2. w \in Grades!Written /\ w.mark = mark
    BY <2>1, GradesNones DEF Grades!Written, Grades!Rows
  <2>3. graAnswer' = [graAnswer EXCEPT ![q] = w]
    BY <1>1 DEF Grades!GradeAnswer, GradesInv, Grades!TypeOK
  <2> HIDE DEF w
  <2> QED BY <2>2, <2>3
<1>3. PICK c \in Grades!Calls : /\ graRequest' = [graRequest EXCEPT ![r] = c]
                                /\ c.op = "grade" /\ c.seen = graRequest[r].seen
                                /\ c.left = graRequest[r].left \ {q}
                                /\ c.earned = graRequest[r].earned + mark
  <2> DEFINE d == [graRequest[r] EXCEPT !.step = "mark", !.left = graRequest[r].left \ {q},
                                        !.earned = graRequest[r].earned + mark]
  <2>1. graRequest[r].earned + mark \in Nat
    BY <1>1, GradesNones DEF Grades!Calls
  <2>2. /\ d \in Grades!Calls /\ d.op = "grade" /\ d.seen = graRequest[r].seen
        /\ d.left = graRequest[r].left \ {q} /\ d.earned = graRequest[r].earned + mark
    BY <1>1, <2>1 DEF Grades!Calls
  <2>3. graRequest' = [graRequest EXCEPT ![r] = d]
    BY <1>1 DEF Grades!GradeAnswer, Grades!Continue, GradesInv, Grades!TypeOK
  <2> HIDE DEF d
  <2> QED BY <2>2, <2>3
<1>4. /\ graAnswer' \in [Grades!Questions -> Grades!Rows] /\ graAnswer'[q] = row
      /\ \A x \in Grades!Questions \ {q} : graAnswer'[x] = graAnswer[x]
  BY <1>1, <1>2, OneAnswer DEF Grades!Rows
<1>5. Grades!TypeOK'
  BY <1>1, <1>3, <1>4 DEF GradesInv, Grades!TypeOK
<1>6. ASSUME graCalm PROVE GradesOnItsWay(c)'
  <2>1. /\ graStatus # "IN_PROGRESS" /\ graRequest[r].left \subseteq graPaper.asked \cap Open
        /\ \A x \in graPaper.asked \cap AutoGraded : Deserved(x)
           /\ graAnswer[x] = graRequest[r].seen[x]
        /\ graRequest[r].earned
           = Grades!SumOfMarks(graAnswer, (graPaper.asked \cap Open) \ graRequest[r].left)
    BY <1>1, <1>6, GradesAlone DEF GradesOnItsWay, Reviewing
  <2>2. ASSUME NEW x \in graPaper.asked \cap AutoGraded
        PROVE  Deserved(x)' /\ graAnswer'[x] = c.seen[x]
    <3>1. Deserved(x) /\ graAnswer'[x] = graAnswer[x] /\ graAnswer[x] = c.seen[x]
      BY <1>1, <1>3, <1>4, <2>1 DEF Grades!Questions
    <3> QED BY <1>1, <3>1 DEF Deserved, Grades!Deserved, Grades!Awarded, Grades!Correct
  <2>3. c.earned = Grades!SumOfMarks(graAnswer', (graPaper.asked \cap Open) \ c.left)
    <3> DEFINE qs == (graPaper.asked \cap Open) \ graRequest[r].left
    <3>1. qs \in SUBSET Grades!Questions /\ q \notin qs
          /\ (graPaper.asked \cap Open) \ c.left = qs \cup {q}
      BY <1>1, <1>3, <2>1, PaperType DEF GradesInv
    <3>2. graRequest[r].earned = Grades!SumOfMarks(graAnswer, qs)
      BY <2>1
    <3> HIDE DEF qs
    <3>3. row \in Grades!Rows /\ Grades!Mark(row) = mark
      BY <1>2, GradesNones DEF Grades!Rows, Grades!Mark, Grades!Written
    <3>4. graAnswer \in [Grades!Questions -> Grades!Rows]
      BY DEF GradesInv, Grades!TypeOK
    <3>5. Grades!SumOfMarks([graAnswer EXCEPT ![q] = row], qs \cup {q})
          = Grades!SumOfMarks(graAnswer, qs) + mark
      BY <1>1, <3>1, <3>3, <3>4, OneMoreMark, ZenonT(40)
    <3> QED BY <1>2, <1>3, <3>1, <3>2, <3>5
  <2>4. c.left \subseteq graPaper.asked \cap Open
    BY <1>3, <2>1
  <2>5. Reviewing(c)'
    BY <1>1, <2>2, <2>3, <2>4 DEF Reviewing
  <2> QED BY <1>1, <1>3, <2>1, <2>5 DEF GradesOnItsWay
<1> QED BY <1>1, <1>3, <1>5, <1>6, GradesGoesOn DEF GradesInv

\* The score of a graded attempt: the automatic marks are those that were read.
LEMMA GradedHolds ==
    ASSUME Grades!GoodConstants, GradesInv, NEW r \in Requests, Grades!FinishGrade(r)
    PROVE  GradesInv'
<1>1. /\ GradesLive(r) /\ graRequest[r] \in Grades!Calls /\ graRequest[r].op = "grade"
      /\ graRequest[r].left = {} /\ graRequest' = [graRequest EXCEPT ![r] = None]
      /\ UNCHANGED <<graPaper, graAnswer, graCalls, graCalm>> /\ graStatus' = "GRADED"
  BY DEF Grades!FinishGrade, Grades!End, GradesLive, GradesInv, Grades!TypeOK
<1>2. /\ graPaper.asked \cap Open \in SUBSET Grades!Questions
         /\ graPaper.asked \cap AutoGraded \in SUBSET Grades!Questions
      /\ graAnswer \in [Grades!Questions -> Grades!Rows]
         /\ graRequest[r].seen \in [Grades!Questions -> Grades!Rows]
      /\ graRequest[r].earned \in Nat /\ graPaper.asked \in SUBSET Grades!Questions
  BY <1>1, PaperType DEF GradesInv, Grades!TypeOK, Grades!Calls
<1>3. PICK earned \in Nat :
         earned = graRequest[r].earned + Grades!SumOfMarks(graRequest[r].seen,
                                                           graPaper.asked \cap AutoGraded)
  BY <1>2, MarksType
<1>4. PICK p \in Nat, xp \in Nat :
         /\ graScore' = [points |-> p, xp |-> xp]
         /\ IF Grades!Total > 0 THEN p = earned
            /\ xp = Grades!ComputeScoreXp(MaxXp, earned, Grades!Total)
            ELSE xp <= MaxXp
  <2>1. CASE Grades!Total > 0
    <3>1. graScore' = [points |-> earned,
                       xp |-> Grades!ComputeScoreXp(MaxXp, earned, Grades!Total)]
      BY <1>3, <2>1 DEF Grades!FinishGrade
    <3>2. Grades!ComputeScoreXp(MaxXp, earned, Grades!Total) \in Nat
      BY ShareOfXp, TotalType, GradesNones DEF GradesInv
    <3> QED BY <2>1, <3>1, <3>2
  <2>2. CASE ~(Grades!Total > 0)
    <3>1. PICK n \in 0 .. MaxXp + 1 :
             graScore' = [points |-> n, xp |-> IF n < MaxXp THEN n ELSE MaxXp]
      BY <2>2 DEF Grades!FinishGrade
    <3>2. n \in Nat /\ (IF n < MaxXp THEN n ELSE MaxXp) \in Nat
          /\ (IF n < MaxXp THEN n ELSE MaxXp) <= MaxXp
      BY GradesNones
    <3> QED BY <2>2, <3>1, <3>2
  <2> QED BY <2>1, <2>2
<1>5. Grades!TypeOK'
  <2>1. graScore' \in Grades!Scores /\ graStatus' \in Grades!Statuses
    BY <1>1, <1>4 DEF Grades!Scores, Grades!Statuses
  <2> QED BY <1>1, <2>1 DEF GradesInv, Grades!TypeOK
<1>6. ASSUME graCalm PROVE AllMarked'
  <2>1. /\ \A q \in graPaper.asked \cap AutoGraded : Deserved(q)
           /\ graAnswer[q] = graRequest[r].seen[q]
        /\ graRequest[r].earned = Grades!SumOfMarks(graAnswer, (graPaper.asked \cap Open) \ {})
    BY <1>1, <1>6, GradesAlone DEF GradesOnItsWay, Reviewing
  <2>2. Grades!SumOfMarks(graAnswer, graPaper.asked \cap Open) = graRequest[r].earned
    <3>1. (graPaper.asked \cap Open) \ {} = graPaper.asked \cap Open
      OBVIOUS
    <3> QED BY <2>1, <3>1, Zenon
  <2>3. Grades!SumOfMarks(graRequest[r].seen, graPaper.asked \cap AutoGraded)
          = Grades!SumOfMarks(graAnswer, graPaper.asked \cap AutoGraded)
    BY <1>2, <2>1, SameMarks
  <2>4. Grades!SumOfMarks(graAnswer, graPaper.asked)
          = Grades!SumOfMarks(graAnswer,
                              graPaper.asked \cap Open) + Grades!SumOfMarks(graAnswer,
                                                                            graPaper.asked \cap AutoGraded)
    <3>1. (graPaper.asked \cap Open) \cap (graPaper.asked \cap AutoGraded) = {}
      BY GradesNones
    <3>2. Grades!SumOfMarks(graAnswer,
                            (graPaper.asked \cap Open) \cup (graPaper.asked \cap AutoGraded))
            = Grades!SumOfMarks(graAnswer, graPaper.asked \cap Open)
              + Grades!SumOfMarks(graAnswer, graPaper.asked \cap AutoGraded)
      BY <1>2, <3>1, MarksOfBoth
    <3>3. graPaper.asked = (graPaper.asked \cap Open) \cup (graPaper.asked \cap AutoGraded)
      BY PaperType DEF GradesInv
    <3>4. Grades!SumOfMarks(graAnswer, graPaper.asked)
            = Grades!SumOfMarks(graAnswer,
                                (graPaper.asked \cap Open)
                                \cup (graPaper.asked \cap AutoGraded))
      BY <3>3, Zenon
    <3> QED BY <3>2, <3>4, Zenon
  <2>5. Grades!SumOfMarks(graAnswer, graPaper.asked) = earned
    BY <1>3, <2>2, <2>3, <2>4, Zenon
  <2>6. xp <= MaxXp
    <3>1. earned <= Grades!Total
      BY <1>2, <2>5, MarksType, GradesLibrary DEF Grades!Total
    <3> QED BY <1>3, <1>4, <3>1, ShareOfXp, TotalType, GradesNones DEF GradesInv
  <2>7. \A q \in graPaper.asked \cap AutoGraded : Deserved(q)'
    BY <1>1, <2>1 DEF Deserved, Grades!Deserved, Grades!Awarded, Grades!Correct
  <2>8. Grades!Total' = Grades!Total
    BY <1>1 DEF Grades!Total
  <2> QED BY <1>1, <1>4, <2>5, <2>6, <2>7, <2>8 DEF AllMarked
<1>7. graCalm' => (IF graStatus = "IN_PROGRESS" THEN Unmarked(graPaper.asked) ELSE AllMarked)'
  BY <1>1, <1>6
<1> QED BY <1>1, <1>5, <1>7, GradesEnds DEF GradesInv

LEMMA GradesStep ==
    ASSUME Grades!GoodConstants, GradesInv, [Grades!Next]_(Grades!gradingVars)
    PROVE  GradesInv'
<1>1. ASSUME NEW r \in Requests, Grades!SaveAnswers(r) PROVE GradesInv'
  <2>1. PICK qs \in SUBSET graPaper.asked : graStatus = "IN_PROGRESS"
        /\ Grades!Begin(r, "save", qs)
    BY <1>1 DEF Grades!SaveAnswers
  <2> QED BY <2>1, GradesBeginHolds
<1>2. ASSUME NEW r \in Requests, Grades!Submit(r) PROVE GradesInv'
  <2>1. graStatus = "IN_PROGRESS" /\ Grades!Begin(r, "submit", graPaper.asked \cap AutoGraded)
    BY <1>2 DEF Grades!Submit
  <2>2. graPaper.asked \cap AutoGraded \in SUBSET graPaper.asked
    OBVIOUS
  <2> QED BY <2>1, <2>2, GradesBeginHolds
<1>3. ASSUME NEW r \in Requests, Grades!Grade(r) PROVE GradesInv'
  <2>1. graStatus # "IN_PROGRESS" /\ Grades!Begin(r, "grade", graPaper.asked \cap Open)
    BY <1>3 DEF Grades!Grade
  <2>2. graPaper.asked \cap Open \in SUBSET graPaper.asked
    OBVIOUS
  <2> QED BY <2>1, <2>2, GradesBeginHolds
<1>4. ASSUME NEW r \in Requests, Grades!Break(r) PROVE GradesInv'
  <2>1. /\ graRequest' = [graRequest EXCEPT ![r] = None] /\ graCalm' = FALSE
        /\ UNCHANGED <<graPaper, graStatus, graAnswer, graScore, graCalls>>
    BY <1>4 DEF Grades!Break, Grades!End
  <2>2. Grades!TypeOK'
    BY <2>1 DEF GradesInv, Grades!TypeOK
  <2> QED BY <2>1, <2>2 DEF GradesInv, OneCall, GradesUnderway, GradesSettled
<1>5. ASSUME NEW r \in Requests, NEW q \in Grades!Questions, NEW value \in Answers,
             Grades!SaveAnswer(r, q, value)
      PROVE  GradesInv'
  BY <1>5, SaveHolds
<1>6. ASSUME NEW r \in Requests, Grades!ReadAnswers(r) \/ Grades!FinishSubmit(r)
             \/ Grades!FinishGrade(r) PROVE GradesInv'
  BY <1>6, GradesReadHolds, HandInHolds, GradedHolds
<1>7. ASSUME NEW r \in Requests, NEW q \in Grades!Questions, Grades!MarkAnswer(r, q)
             PROVE GradesInv'
  BY <1>7, MarkHolds
<1>8. ASSUME NEW r \in Requests, NEW q \in Open, NEW mark \in 0 .. Points,
             Grades!GradeAnswer(r, q, mark)
      PROVE  GradesInv'
  BY <1>8, GradeHolds
<1>9. CASE UNCHANGED Grades!gradingVars
  <2>1. UNCHANGED <<graPaper, graStatus, graAnswer, graScore, graRequest, graCalls, graCalm>>
    BY <1>9 DEF Grades!gradingVars
  <2>2. Grades!TypeOK' /\ OneCall'
    BY <2>1 DEF GradesInv, Grades!TypeOK, OneCall, GradesLive
  <2>3. \A q : UNCHANGED Deserved(q)
    BY <2>1 DEF Deserved, Grades!Deserved, Grades!Awarded, Grades!Correct
  <2>4. UNCHANGED <<Unmarked(graPaper.asked), Unmarked(graPaper.asked \cap Open), Grades!Total>>
    BY <2>1 DEF Unmarked, Grades!Total
  <2>5. GradesUnderway'
    <3>1. \A c : GradesOnItsWay(c) => GradesOnItsWay(c)'
      BY <2>1, <2>3, <2>4 DEF GradesOnItsWay, Handing, Reviewing
    <3> QED BY <2>1, <3>1 DEF GradesInv, GradesUnderway, GradesLive
  <2>6. GradesSettled'
    BY <2>1, <2>3, <2>4 DEF GradesInv, GradesSettled, Grades!Idle, AllMarked
  <2> QED BY <2>2, <2>5, <2>6 DEF GradesInv
<1> QED BY <1>1, <1>2, <1>3, <1>4, <1>5, <1>6, <1>7, <1>8, <1>9 DEF Grades!Next

\* What is settled is what the property says.
LEMMA ScoreFits ==
    ASSUME GradesInv
    PROVE  Grades!ScoreFitsAnswers
<1> SUFFICES ASSUME graCalm, Grades!Idle, graStatus # "IN_PROGRESS"
             PROVE  /\ Grades!Total > 0 => graScore.points
                       = Grades!SumOfMarks(graAnswer, graPaper.asked)
                    /\ graScore.xp <= MaxXp
                    /\ \A q \in graPaper.asked \cap AutoGraded :
                          Grades!Deserved(graAnswer[q])
  BY DEF Grades!ScoreFitsAnswers
<1>1. AllMarked
  BY DEF GradesInv, GradesSettled
<1> QED BY <1>1 DEF AllMarked, Deserved

\* In every reachable state the marks are those a call has given so far, or all
\* of them and their sum the score, unless calls have met.
THEOREM GradesInvariance == ASSUME Grades!GoodConstants PROVE Grades!Spec => []GradesInv
<1>1. Grades!Init => GradesInv
  BY GradesInit
<1>2. GradesInv /\ [Grades!Next]_(Grades!gradingVars) => GradesInv'
  BY GradesStep
<1> QED BY <1>1, <1>2, PTL DEF Grades!Spec

-----------------------------------------------------------------------------
(***************************************************************************)
(* Mastery.  A grading that nothing overlaps owes what its step says: the  *)
(* struggle of its assignment, the rank it has not told, the row of the    *)
(* topic (OnItsWay).  When it ends nothing is owed (Settled).              *)
(***************************************************************************)
TopicLive(r) == masRequest[r] # None

OneGrading == masCalm => \A r, s \in Requests : TopicLive(r) /\ TopicLive(s) => r = s

Struggling == {a \in masLinked : masPoints[a] # None /\ Topic!Struggles(masPoints[a])}
MasteryFits == (\E a \in masLinked : masPoints[a] # None) => masMastery = Topic!Mastered
Rise(total, before) == IF Topic!RankOf(total) > Topic!RankOf(before) THEN 1 ELSE 0

\* What a grading that nothing overlaps has yet to do, by its step.
TopicOnItsWay(q) ==
    /\ masPoints[q.of] # None
    /\ q.step \in {"xp", "credit", "rank", "event"} =>
          /\ masGraph.struggles \ {q.of} = Struggling \ {q.of}
          /\ q.of \notin masLinked => q.of \notin masGraph.struggles /\ MasteryFits
    /\ q.step \in {"topic", "upsert"} => q.of \in masLinked /\ masGraph.struggles = Struggling
    /\ q.step = "upsert" => q.topic = Topic!Mastered
    /\ q.step = "credit" => q.before = Topic!Total
    /\ IF q.step = "rank" THEN masReached = masTold + Rise(Topic!Total, q.before)
       ELSE masTold = masReached

TopicUnderway == masCalm => \A r \in Requests : TopicLive(r) => TopicOnItsWay(masRequest[r])

TopicSettled ==
    masCalm /\ Topic!Idle =>
        /\ MasteryFits
        /\ masGraph.struggles = Struggling
        /\ masTold = masReached

TopicInv ==
    /\ Topic!TypeOK
    /\ Topic!GraphFollowsTable
    /\ OneGrading
    /\ TopicUnderway
    /\ TopicSettled

-----------------------------------------------------------------------------
LEMMA TopicLibrary ==
    /\ \A S : Topic!IsFiniteSet(S) <=> IsFiniteSet(S)
    /\ \A S : Topic!Cardinality(S) = Cardinality(S)
    /\ \A w, S : Topic!SumFunctionOnSet(w, S) = SumFunctionOnSet(w, S)
BY DEF Topic!IsFiniteSet, IsFiniteSet, Topic!Cardinality, Cardinality, Topic!SumFunctionOnSet,
       SumFunctionOnSet, Topic!FoldFunctionOnSet, FoldFunctionOnSet, Topic!MapThenFoldSet,
       MapThenFoldSet

LEMMA TopicNones ==
    ASSUME Topic!GoodConstants
    PROVE  /\ None \notin 0 .. Full /\ None \notin Topic!Topic /\ None \notin Topic!Calls
           /\ Full \in Nat /\ Full > 0 /\ MaxGradings \in Nat /\ IsFiniteSet(Assignments)
BY TopicLibrary DEF Topic!GoodConstants

\* The total is a number, and so is the share of the points.
LEMMA TotalIsNat ==
    ASSUME Topic!GoodConstants, Topic!TypeOK
    PROVE  Topic!Total \in Nat
<1>1. \A a \in Assignments : masBest[a] \in Nat
  BY TopicNones DEF Topic!TypeOK
<1> QED BY <1>1, TopicNones, SumRecursion, TopicLibrary DEF Topic!Total

LEMMA ShareIsPercentage ==
    ASSUME NEW sum \in Nat, NEW n \in Nat, n > 0, sum <= n
    PROVE  (200 * sum + n) \div (2 * n) \in Topic!Percentages
<1> DEFINE x == 200 * sum + n
           d == 2 * n
<1>1. x \in Nat /\ d \in Nat /\ d > 0 /\ x < 101 * d
  OBVIOUS
<1> HIDE DEF x, d
<1>2. x \div d \in Int /\ 0 <= x \div d /\ x \div d < 101
  <2>1. x \div d \in Int
    BY <1>1
  <2>2. x = d * (x \div d) + (x % d) /\ 0 <= x % d /\ x % d < d
    BY <1>1
  <2> DEFINE y == x \div d
             z == x % d
  <2>3. y \in Int /\ z \in Int /\ x = d * y + z /\ 0 <= z /\ z < d
    BY <1>1, <2>1, <2>2
  <2> HIDE DEF y, z
  <2>4. y >= 0
    <3> SUFFICES ASSUME y <= -1 PROVE FALSE
      BY <2>3
    <3>1. d * y <= d * (-1)
      BY <1>1, <2>3
    <3> QED BY <1>1, <2>3, <3>1
  <2>5. y < 101
    <3> SUFFICES ASSUME y >= 101 PROVE FALSE
      BY <2>3
    <3>1. d * y >= d * 101
      BY <1>1, <2>3
    <3> QED BY <1>1, <2>3, <3>1
  <2> QED BY <2>1, <2>4, <2>5 DEF y
<1> QED BY <1>2 DEF Topic!Percentages, x, d

LEMMA MasteredType ==
    ASSUME Topic!GoodConstants, Topic!TypeOK
    PROVE  Topic!Mastered \in Topic!Topic
<1> DEFINE done == {a \in masLinked : masPoints[a] # None}
           sum  == SumFunctionOnSet(masPoints, done)
           n    == Full * Cardinality(done)
           pct  == IF done = {} THEN 0 ELSE (200 * sum + n) \div (2 * n)
           str  == \E a \in done : Topic!Struggles(masPoints[a])
<1>1. done \subseteq Assignments /\ IsFiniteSet(done)
      /\ \A a \in done : masPoints[a] \in 0 .. Full
  <2>1. done \subseteq Assignments
    BY DEF Topic!TypeOK
  <2>2. IsFiniteSet(done)
    BY <2>1, TopicNones, FS_Subset
  <2> QED BY <2>1, <2>2 DEF Topic!TypeOK
<1>2. Cardinality(done) \in Nat /\ (done # {} => Cardinality(done) > 0)
  <2> HIDE DEF done
  <2> QED BY <1>1, FS_CardinalityType, FS_EmptySet
<1>3. sum \in 0 .. n
  <2> HIDE DEF done
  <2> QED BY <1>1, TopicNones, SumBound
<1>4. n \in Nat /\ (done # {} => n > 0)
  <2> DEFINE c == Cardinality(done)
  <2>1. c \in Nat /\ (done # {} => c > 0) /\ Full \in Nat /\ Full > 0
    BY <1>2, TopicNones
  <2> HIDE DEF c, done
  <2>2. Full * c \in Nat /\ (c > 0 => Full * c > 0)
    BY <2>1
  <2> QED BY <2>1, <2>2 DEF c
<1>5. pct \in Topic!Percentages
  <2>1. CASE done = {}
    BY <2>1 DEF Topic!Percentages
  <2>2. CASE done # {}
    <3>1. sum \in Nat /\ n \in Nat /\ n > 0 /\ sum <= n
      <4> HIDE DEF sum, n
      <4> QED BY <1>3, <1>4, <2>2
    <3> HIDE DEF sum, n, done
    <3> QED BY <2>2, <3>1, ShareIsPercentage
  <2> QED BY <2>1, <2>2
<1>6. Topic!Mastered = [pct |-> pct, struggling |-> str]
  BY TopicLibrary DEF Topic!Mastered
<1>7. str \in BOOLEAN
  OBVIOUS
<1> HIDE DEF pct, str
<1> QED BY <1>5, <1>6, <1>7 DEF Topic!Topic

\* The mastery of the topic does not look at an assignment of no topic.
LEMMA MasteredOfLinked ==
    ASSUME Topic!GoodConstants, Topic!TypeOK, NEW a \in Assignments, a \notin masLinked,
           NEW p \in 0 .. Full,
           masPoints' = [masPoints EXCEPT ![a] = p], masLinked' = masLinked
    PROVE  /\ Topic!Mastered' = Topic!Mastered /\ Struggling' = Struggling
           /\ (\E b \in masLinked : masPoints[b] # None)' <=> (\E b \in masLinked :
                                                               masPoints[b] # None)
<1> DEFINE done == {b \in masLinked : masPoints[b] # None}
<1>1. \A b \in masLinked : masPoints'[b] = masPoints[b] /\ masLinked \subseteq Assignments
  BY DEF Topic!TypeOK
<1>2. done' = done /\ Struggling' = Struggling
  BY <1>1 DEF Struggling
<1>3. IsFiniteSet(done) /\ \A b \in done : masPoints[b] \in Nat /\ masPoints'[b] = masPoints[b]
  <2>1. done \subseteq Assignments
    BY DEF Topic!TypeOK
  <2>2. IsFiniteSet(done)
    BY <2>1, TopicNones, FS_Subset
  <2> QED BY <1>1, <2>2, TopicNones DEF Topic!TypeOK
<1>4. SumFunctionOnSet(masPoints', done) = SumFunctionOnSet(masPoints, done)
  <2>1. ASSUME NEW v, NEW w, \A b \in done : v[b] \in Nat /\ w[b] = v[b]
        PROVE  SumFunctionOnSet(w, done) = SumFunctionOnSet(v, done)
    <3> HIDE DEF done
    <3> QED BY <1>3, <2>1, SumSame
  <2> HIDE DEF done
  <2> QED BY <1>3, <2>1
<1>5. (\E b \in done : Topic!Struggles(masPoints[b]))' <=> (\E b \in done :
                                                            Topic!Struggles(masPoints[b]))
  BY <1>1, <1>2
<1>6. Topic!SumFunctionOnSet(masPoints', done) = Topic!SumFunctionOnSet(masPoints, done)
  BY <1>4, TopicLibrary
<1> QED BY <1>1, <1>2, <1>5, <1>6, ZenonT(40) DEF Topic!Mastered

-----------------------------------------------------------------------------
LEMMA TopicInit ==
    ASSUME Topic!GoodConstants, Topic!Init
    PROVE  TopicInv
<1>1. Topic!TypeOK
  <2>1. /\ masPoints \in [Assignments -> 0 .. Full \cup {None}]
        /\ masBest \in [Assignments -> 0 .. Full]
        /\ masGraph \in [topic : Topic!Topic \cup {None}, struggles : SUBSET Assignments]
        /\ masRequest \in [Requests -> Topic!Calls \cup {None}]
    BY TopicNones DEF Topic!Init
  <2> QED BY <2>1, TopicNones DEF Topic!Init, Topic!TypeOK
<1>2. Topic!GraphFollowsTable /\ (\A r \in Requests : ~TopicLive(r))
      /\ (\A a \in Assignments : masPoints[a] = None)
      /\ masGraph.struggles = {} /\ masTold = masReached
  BY DEF Topic!Init, Topic!GraphFollowsTable, TopicLive
<1>3. Struggling = {} /\ MasteryFits
  BY <1>1, <1>2 DEF Struggling, MasteryFits, Topic!TypeOK
<1> QED BY <1>1, <1>2, <1>3 DEF TopicInv, OneGrading, TopicUnderway, TopicSettled

LEMMA StoreHolds ==
    ASSUME Topic!GoodConstants, TopicInv, NEW r \in Requests, NEW a \in Assignments,
           NEW p \in 0 .. Full,
           Topic!StoreScore(r, a, p)
    PROVE  TopicInv'
<1> DEFINE q == [step |-> "xp", of |-> a, before |-> 0, best |-> 0, topic |-> Topic!Nothing]
<1>1. /\ masRequest[r] = None /\ masGradings < MaxGradings /\ masGradings' = masGradings + 1
      /\ masPoints' = [masPoints EXCEPT ![a] = p]
      /\ masCalm' = (masCalm /\ \A s \in Requests : masRequest[s] = None)
      /\ masRequest' = [masRequest EXCEPT ![r] = q]
      /\ UNCHANGED <<masBest, masMastery, masGraph, masLinked, masReached, masTold>>
  BY DEF Topic!StoreScore
<1>2. q \in Topic!Calls /\ q.step = "xp" /\ q.of = a
  BY TopicNones DEF Topic!Calls, Topic!Steps, Topic!Topic, Topic!Nothing, Topic!Percentages
<1> HIDE DEF q
<1>3. Topic!TypeOK'
  <2>1. masPoints' \in [Assignments -> 0 .. Full \cup {None}]
        /\ masRequest' \in [Requests -> Topic!Calls \cup {None}]
    BY <1>1, <1>2 DEF TopicInv, Topic!TypeOK
  <2>2. masGradings' \in 0 .. MaxGradings /\ masCalm' \in BOOLEAN
    BY <1>1, TopicNones DEF TopicInv, Topic!TypeOK
  <2> QED BY <1>1, <2>1, <2>2 DEF TopicInv, Topic!TypeOK
<1>4. masRequest'[r] = q /\ q # None
      /\ (masCalm' => \A s \in Requests \ {r} : masRequest'[s] = None)
  BY <1>1, <1>2, TopicNones DEF TopicInv, Topic!TypeOK
<1>5. OneGrading' /\ TopicSettled' /\ Topic!GraphFollowsTable'
  BY <1>1, <1>4
     DEF TopicInv, OneGrading, TopicSettled, Topic!Idle, TopicLive, Topic!GraphFollowsTable
<1>6. TopicUnderway'
  <2> SUFFICES ASSUME masCalm' PROVE TopicOnItsWay(q)'
    BY <1>4 DEF TopicUnderway, TopicLive
  <2>1. MasteryFits /\ masGraph.struggles = Struggling /\ masTold = masReached
    BY <1>1 DEF TopicInv, TopicSettled, Topic!Idle
  <2>2. masPoints'[a] = p /\ p # None
        /\ \A b \in Assignments \ {a} : masPoints'[b] = masPoints[b]
    BY <1>1, TopicNones DEF TopicInv, Topic!TypeOK
  <2>3. masGraph.struggles \ {a} = Struggling' \ {a}
    BY <1>1, <2>1, <2>2 DEF Struggling, TopicInv, Topic!TypeOK
  <2>4. a \notin masLinked => a \notin masGraph.struggles /\ MasteryFits'
    <3> SUFFICES ASSUME a \notin masLinked PROVE a \notin masGraph.struggles /\ MasteryFits'
      OBVIOUS
    <3>1. a \notin masGraph.struggles
      BY <2>1 DEF Struggling
    <3>2. /\ Topic!Mastered' = Topic!Mastered
          /\ (\E b \in masLinked : masPoints[b] # None)' <=> (\E b \in masLinked :
                                                              masPoints[b] # None)
      BY <1>1, MasteredOfLinked DEF TopicInv
    <3> QED BY <1>1, <2>1, <3>1, <3>2 DEF MasteryFits
  <2>5. masReached' = masTold'
    BY <1>1, <2>1
  <2> QED BY <1>1, <1>2, <2>2, <2>3, <2>4, <2>5 DEF TopicOnItsWay
<1> QED BY <1>3, <1>5, <1>6 DEF TopicInv

\* What a grading is, in a state that overlaps nothing.
LEMMA TopicAlone ==
    ASSUME TopicInv, NEW r \in Requests, TopicLive(r), masCalm
    PROVE  TopicOnItsWay(masRequest[r]) /\ \A s \in Requests \ {r} : ~TopicLive(s)
BY DEF TopicInv, OneGrading, TopicUnderway

\* A grading that goes on: the others, if it is calm, are none.
LEMMA TopicGoesOn ==
    ASSUME Topic!GoodConstants, TopicInv, NEW r \in Requests, TopicLive(r),
           NEW q \in Topic!Calls,
           masRequest' = [masRequest EXCEPT ![r] = q], masCalm' = masCalm,
           masCalm => TopicOnItsWay(q)'
    PROVE  OneGrading' /\ TopicUnderway' /\ TopicSettled'
<1>1. masRequest'[r] = q /\ q # None /\ \A s \in Requests \ {r} : masRequest'[s] = masRequest[s]
  BY TopicNones DEF TopicInv, Topic!TypeOK
<1>2. masCalm => \A s \in Requests \ {r} : ~TopicLive(s)'
  BY <1>1, TopicAlone DEF TopicLive
<1>3. OneGrading' /\ TopicSettled'
  BY <1>1, <1>2 DEF OneGrading, TopicSettled, Topic!Idle, TopicLive
<1>4. TopicUnderway'
  BY <1>1, <1>2 DEF TopicUnderway, TopicLive
<1> QED BY <1>3, <1>4

\* ... and one that ends, calmly, leaves everything settled.
LEMMA TopicEnds ==
    ASSUME Topic!GoodConstants, TopicInv, NEW r \in Requests, TopicLive(r),
           masRequest' = [masRequest EXCEPT ![r] = None], masCalm' => masCalm,
           masCalm' => (MasteryFits /\ masGraph.struggles = Struggling /\ masTold = masReached)'
    PROVE  OneGrading' /\ TopicUnderway' /\ TopicSettled'
<1>1. masRequest'[r] = None /\ \A s \in Requests \ {r} : masRequest'[s] = masRequest[s]
  BY DEF TopicInv, Topic!TypeOK
<1>2. masCalm' => \A s \in Requests : ~TopicLive(s)'
  BY <1>1, TopicAlone DEF TopicLive
<1> QED BY <1>2 DEF OneGrading, TopicUnderway, TopicSettled

\* What a step of a grading may rest on: the scores and the ranks.
LEMMA SameScores ==
    ASSUME UNCHANGED <<masPoints, masLinked>>
    PROVE  Struggling' = Struggling /\ Topic!Mastered' = Topic!Mastered
           /\ (masMastery' = masMastery => (MasteryFits' <=> MasteryFits))
<1>1. Struggling' = Struggling
  BY DEF Struggling
<1>2. Topic!Mastered' = Topic!Mastered
  BY TopicLibrary DEF Topic!Mastered
<1> QED BY <1>1, <1>2 DEF MasteryFits

LEMMA XpHolds ==
    ASSUME Topic!GoodConstants, TopicInv, NEW r \in Requests, Topic!ReadXp(r)
           \/ Topic!CreditXp(r) \/ Topic!TellRank(r)
    PROVE  TopicInv'
<1>1. TopicLive(r) /\ masRequest[r] \in Topic!Calls /\ masCalm' = masCalm
      /\ UNCHANGED <<masPoints, masMastery, masGraph, masLinked, masGradings>>
  BY DEF Topic!ReadXp, Topic!CreditXp, Topic!TellRank, Topic!At, TopicLive, TopicInv,
     Topic!TypeOK
<1>2. masCalm => TopicOnItsWay(masRequest[r])
  BY <1>1, TopicAlone
<1>3. Topic!GraphFollowsTable'
  BY <1>1 DEF TopicInv, Topic!GraphFollowsTable
<1>4. CASE Topic!ReadXp(r)
  <2>1. masRequest[r].step = "xp" /\ UNCHANGED <<masBest, masReached, masTold>>
    BY <1>4 DEF Topic!ReadXp, Topic!At
  <2>2. Topic!Best(masRequest[r].of) \in 0 .. Full
    BY <1>1, TopicNones DEF Topic!Best, TopicInv, Topic!TypeOK, Topic!Calls
  <2>3. PICK q \in Topic!Calls : /\ masRequest' = [masRequest EXCEPT ![r] = q]
                                /\ q.step = "credit" /\ q.before = Topic!Total
                                   /\ q.of = masRequest[r].of
    <3> DEFINE c == [masRequest[r] EXCEPT !.step = "credit", !.before = Topic!Total,
                                          !.best = Topic!Best(masRequest[r].of)]
    <3>1. c \in Topic!Calls /\ c.step = "credit" /\ c.before = Topic!Total
          /\ c.of = masRequest[r].of
      BY <1>1, <2>2, TotalIsNat DEF Topic!Calls, Topic!Steps, TopicInv
    <3>2. masRequest' = [masRequest EXCEPT ![r] = c]
      BY <1>4 DEF Topic!ReadXp
    <3> HIDE DEF c
    <3> QED BY <3>1, <3>2
  <2>4. Topic!TypeOK'
    BY <1>1, <2>1, <2>3 DEF TopicInv, Topic!TypeOK
  <2>5. Topic!Total' = Topic!Total
    BY <2>1 DEF Topic!Total
  <2>6. masCalm => TopicOnItsWay(q)'
    BY <1>1, <1>2, <2>1, <2>3, <2>5, SameScores DEF TopicOnItsWay
  <2> QED BY <1>1, <1>3, <2>1, <2>3, <2>4, <2>6, TopicGoesOn DEF TopicInv
<1>5. CASE Topic!CreditXp(r)
  <2>1. /\ masRequest[r].step = "credit" /\ masTold' = masTold
        /\ masBest' = [masBest EXCEPT ![masRequest[r].of] = masRequest[r].best]
        /\ masReached' = masReached + Rise(Topic!Total', Topic!Total)
    BY <1>5 DEF Topic!CreditXp, Topic!At, Rise
  <2>2. PICK q \in Topic!Calls : /\ masRequest' = [masRequest EXCEPT ![r] = q]
                                /\ q.step = "rank" /\ q.before = masRequest[r].before
                                /\ q.of = masRequest[r].of
    <3> DEFINE c == [masRequest[r] EXCEPT !.step = "rank"]
    <3>1. c \in Topic!Calls /\ c.step = "rank" /\ c.before = masRequest[r].before
          /\ c.of = masRequest[r].of
      BY <1>1 DEF Topic!Calls, Topic!Steps
    <3>2. masRequest' = [masRequest EXCEPT ![r] = c]
      BY <1>5 DEF Topic!CreditXp
    <3> HIDE DEF c
    <3> QED BY <3>1, <3>2
  <2>3. Topic!TypeOK'
    <3>1. masBest' \in [Assignments -> 0 .. Full]
      BY <1>1, <2>1 DEF TopicInv, Topic!TypeOK, Topic!Calls
    <3>2. masReached' \in Nat
      BY <2>1 DEF TopicInv, Topic!TypeOK, Rise
    <3> QED BY <1>1, <2>1, <2>2, <3>1, <3>2 DEF TopicInv, Topic!TypeOK
  <2>4. masCalm => masReached' = masTold' + Rise(Topic!Total', q.before)
    BY <1>2, <2>1, <2>2 DEF TopicOnItsWay
  <2>5. masCalm => TopicOnItsWay(q)'
    <3>1. Rise(Topic!Total, q.before)' = Rise(Topic!Total', q.before)
      BY DEF Rise, Topic!RankOf
    <3> QED BY <1>1, <1>2, <2>1, <2>2, <2>4, <3>1, SameScores DEF TopicOnItsWay
  <2> QED BY <1>1, <1>3, <2>1, <2>2, <2>3, <2>5, TopicGoesOn DEF TopicInv
<1>6. CASE Topic!TellRank(r)
  <2>1. /\ masRequest[r].step = "rank"
        /\ masTold' = masTold + Rise(Topic!Total, masRequest[r].before)
           /\ UNCHANGED <<masBest, masReached>>
    BY <1>6 DEF Topic!TellRank, Topic!At, Rise
  <2>2. PICK q \in Topic!Calls : /\ masRequest' = [masRequest EXCEPT ![r] = q]
                                /\ q.step = "event" /\ q.of = masRequest[r].of
    <3> DEFINE c == [masRequest[r] EXCEPT !.step = "event"]
    <3>1. c \in Topic!Calls /\ c.step = "event" /\ c.of = masRequest[r].of
      BY <1>1 DEF Topic!Calls, Topic!Steps
    <3>2. masRequest' = [masRequest EXCEPT ![r] = c]
      BY <1>6 DEF Topic!TellRank
    <3> HIDE DEF c
    <3> QED BY <3>1, <3>2
  <2>3. Topic!TypeOK'
    <3>1. masTold' \in Nat
      BY <2>1 DEF TopicInv, Topic!TypeOK, Rise
    <3> QED BY <1>1, <2>1, <2>2, <3>1 DEF TopicInv, Topic!TypeOK
  <2>4. masCalm => masTold' = masReached'
    BY <1>2, <2>1 DEF TopicOnItsWay
  <2>5. masCalm => TopicOnItsWay(q)'
    BY <1>1, <1>2, <2>1, <2>2, <2>4, SameScores DEF TopicOnItsWay
  <2> QED BY <1>1, <1>3, <2>1, <2>2, <2>3, <2>5, TopicGoesOn DEF TopicInv
<1> QED BY <1>4, <1>5, <1>6

LEMMA EventHolds ==
    ASSUME Topic!GoodConstants, TopicInv, NEW r \in Requests, Topic!GradedEvent(r)
    PROVE  TopicInv'
<1>0. PICK a : a = masRequest[r].of
  OBVIOUS
<1>1. /\ TopicLive(r) /\ masRequest[r] \in Topic!Calls /\ masRequest[r].step = "event"
      /\ UNCHANGED <<masPoints, masBest, masMastery, masLinked, masGradings, masReached,
                     masTold, masCalm>>
  BY DEF Topic!GradedEvent, Topic!At, TopicLive, TopicInv, Topic!TypeOK
<1>2. masCalm => TopicOnItsWay(masRequest[r])
  BY <1>1, TopicAlone
<1>3. a \in Assignments
  BY <1>0, <1>1 DEF Topic!Calls
<1>4. CASE a \in masLinked
  <2>1. masGraph' = [masGraph EXCEPT !.struggles = Topic!Marked(a)]
    BY <1>0, <1>4 DEF Topic!GradedEvent
  <2>2. PICK q \in Topic!Calls : /\ masRequest' = [masRequest EXCEPT ![r] = q]
                                /\ q.step = "topic" /\ q.of = a
    <3> DEFINE c == [masRequest[r] EXCEPT !.step = "topic"]
    <3>1. c \in Topic!Calls /\ c.step = "topic" /\ c.of = a
      BY <1>0, <1>1 DEF Topic!Calls, Topic!Steps
    <3>2. masRequest' = [masRequest EXCEPT ![r] = c]
      BY <1>0, <1>4 DEF Topic!GradedEvent
    <3> HIDE DEF c
    <3> QED BY <3>1, <3>2
  <2>3. Topic!Marked(a) \subseteq Assignments
    BY <1>3 DEF Topic!Marked, TopicInv, Topic!TypeOK
  <2>4. masGraph'.struggles = Topic!Marked(a) /\ masGraph'.topic = masGraph.topic
        /\ masGraph' \in [topic : Topic!Topic \cup {None}, struggles : SUBSET Assignments]
    BY <2>1, <2>3 DEF TopicInv, Topic!TypeOK
  <2>5. Topic!TypeOK'
    BY <1>1, <2>1, <2>2, <2>4 DEF TopicInv, Topic!TypeOK
  <2>6. Topic!GraphFollowsTable'
    BY <1>1, <2>4 DEF TopicInv, Topic!GraphFollowsTable
  <2>7. masCalm => Topic!Marked(a) = Struggling
    <3> SUFFICES ASSUME masCalm PROVE Topic!Marked(a) = Struggling
      OBVIOUS
    <3>1. masPoints[a] # None /\ masGraph.struggles \ {a} = Struggling \ {a}
      BY <1>0, <1>1, <1>2 DEF TopicOnItsWay
    <3>2. a \in Struggling <=> Topic!Struggles(Topic!Best(a))
      BY <1>4, <3>1 DEF Struggling, Topic!Best
    <3> QED BY <3>1, <3>2 DEF Topic!Marked
  <2>8. masCalm => TopicOnItsWay(q)'
    BY <1>0, <1>1, <1>2, <1>4, <2>2, <2>4, <2>7, SameScores DEF TopicOnItsWay
  <2> QED BY <1>1, <2>1, <2>2, <2>5, <2>6, <2>8, TopicGoesOn DEF TopicInv
<1>5. CASE a \notin masLinked
  <2>1. masRequest' = [masRequest EXCEPT ![r] = None] /\ masGraph' = masGraph
    BY <1>0, <1>5 DEF Topic!GradedEvent
  <2>2. Topic!TypeOK' /\ Topic!GraphFollowsTable'
    BY <1>1, <2>1 DEF TopicInv, Topic!TypeOK, Topic!GraphFollowsTable
  <2>3. masCalm => MasteryFits /\ masGraph.struggles = Struggling /\ masTold = masReached
    <3> SUFFICES ASSUME masCalm PROVE MasteryFits /\ masGraph.struggles = Struggling
                        /\ masTold = masReached
      OBVIOUS
    <3>1. a \notin Struggling
      BY <1>5 DEF Struggling
    <3> QED BY <1>0, <1>1, <1>2, <1>5, <3>1 DEF TopicOnItsWay
  <2>4. masCalm' => (MasteryFits /\ masGraph.struggles = Struggling /\ masTold = masReached)'
    BY <1>1, <2>1, <2>3, SameScores
  <2> QED BY <1>1, <2>1, <2>2, <2>4, TopicEnds DEF TopicInv
<1> QED BY <1>4, <1>5

LEMMA TopicHolds ==
    ASSUME Topic!GoodConstants, TopicInv, NEW r \in Requests, Topic!ReadTopic(r)
           \/ Topic!UpsertMastery(r)
    PROVE  TopicInv'
<1>1. /\ TopicLive(r) /\ masRequest[r] \in Topic!Calls
      /\ UNCHANGED <<masPoints, masBest, masLinked, masGradings, masReached, masTold, masCalm>>
  BY DEF Topic!ReadTopic, Topic!UpsertMastery, Topic!At, TopicLive, TopicInv, Topic!TypeOK
<1>2. masCalm => TopicOnItsWay(masRequest[r])
  BY <1>1, TopicAlone
<1>3. CASE Topic!ReadTopic(r)
  <2>1. masRequest[r].step = "topic" /\ UNCHANGED <<masMastery, masGraph>>
    BY <1>3 DEF Topic!ReadTopic, Topic!At
  <2>2. PICK q \in Topic!Calls : /\ masRequest' = [masRequest EXCEPT ![r] = q]
                                /\ q.step = "upsert" /\ q.of = masRequest[r].of
                                   /\ q.topic = Topic!Mastered
    <3> DEFINE c == [masRequest[r] EXCEPT !.step = "upsert", !.topic = Topic!Mastered]
    <3>1. c \in Topic!Calls /\ c.step = "upsert" /\ c.of = masRequest[r].of
          /\ c.topic = Topic!Mastered
      BY <1>1, MasteredType DEF Topic!Calls, Topic!Steps, TopicInv
    <3>2. masRequest' = [masRequest EXCEPT ![r] = c]
      BY <1>3 DEF Topic!ReadTopic
    <3> HIDE DEF c
    <3> QED BY <3>1, <3>2
  <2>3. Topic!TypeOK' /\ Topic!GraphFollowsTable'
    BY <1>1, <2>1, <2>2 DEF TopicInv, Topic!TypeOK, Topic!GraphFollowsTable
  <2>4. masCalm => TopicOnItsWay(q)'
    BY <1>1, <1>2, <2>1, <2>2, SameScores DEF TopicOnItsWay
  <2> QED BY <1>1, <2>1, <2>2, <2>3, <2>4, TopicGoesOn DEF TopicInv
<1>4. CASE Topic!UpsertMastery(r)
  <2> DEFINE t == masRequest[r].topic
  <2>1. /\ masRequest' = [masRequest EXCEPT ![r] = None] /\ masRequest[r].step = "upsert"
        /\ masMastery' = t /\ masGraph' = [masGraph EXCEPT !.topic = t] /\ t \in Topic!Topic
    BY <1>1, <1>4 DEF Topic!UpsertMastery, Topic!At, Topic!Calls
  <2> HIDE DEF t
  <2>2. masGraph'.topic = t /\ masGraph'.struggles = masGraph.struggles
        /\ masGraph' \in [topic : Topic!Topic \cup {None}, struggles : SUBSET Assignments]
    BY <2>1 DEF TopicInv, Topic!TypeOK
  <2>3. Topic!TypeOK' /\ Topic!GraphFollowsTable'
    BY <1>1, <2>1, <2>2 DEF TopicInv, Topic!TypeOK, Topic!GraphFollowsTable
  <2>4. masCalm => t = Topic!Mastered /\ masGraph.struggles = Struggling /\ masTold = masReached
    BY <1>1, <1>2, <2>1 DEF TopicOnItsWay, t
  <2>5. masCalm' => (MasteryFits /\ masGraph.struggles = Struggling /\ masTold = masReached)'
    BY <1>1, <2>1, <2>2, <2>4, SameScores DEF MasteryFits
  <2> QED BY <1>1, <2>1, <2>3, <2>5, TopicEnds DEF TopicInv
<1> QED BY <1>3, <1>4

LEMMA TopicStep ==
    ASSUME Topic!GoodConstants, TopicInv, [Topic!Next]_(Topic!masteryVars)
    PROVE  TopicInv'
<1>1. ASSUME NEW r \in Requests, NEW a \in Assignments, NEW p \in 0 .. Full,
             Topic!StoreScore(r, a, p)
      PROVE  TopicInv'
  BY <1>1, StoreHolds
<1>2. ASSUME NEW r \in Requests, Topic!ReadXp(r) \/ Topic!CreditXp(r) \/ Topic!TellRank(r)
             PROVE TopicInv'
  BY <1>2, XpHolds
<1>3. ASSUME NEW r \in Requests, Topic!GradedEvent(r) PROVE TopicInv'
  BY <1>3, EventHolds
<1>4. ASSUME NEW r \in Requests, Topic!ReadTopic(r) \/ Topic!UpsertMastery(r) PROVE TopicInv'
  BY <1>4, TopicHolds
<1>5. ASSUME NEW r \in Requests, Topic!Stop(r) PROVE TopicInv'
  <2>1. /\ TopicLive(r) /\ masRequest' = [masRequest EXCEPT ![r] = None] /\ masCalm' = FALSE
        /\ UNCHANGED <<masPoints, masBest, masMastery, masGraph, masLinked, masGradings,
                       masReached, masTold>>
    BY <1>5 DEF Topic!Stop, TopicLive
  <2>2. Topic!TypeOK' /\ Topic!GraphFollowsTable'
    BY <2>1 DEF TopicInv, Topic!TypeOK, Topic!GraphFollowsTable
  <2> QED BY <2>1, <2>2 DEF TopicInv, OneGrading, TopicUnderway, TopicSettled
<1>6. CASE UNCHANGED Topic!masteryVars
  <2>1. UNCHANGED <<masPoints, masBest, masMastery, masGraph, masRequest, masLinked,
                    masGradings, masReached, masTold, masCalm>>
    BY <1>6 DEF Topic!masteryVars
  <2>2. Topic!TypeOK' /\ Topic!GraphFollowsTable' /\ OneGrading'
    BY <2>1 DEF TopicInv, Topic!TypeOK, Topic!GraphFollowsTable, OneGrading, TopicLive
  <2>3. Topic!Total' = Topic!Total /\ Struggling' = Struggling
        /\ Topic!Mastered' = Topic!Mastered /\ (MasteryFits' <=> MasteryFits)
    BY <2>1, SameScores DEF Topic!Total
  <2>4. TopicUnderway'
    <3>1. \A q : TopicOnItsWay(q) => TopicOnItsWay(q)'
      BY <2>1, <2>3 DEF TopicOnItsWay
    <3> QED BY <2>1, <3>1 DEF TopicInv, TopicUnderway, TopicLive
  <2>5. TopicSettled'
    BY <2>1, <2>3 DEF TopicInv, TopicSettled, Topic!Idle
  <2> QED BY <2>2, <2>4, <2>5 DEF TopicInv
<1> QED BY <1>1, <1>2, <1>3, <1>4, <1>5, <1>6 DEF Topic!Next

\* What is settled is what the properties say.
LEMMA MasteryFollows ==
    ASSUME TopicInv
    PROVE  Topic!MasteryFollowsGrades /\ Topic!GraphFollowsTable /\ Topic!RankToldOnce
<1>1. masCalm /\ Topic!Idle => MasteryFits /\ masGraph.struggles = Struggling
      /\ masTold = masReached
  BY DEF TopicInv, TopicSettled
<1> QED BY <1>1 DEF TopicInv, Topic!MasteryFollowsGrades, Topic!GraphFollowsTable,
                    Topic!RankToldOnce, MasteryFits, Struggling

\* In every reachable state a grading still owes what its step says, and nothing
\* is owed between gradings, unless they have met or one has stopped.
THEOREM TopicInvariance == ASSUME Topic!GoodConstants PROVE Topic!Spec => []TopicInv
<1>1. Topic!Init => TopicInv
  BY TopicInit
<1>2. TopicInv /\ [Topic!Next]_(Topic!masteryVars) => TopicInv'
  BY TopicStep
<1> QED BY <1>1, <1>2, PTL DEF Topic!Spec

-----------------------------------------------------------------------------
(***************************************************************************)
(* CourseMedia.  A call deletes the objects it read some time ago and      *)
(* writes a key of its own.  No dead link is left behind because a new key *)
(* is nobody else's: no course has it, no other call writes it and none    *)
(* deletes it (NewIsOwn), and because what a call deletes is not in the    *)
(* other slot (OldIsHere).                                                 *)
(***************************************************************************)
MediaLive(r) == medRequest[r] # None

CallSound ==
    \A r \in Requests : MediaLive(r) =>
        /\ medRequest[r].new \in Media!ObjectKeys =>
              /\ medRequest[r].new <= medUploads
              /\ medRequest[r].step # "upload" => medRequest[r].new \in medObjects
        /\ medRequest[r].step = "upload" => medRequest[r].new \in Media!ObjectKeys
        /\ \A k \in medRequest[r].old : k <= medUploads

NewIsOwn ==
    \A r \in Requests : MediaLive(r) /\ medRequest[r].new \in Media!ObjectKeys =>
        /\ medCourse # None => \A s \in Media!Slots : medCourse[s] # medRequest[r].new
        /\ \A q \in Requests : MediaLive(q) =>
              /\ medRequest[r].new \notin medRequest[q].old
              /\ q # r => medRequest[q].new # medRequest[r].new

SlotsApart ==
    medCourse # None =>
        \A s \in Media!Slots : medCourse[s] \in Media!ObjectKeys =>
            /\ medCourse[s] <= medUploads
            /\ \A t \in Media!Slots \ {s} : medCourse[t] # medCourse[s]

OldIsHere ==
    \A r \in Requests :
        MediaLive(r) /\ medRequest[r].slot \in Media!Slots /\ medCourse # None =>
            \A t \in Media!Slots \ {medRequest[r].slot} : medCourse[t] \notin medRequest[r].old

MediaInv ==
    /\ Media!TypeOK
    /\ CallSound
    /\ NewIsOwn
    /\ SlotsApart
    /\ OldIsHere
    /\ Media!LinksAreStored

-----------------------------------------------------------------------------
LEMMA MediaInit ==
    ASSUME Media!GoodConstants, Media!Init
    PROVE  MediaInv
<1>1. Media!TypeOK
  <2>1. 0 \in 0 .. MaxUploads /\ None \in Media!Places
    BY DEF Media!GoodConstants, Media!Places
  <2>2. medCourse \in [Media!Slots -> Media!Places] /\ medShown \in [Media!Slots -> BOOLEAN]
        /\ medRequest \in [Requests -> Media!Calls \cup {None}]
    BY <2>1 DEF Media!Init
  <2> QED BY <2>1, <2>2 DEF Media!Init, Media!TypeOK
<1>2. (\A r \in Requests : ~MediaLive(r))
      /\ (\A s \in Media!Slots : medCourse[s] \notin Media!ObjectKeys)
  BY DEF Media!GoodConstants, Media!Init, MediaLive
<1> QED BY <1>1, <1>2 DEF MediaInv, CallSound, NewIsOwn, SlotsApart, OldIsHere,
                          Media!LinksAreStored, Media!Stored

\* A call that begins: what it read is old, what it will write is new.
LEMMA MediaBeginHolds ==
    ASSUME Media!GoodConstants, MediaInv, NEW r \in Requests, medRequest[r] = None,
           medCourse # None,
           NEW slot \in Media!Slots \cup {"course"}, NEW step \in {"upload", "delete"},
           NEW new \in Media!Places, NEW old \in SUBSET Media!ObjectKeys,
           medRequest' = [medRequest EXCEPT ![r] =
                            [step |-> step, slot |-> slot, old |-> old, new |-> new]],
           old \subseteq {medCourse[s] : s \in Media!Slots},
           step = "upload" => new \in Media!ObjectKeys,
           slot \in Media!Slots => old = Media!Stored(medCourse[slot]),
           new \in Media!ObjectKeys => step = "upload" /\ new = medUploads + 1,
           medUploads' \in 0 .. MaxUploads, medUploads' >= medUploads,
           new \in Media!ObjectKeys => medUploads' = new,
           UNCHANGED <<medCourse, medObjects, medShown, medStopped>>
    PROVE  MediaInv'
<1>1. Media!TypeOK'
  BY DEF MediaInv, Media!TypeOK, Media!Calls
<1>2. /\ medUploads \in Nat /\ medUploads' \in Nat /\ MaxUploads \in Nat
      /\ medCourse \in [Media!Slots -> Media!Places] /\ Media!ObjectKeys \subseteq Nat
  BY DEF Media!GoodConstants, MediaInv, Media!TypeOK, Media!ObjectKeys
<1>3. \A k \in old : k \in Media!ObjectKeys /\ k <= medUploads
      /\ \E s \in Media!Slots : k = medCourse[s]
  BY DEF MediaInv, SlotsApart
<1>4. \A q \in Requests \ {r} : medRequest'[q] = medRequest[q]
  BY DEF MediaInv, Media!TypeOK
<1>5. medRequest'[r] = [step |-> step, slot |-> slot, old |-> old, new |-> new]
  BY DEF MediaInv, Media!TypeOK
<1>11. \A k \in Media!ObjectKeys : k <= medUploads => k <= medUploads'
  <2> SUFFICES ASSUME NEW k \in Media!ObjectKeys, k <= medUploads PROVE k <= medUploads'
    OBVIOUS
  <2>1. k \in Nat
    BY <1>2
  <2> QED BY <1>2, <2>1
<1>6. CallSound'
  <2> SUFFICES ASSUME NEW q \in Requests, MediaLive(q)'
               PROVE  /\ medRequest'[q].new \in Media!ObjectKeys =>
                            /\ medRequest'[q].new <= medUploads'
                            /\ medRequest'[q].step # "upload"
                               => medRequest'[q].new \in medObjects
                      /\ medRequest'[q].step = "upload"
                         => medRequest'[q].new \in Media!ObjectKeys
                      /\ \A k \in medRequest'[q].old : k <= medUploads'
    BY DEF CallSound
  <2>1. CASE q = r
    <3>1. \A k \in Media!ObjectKeys : k <= medUploads => k <= medUploads'
      BY <1>11
    <3>2. new \in Media!ObjectKeys => new <= medUploads'
      BY <1>2
    <3> QED BY <1>3, <1>5, <2>1, <3>1, <3>2
  <2>2. CASE q # r
    <3>1. MediaLive(q) /\ medRequest'[q] = medRequest[q]
          /\ medRequest[q].old \subseteq Media!ObjectKeys
      BY <1>4, <2>2 DEF MediaInv, Media!TypeOK, Media!Calls, MediaLive
    <3>2. \A k \in Media!ObjectKeys : k <= medUploads => k <= medUploads'
      BY <1>11
    <3> QED BY <3>1, <3>2 DEF MediaInv, CallSound
  <2> QED BY <2>1, <2>2
<1>7. NewIsOwn'
  <2>1. ASSUME NEW a \in Requests, MediaLive(a)', medRequest'[a].new \in Media!ObjectKeys
        PROVE  medCourse # None => \A s \in Media!Slots : medCourse[s] # medRequest'[a].new
    <3>1. CASE a # r
      BY <1>4, <2>1, <3>1 DEF MediaInv, NewIsOwn, MediaLive
    <3>2. CASE a = r
      BY <1>2, <1>5, <2>1, <3>2 DEF MediaInv, SlotsApart
    <3> QED BY <3>1, <3>2
  <2>2. ASSUME NEW a \in Requests, MediaLive(a)', medRequest'[a].new \in Media!ObjectKeys,
               NEW b \in Requests, MediaLive(b)'
        PROVE  medRequest'[a].new \notin medRequest'[b].old
    <3>1. CASE a # r /\ b # r
      BY <1>4, <2>2, <3>1 DEF MediaInv, NewIsOwn, MediaLive
    <3>2. CASE a # r /\ b = r
      BY <1>3, <1>4, <1>5, <2>2, <3>2 DEF MediaInv, NewIsOwn, MediaLive
    <3>3. CASE a = r /\ b # r
      BY <1>2, <1>4, <1>5, <2>2, <3>3 DEF MediaInv, CallSound, MediaLive
    <3>4. CASE a = r /\ b = r
      BY <1>2, <1>3, <1>5, <2>2, <3>4
    <3> QED BY <3>1, <3>2, <3>3, <3>4
  <2>3. ASSUME NEW a \in Requests, MediaLive(a)', medRequest'[a].new \in Media!ObjectKeys,
               NEW b \in Requests, MediaLive(b)', b # a
        PROVE  medRequest'[b].new # medRequest'[a].new
    <3>1. CASE a # r /\ b # r
      BY <1>4, <2>3, <3>1 DEF MediaInv, NewIsOwn, MediaLive
    <3>2. CASE a # r /\ b = r
      BY <1>2, <1>4, <1>5, <2>3, <3>2 DEF MediaInv, CallSound, MediaLive
    <3>3. CASE a = r /\ b # r
      BY <1>2, <1>4, <1>5, <2>3, <3>3 DEF MediaInv, CallSound, MediaLive
    <3> QED BY <2>3, <3>1, <3>2, <3>3
  <2> QED BY <2>1, <2>2, <2>3 DEF NewIsOwn
<1>8. SlotsApart'
  <2>1. \A k \in Media!ObjectKeys : k <= medUploads => k <= medUploads'
    BY <1>2
  <2> QED BY <2>1 DEF MediaInv, SlotsApart
<1>9. OldIsHere'
  <2> SUFFICES ASSUME NEW a \in Requests, MediaLive(a)', medRequest'[a].slot \in Media!Slots,
                      NEW t \in Media!Slots \ {medRequest'[a].slot}
               PROVE  medCourse[t] \notin medRequest'[a].old
    BY DEF OldIsHere
  <2>1. CASE a # r
    BY <1>4, <2>1 DEF MediaInv, OldIsHere, MediaLive
  <2>2. CASE a = r
    BY <1>5, <2>2 DEF MediaInv, SlotsApart, Media!Stored
  <2> QED BY <2>1, <2>2
<1>10. Media!LinksAreStored'
  <2> SUFFICES ASSUME ~medStopped, NEW s \in Media!Slots, NEW k \in Media!Stored(medCourse[s]),
                      k \notin medObjects
               PROVE  \E a \in Requests : /\ medRequest'[a] # None
                                          /\ medRequest'[a].step = "write"
                                             /\ k \in medRequest'[a].old
    BY DEF Media!LinksAreStored, Media!Stored
  <2>1. PICK a \in Requests : medRequest[a] # None /\ medRequest[a].step = "write"
        /\ k \in medRequest[a].old
    BY DEF MediaInv, Media!LinksAreStored
  <2> QED BY <1>4, <2>1
<1> QED BY <1>1, <1>6, <1>7, <1>8, <1>9, <1>10 DEF MediaInv

-----------------------------------------------------------------------------
LEMMA UploadObjectHolds ==
    ASSUME Media!GoodConstants, MediaInv, NEW r \in Requests, Media!UploadObject(r)
    PROVE  MediaInv'
<1>1. /\ medRequest'[r] = [medRequest[r] EXCEPT !.step = "delete"]
      /\ \A q \in Requests \ {r} : medRequest'[q] = medRequest[q]
      /\ medRequest[r] \in Media!Calls /\ medRequest'[r] \in Media!Calls
  BY DEF MediaInv, Media!TypeOK, Media!Calls, Media!UploadObject
<1>2. \A q \in Requests : MediaLive(q)' => MediaLive(q)
      /\ medRequest'[q].new = medRequest[q].new
                            /\ medRequest'[q].old = medRequest[q].old
                               /\ medRequest'[q].slot = medRequest[q].slot
  BY <1>1 DEF MediaLive, Media!UploadObject
<1>3. Media!TypeOK'
  <2>1. medRequest[r].new \in Media!ObjectKeys
    BY DEF MediaInv, CallSound, MediaLive, Media!UploadObject
  <2> QED BY <1>1, <2>1 DEF MediaInv, Media!TypeOK, Media!UploadObject
<1>4. CallSound'
  BY <1>1, <1>2 DEF MediaInv, CallSound, Media!UploadObject, MediaLive
<1>5. NewIsOwn' /\ SlotsApart' /\ OldIsHere'
  BY <1>2 DEF MediaInv, NewIsOwn, SlotsApart, OldIsHere, Media!UploadObject
<1>6. Media!LinksAreStored'
  <2> SUFFICES ASSUME medCourse # None, ~medStopped, NEW s \in Media!Slots,
                      NEW k \in Media!Stored(medCourse[s]),
                      k \notin medObjects
               PROVE  \E a \in Requests : /\ medRequest'[a] # None
                                          /\ medRequest'[a].step = "write"
                                             /\ k \in medRequest'[a].old
    BY DEF Media!LinksAreStored, Media!Stored, Media!UploadObject
  <2>1. PICK a \in Requests : medRequest[a] # None /\ medRequest[a].step = "write"
        /\ k \in medRequest[a].old
    BY DEF MediaInv, Media!LinksAreStored
  <2> QED BY <1>1, <2>1 DEF Media!UploadObject
<1> QED BY <1>3, <1>4, <1>5, <1>6 DEF MediaInv

LEMMA DeleteObjectHolds ==
    ASSUME Media!GoodConstants, MediaInv, NEW r \in Requests, Media!DeleteObject(r)
    PROVE  MediaInv'
<1>1. /\ medRequest'[r] = [medRequest[r] EXCEPT !.step = "write"]
      /\ \A q \in Requests \ {r} : medRequest'[q] = medRequest[q]
      /\ medRequest[r] \in Media!Calls /\ medRequest'[r] \in Media!Calls
  BY DEF MediaInv, Media!TypeOK, Media!Calls, Media!DeleteObject
<1>2. \A q \in Requests : MediaLive(q)' => /\ MediaLive(q)
                                           /\ medRequest'[q].new = medRequest[q].new
                                           /\ medRequest'[q].old = medRequest[q].old
                                           /\ medRequest'[q].slot = medRequest[q].slot
                                           /\ medRequest[q].step = "upload" <=> medRequest'[q].step = "upload"
  BY <1>1 DEF MediaLive, Media!DeleteObject
<1>3. Media!TypeOK'
  BY <1>1 DEF MediaInv, Media!TypeOK, Media!DeleteObject
<1>4. medObjects' \subseteq medObjects /\ medObjects \ medObjects' \subseteq medRequest[r].old
  BY DEF Media!DeleteObject
<1>5. CallSound'
  <2> SUFFICES ASSUME NEW q \in Requests, MediaLive(q)'
               PROVE  /\ medRequest'[q].new \in Media!ObjectKeys =>
                            /\ medRequest'[q].new <= medUploads'
                            /\ medRequest'[q].step # "upload"
                               => medRequest'[q].new \in medObjects'
                      /\ medRequest'[q].step = "upload"
                         => medRequest'[q].new \in Media!ObjectKeys
                      /\ \A k \in medRequest'[q].old : k <= medUploads'
    BY DEF CallSound
  <2>1. medRequest[q].new \in Media!ObjectKeys => medRequest[q].new \notin medRequest[r].old
    BY <1>2 DEF MediaInv, NewIsOwn, Media!DeleteObject, MediaLive
  <2> QED BY <1>2, <1>4, <2>1 DEF MediaInv, CallSound, Media!DeleteObject
<1>6. NewIsOwn' /\ SlotsApart' /\ OldIsHere'
  BY <1>2 DEF MediaInv, NewIsOwn, SlotsApart, OldIsHere, Media!DeleteObject
<1>7. Media!LinksAreStored'
  <2> SUFFICES ASSUME medCourse # None, ~medStopped, NEW s \in Media!Slots,
                      NEW k \in Media!Stored(medCourse[s]),
                      k \notin medObjects'
               PROVE  \E a \in Requests : /\ medRequest'[a] # None
                                          /\ medRequest'[a].step = "write"
                                             /\ k \in medRequest'[a].old
    BY DEF Media!LinksAreStored, Media!Stored, Media!DeleteObject
  <2>1. CASE k \in medRequest[r].old
    <3>1. medRequest'[r].step = "write" /\ k \in medRequest'[r].old
      BY <1>1, <2>1
    <3>2. medRequest'[r] # None
      BY <1>1 DEF Media!GoodConstants
    <3> QED BY <3>1, <3>2
  <2>2. CASE k \notin medRequest[r].old
    <3>1. k \notin medObjects
      BY <1>4, <2>2
    <3>2. PICK a \in Requests : /\ medRequest[a] # None
                                /\ medRequest[a].step = "write" /\ k \in medRequest[a].old
      BY <3>1 DEF MediaInv, Media!LinksAreStored
    <3>3. a # r
      BY <3>2, <2>2
    <3> QED BY <1>1, <3>2, <3>3
  <2> QED BY <2>1, <2>2
<1> QED BY <1>3, <1>5, <1>6, <1>7 DEF MediaInv

\* A call that ends and leaves the course and the objects as they are.
LEMMA StopHolds ==
    ASSUME Media!GoodConstants, MediaInv, NEW r \in Requests, Media!Stop(r)
    PROVE  MediaInv'
<1>1. \A q \in Requests : MediaLive(q)' => MediaLive(q) /\ q # r
      /\ medRequest'[q] = medRequest[q]
  BY DEF MediaInv, Media!TypeOK, Media!Stop, MediaLive
<1>2. Media!TypeOK'
  BY DEF MediaInv, Media!TypeOK, Media!Stop
<1>3. CallSound' /\ NewIsOwn' /\ SlotsApart' /\ OldIsHere'
  BY <1>1 DEF MediaInv, CallSound, NewIsOwn, SlotsApart, OldIsHere, Media!Stop
<1>4. Media!LinksAreStored'
  <2> SUFFICES ASSUME medCourse # None, ~medStopped', NEW s \in Media!Slots,
                      NEW k \in Media!Stored(medCourse[s]),
                      k \notin medObjects
               PROVE  \E a \in Requests : /\ medRequest'[a] # None
                                          /\ medRequest'[a].step = "write"
                                             /\ k \in medRequest'[a].old
    BY DEF Media!LinksAreStored, Media!Stored, Media!Stop
  <2>1. PICK a \in Requests : medRequest[a] # None /\ medRequest[a].step = "write"
        /\ k \in medRequest[a].old
    BY DEF MediaInv, Media!LinksAreStored, Media!Stop
  <2>2. a # r
    BY <2>1 DEF Media!Stop
  <2> QED BY <2>1, <2>2 DEF MediaInv, Media!TypeOK, Media!Stop
<1> QED BY <1>2, <1>3, <1>4 DEF MediaInv

LEMMA MediaWriteHolds ==
    ASSUME Media!GoodConstants, MediaInv, NEW r \in Requests, Media!Write(r)
    PROVE  MediaInv'
<1> DEFINE slot == medRequest[r].slot
           new == medRequest[r].new
<1>1. \A q \in Requests : MediaLive(q)' => MediaLive(q) /\ q # r
      /\ medRequest'[q] = medRequest[q]
  BY DEF MediaInv, Media!TypeOK, Media!Write, MediaLive
<1>2. slot \in Media!Slots /\ new \in Media!Places /\ MediaLive(r)
      /\ medRequest[r].step = "write"
  BY DEF MediaInv, Media!TypeOK, Media!Calls, Media!Write, MediaLive
<1>3. /\ medCourse = None => medCourse' = None
      /\ medCourse # None => /\ medCourse' = [medCourse EXCEPT ![slot] = new]
                             /\ medCourse \in [Media!Slots -> Media!Places]
  BY DEF MediaInv, Media!TypeOK, Media!Write
<1>4. Media!TypeOK'
  BY <1>2, <1>3 DEF MediaInv, Media!TypeOK, Media!Write
<1>5. CallSound'
  BY <1>1 DEF MediaInv, CallSound, Media!Write
<1>6. NewIsOwn'
  BY <1>1, <1>2, <1>3 DEF MediaInv, NewIsOwn, Media!Write
<1>7. SlotsApart'
  BY <1>2, <1>3 DEF MediaInv, SlotsApart, NewIsOwn, CallSound, Media!Write
<1>8. OldIsHere'
  <2> SUFFICES ASSUME NEW q \in Requests, MediaLive(q)', medRequest'[q].slot \in Media!Slots,
                      medCourse' # None,
                      NEW t \in Media!Slots \ {medRequest'[q].slot}
               PROVE  medCourse'[t] \notin medRequest'[q].old
    BY DEF OldIsHere
  <2>1. medCourse # None /\ medRequest'[q] = medRequest[q] /\ MediaLive(q)
        /\ medRequest[q].old \subseteq Media!ObjectKeys
    BY <1>1, <1>3 DEF MediaInv, Media!TypeOK, Media!Calls, MediaLive
  <2>2. CASE t # slot
    BY <1>2, <1>3, <2>1, <2>2 DEF MediaInv, OldIsHere
  <2>3. CASE t = slot
    BY <1>2, <1>3, <2>1, <2>3 DEF MediaInv, NewIsOwn
  <2> QED BY <2>2, <2>3
<1>9. Media!LinksAreStored'
  <2> SUFFICES ASSUME medCourse' # None, ~medStopped, NEW s \in Media!Slots,
                      NEW k \in Media!Stored(medCourse'[s]),
                      k \notin medObjects
               PROVE  \E a \in Requests : /\ medRequest'[a] # None
                                          /\ medRequest'[a].step = "write"
                                             /\ k \in medRequest'[a].old
    BY DEF Media!LinksAreStored, Media!Stored, Media!Write
  <2>1. medCourse # None /\ k = medCourse'[s] /\ k \in Media!ObjectKeys
    BY <1>3 DEF Media!Stored
  <2>2. s # slot /\ k = medCourse[s]
    BY <1>2, <1>3, <2>1 DEF MediaInv, CallSound
  <2>3. PICK a \in Requests : medRequest[a] # None /\ medRequest[a].step = "write"
        /\ k \in medRequest[a].old
    BY <2>1, <2>2 DEF MediaInv, Media!LinksAreStored, Media!Stored
  <2>4. a # r
    BY <1>2, <2>1, <2>2, <2>3 DEF MediaInv, OldIsHere
  <2> QED BY <2>3, <2>4 DEF MediaInv, Media!TypeOK, Media!Write
<1> QED BY <1>4, <1>5, <1>6, <1>7, <1>8, <1>9 DEF MediaInv

LEMMA DeleteCourseHolds ==
    ASSUME Media!GoodConstants, MediaInv, NEW r \in Requests, Media!DeleteCourse(r)
    PROVE  MediaInv'
<1>1. \A q \in Requests : MediaLive(q)' => MediaLive(q) /\ medRequest'[q] = medRequest[q]
  BY DEF MediaInv, Media!TypeOK, Media!DeleteCourse, MediaLive
<1>2. Media!TypeOK' /\ medCourse' = None
  BY DEF MediaInv, Media!TypeOK, Media!DeleteCourse
<1>3. CallSound' /\ NewIsOwn'
  BY <1>1, <1>2 DEF MediaInv, CallSound, NewIsOwn, Media!DeleteCourse
<1> QED BY <1>2, <1>3 DEF MediaInv, SlotsApart, OldIsHere, Media!LinksAreStored

-----------------------------------------------------------------------------
LEMMA MediaStep ==
    ASSUME Media!GoodConstants, MediaInv, [Media!Next]_(Media!mediaVars)
    PROVE  MediaInv'
<1>1. MaxUploads \in Nat /\ medUploads \in 0 .. MaxUploads /\ None \notin Media!ObjectKeys
      /\ Media!External \notin Media!ObjectKeys
  BY DEF Media!GoodConstants, MediaInv, Media!TypeOK, Media!ObjectKeys, Media!External
<1>2. \A s \in Media!Slots : /\ Media!Stored(medCourse[s]) \in SUBSET Media!ObjectKeys
                              /\ Media!Stored(medCourse[s])
                                 \subseteq {medCourse[t] : t \in Media!Slots}
                              /\ s \in Media!Slots \cup {"course"}
  BY DEF Media!Stored
<1>3. ASSUME NEW r \in Requests, NEW s \in Media!Slots, Media!Upload(r, s)
      PROVE  MediaInv'
  <2>1. medUploads' = medUploads + 1 /\ medUploads' \in Media!Places
        /\ medUploads' \in 0 .. MaxUploads
    BY <1>1, <1>3 DEF Media!Upload, Media!Places, Media!ObjectKeys
  <2>2. medUploads' \in Media!ObjectKeys /\ medUploads' >= medUploads
    BY <1>1, <1>3, <2>1 DEF Media!Upload, Media!ObjectKeys
  <2>3. Media!Read(r, s, "upload", medUploads')
    BY <1>3 DEF Media!Upload
  <2>4. /\ medRequest[r] = None /\ medCourse # None
        /\ medRequest' = [medRequest EXCEPT ![r] = [step |-> "upload", slot |-> s,
                            old |-> Media!Stored(medCourse[s]), new |-> medUploads']]
        /\ UNCHANGED <<medCourse, medObjects, medShown, medStopped>>
    BY <2>3 DEF Media!Read
  <2> QED BY <1>2, <2>1, <2>2, <2>4, MediaBeginHolds
<1>4. ASSUME NEW r \in Requests, NEW s \in Media!Slots, Media!Remove(r, s)
      PROVE  MediaInv'
  <2>1. Media!Read(r, s, "delete", None) /\ medUploads' = medUploads /\ None \in Media!Places
    BY <1>4 DEF Media!Remove, Media!Places
  <2>2. /\ medRequest[r] = None /\ medCourse # None
        /\ medRequest' = [medRequest EXCEPT ![r] = [step |-> "delete", slot |-> s,
                            old |-> Media!Stored(medCourse[s]), new |-> None]]
        /\ UNCHANGED <<medCourse, medObjects, medShown, medStopped>>
    BY <2>1 DEF Media!Read
  <2>3. medUploads' \in 0 .. MaxUploads /\ medUploads' >= medUploads
    BY <1>1, <2>1
  <2> QED BY <1>1, <1>2, <2>1, <2>2, <2>3, MediaBeginHolds
<1>5. ASSUME NEW r \in Requests, Media!SetPromoExternal(r)
      PROVE  MediaInv'
  <2>1. Media!Read(r, "promo", "delete", Media!External) /\ medUploads' = medUploads
        /\ Media!External \in Media!Places /\ "promo" \in Media!Slots
    BY <1>5 DEF Media!SetPromoExternal, Media!Places, Media!Slots
  <2>2. /\ medRequest[r] = None /\ medCourse # None
        /\ medRequest' = [medRequest EXCEPT ![r] = [step |-> "delete", slot |-> "promo",
                            old |-> Media!Stored(medCourse["promo"]), new |-> Media!External]]
        /\ UNCHANGED <<medCourse, medObjects, medShown, medStopped>>
    BY <2>1 DEF Media!Read
  <2>3. medUploads' \in 0 .. MaxUploads /\ medUploads' >= medUploads
    BY <1>1, <2>1
  <2> QED BY <1>1, <1>2, <2>1, <2>2, <2>3, MediaBeginHolds
<1>6. ASSUME NEW r \in Requests, Media!RemoveCourse(r)
      PROVE  MediaInv'
  <2> DEFINE old == UNION {Media!Stored(medCourse[s]) : s \in Media!Slots}
  <2>1. old \in SUBSET Media!ObjectKeys /\ None \in Media!Places /\ "course" \notin Media!Slots
        /\ "course" \in Media!Slots \cup {"course"}
    BY DEF Media!Stored, Media!Places, Media!Slots
  <2>2. medRequest[r] = None /\ medCourse # None
    BY <1>6 DEF Media!RemoveCourse
  <2>3. medRequest' = [medRequest EXCEPT ![r] =
                         [step |-> "delete", slot |-> "course", old |-> old, new |-> None]]
    BY <1>6 DEF Media!RemoveCourse
  <2>4. UNCHANGED <<medCourse, medObjects, medUploads, medShown, medStopped>>
    BY <1>6 DEF Media!RemoveCourse
  <2>5. old \subseteq {medCourse[s] : s \in Media!Slots}
    BY DEF Media!Stored
  <2>6. medUploads' \in 0 .. MaxUploads /\ medUploads' >= medUploads
    BY <1>1, <2>4
  <2> HIDE DEF old
  <2> QED BY <1>1, <2>1, <2>2, <2>3, <2>4, <2>5, <2>6, MediaBeginHolds
<1>7. ASSUME NEW r \in Requests,
             Media!UploadObject(r) \/ Media!DeleteObject(r) \/ Media!Write(r)
             \/ Media!DeleteCourse(r) \/ Media!Stop(r)
      PROVE  MediaInv'
  BY <1>7, UploadObjectHolds, DeleteObjectHolds, MediaWriteHolds, DeleteCourseHolds, StopHolds
<1>8. CASE Media!Present
  BY <1>8 DEF Media!Present, MediaInv, Media!TypeOK, CallSound, NewIsOwn, SlotsApart, OldIsHere,
              Media!LinksAreStored, MediaLive
<1>9. CASE UNCHANGED Media!mediaVars
  BY <1>9
     DEF Media!mediaVars, MediaInv, Media!TypeOK, CallSound, NewIsOwn, SlotsApart, OldIsHere,
              Media!LinksAreStored, MediaLive
<1> QED BY <1>3, <1>4, <1>5, <1>6, <1>7, <1>8, <1>9 DEF Media!Next

-----------------------------------------------------------------------------
\* In every reachable state the links are stored, the key a call will write is
\* its own, and the objects it will delete belong to no other slot.
THEOREM MediaInvariance == ASSUME Media!GoodConstants PROVE Media!Spec => []MediaInv
<1>1. Media!Init => MediaInv
  BY MediaInit
<1>2. MediaInv /\ [Media!Next]_(Media!mediaVars) => MediaInv'
  BY MediaStep
<1> QED BY <1>1, <1>2, PTL DEF Media!Spec

\* However many uploads and removals overlap, the card of a course points at
\* no object that is gone, but for a call that has still to write or a server

-----------------------------------------------------------------------------
(***************************************************************************)
(* Support.  A thread that was closed calmly has only requests that will   *)
(* not post (NoMorePosts); a notice waits under a link its reader can open, *)
(* unless it went to a curator (NoticesSound); and what is awaited is behind *)
(* an unread notice (AwaitedIsCounted).                                    *)
(***************************************************************************)
StudentLinks == {"/lk/support/tech", "/lk/courses/id?tab=curator"}
AdminLinks   == {"/admin/support", "/admin/support?channel=COURSE"}
TechLinks    == {"/lk/support/tech", "/admin/support", "/support/inbox"}

OpenTo(link, u) ==
    \/ link \in StudentLinks /\ u = Student
    \/ link \in AdminLinks /\ u \in Admins
    \/ link = "/support/inbox" /\ u \in Agents
    \/ link = "/curator/support" /\ u \in deskCurators \cup Admins

Fits == \A t \in Threads : Len(deskMessages[t]) <= MaxMessages

About == \A r \in Requests : deskRequest[r] # None => deskThread[deskRequest[r].thread] # None

Quits(q) == q.step \in {"rate", "cancel"} /\ (q.step = "cancel" => ~q.open)

NoMorePosts ==
    \A t \in Threads :
        deskQuiet[t] /\ deskThread[t] # None /\ deskThread[t].status = "CLOSED" =>
            \A r \in Requests :
                deskRequest[r] # None /\ deskRequest[r].thread = t => Quits(deskRequest[r])

NoticesSound == \A n \in deskUnread : n.link = "/curator/support" \/ OpenTo(n.link, n.to)

AwaitedIsCounted ==
    \A u \in Desk!People : \A t \in deskAwaited[u] :
        /\ deskThread[t] # None
        /\ \E n \in deskUnread : /\ n.to = u /\ OpenTo(n.link, u) /\ n.thread = t
                                 /\ n.link \in TechLinks <=> deskThread[t].channel = "TECH"

DeskInv ==
    /\ Desk!TypeOK /\ Fits /\ About
    /\ NoMorePosts /\ Desk!ClosedIsClosed
    /\ NoticesSound /\ AwaitedIsCounted

-----------------------------------------------------------------------------
LEMMA DeskLibrary == \A S : Desk!Max(S) = Max(S)
BY DEF Desk!Max, Max

LEMMA DeskNones ==
    ASSUME Desk!GoodConstants
    PROVE  None \notin Desk!People /\ None \notin Desk!Row /\ None \notin Desk!Request
           /\ None \notin [by : Desk!People, badge : Desk!Badges]
              /\ None \notin 0 .. MaxMessages
           /\ MaxMessages \in Nat /\ MaxMessages >= 1 /\ MaxMoves \in Nat
BY DEF Desk!GoodConstants

LEMMA DeskInit ==
    ASSUME Desk!GoodConstants, Desk!Init
    PROVE  DeskInv
<1>1. Desk!TypeOK
  <2>1. /\ deskThread \in [Threads -> Desk!Row \cup {None}]
        /\ deskMessages \in [Threads -> Seq(Desk!People)]
        /\ deskRating \in [Threads -> Desk!People \cup {None}]
        /\ deskRequest \in [Requests -> Desk!Request \cup {None}]
        /\ deskQuiet \in [Threads -> BOOLEAN]
        /\ deskLastWord \in [Threads -> 0 .. MaxMessages \cup {None}]
        /\ deskAwaited \in [Desk!People -> SUBSET Threads]
    BY DEF Desk!Init
  <2> QED BY <2>1, DeskNones DEF Desk!Init, Desk!TypeOK
<1>2. Fits
  BY DeskNones DEF Desk!Init, Fits
<1>3. (\A r \in Requests : deskRequest[r] = None) /\ (\A t \in Threads : deskThread[t] = None)
      /\ deskUnread = {} /\ (\A u \in Desk!People : deskAwaited[u] = {})
  BY DEF Desk!Init
<1> QED BY <1>1, <1>2, <1>3
           DEF DeskInv, About, NoMorePosts, Desk!ClosedIsClosed, NoticesSound, AwaitedIsCounted

\* What the threads and their requests rest on stays when both do.
LEMMA SameThreads ==
    ASSUME DeskInv, UNCHANGED <<deskThread, deskMessages, deskRequest, deskQuiet, deskLastWord>>
    PROVE  Fits' /\ About' /\ NoMorePosts' /\ Desk!ClosedIsClosed'
BY DEF DeskInv, Fits, About, NoMorePosts, Desk!ClosedIsClosed

\* ... and what the badges rest on.
LEMMA SameBadges ==
    ASSUME DeskInv, UNCHANGED <<deskCurators, deskUnread, deskAwaited>>,
           \A t \in Threads : deskThread[t] # None =>
               deskThread'[t] # None /\ deskThread'[t].channel = deskThread[t].channel
    PROVE  NoticesSound' /\ AwaitedIsCounted'
<1>1. NoticesSound'
  BY DEF DeskInv, NoticesSound, OpenTo
<1>2. AwaitedIsCounted'
  <2> SUFFICES ASSUME NEW u \in Desk!People, NEW t \in deskAwaited[u]
               PROVE  (/\ deskThread[t] # None
                       /\ \E n \in deskUnread : /\ n.to = u /\ OpenTo(n.link, u) /\ n.thread = t
                                                /\ n.link \in TechLinks <=> deskThread[t].channel = "TECH")'
    BY DEF AwaitedIsCounted
  <2>1. t \in Threads
    BY DEF DeskInv, Desk!TypeOK
  <2> QED BY <2>1 DEF DeskInv, AwaitedIsCounted, OpenTo
<1> QED BY <1>1, <1>2

\* A request that goes to another step, or ends, leaves its thread's rest.
LEMMA CreateHolds ==
    ASSUME Desk!GoodConstants, DeskInv, NEW r \in Requests, NEW t \in Threads,
           NEW channel \in Desk!Channels, NEW cancel \in BOOLEAN,
           Desk!Create(r, t, channel, cancel)
    PROVE  DeskInv'
<1> DEFINE row == [status |-> "OPEN", channel |-> channel, cancel |-> cancel, closedBy |-> None]
           q == [actor |-> Student, thread |-> t, open |-> TRUE, agent |-> None,
                 step |-> IF channel = "TECH" THEN "admins" ELSE "others"]
<1>1. /\ deskThread' = [deskThread EXCEPT ![t] = row]
         /\ deskRequest' = [deskRequest EXCEPT ![r] = q]
      /\ deskMessages' = [deskMessages EXCEPT ![t] = <<Student>>]
      /\ deskThread[t] = None /\ deskRequest[r] = None
      /\ UNCHANGED <<deskRating, deskEnrolled, deskCurators, deskUnread, deskVisit, deskMoves,
                     deskQuiet, deskLastWord, deskAwaited>>
  BY DEF Desk!Create, Desk!hist
<1>2. row \in Desk!Row /\ row.status = "OPEN" /\ row.channel = channel
  BY DEF Desk!Row
<1>3. q \in Desk!Request /\ q.thread = t
  BY DEF Desk!Request, Desk!People
<1> HIDE DEF row, q
<1>4. <<Student>> \in Seq(Desk!People) /\ Len(<<Student>>) = 1
  BY DEF Desk!People
<1>5. Desk!TypeOK'
  BY <1>1, <1>2, <1>3, <1>4 DEF DeskInv, Desk!TypeOK
<1>6. Fits'
  BY <1>1, <1>4, DeskNones DEF DeskInv, Desk!TypeOK, Fits
<1>7. row # None /\ q # None /\ deskThread'[t] = row /\ deskRequest'[r] = q
  BY <1>1, <1>2, <1>3, DeskNones DEF DeskInv, Desk!TypeOK
<1>8. /\ \A s \in Threads \ {t} : deskThread'[s] = deskThread[s]
         /\ deskMessages'[s] = deskMessages[s]
      /\ \A s \in Requests \ {r} : deskRequest'[s] = deskRequest[s]
  BY <1>1 DEF DeskInv, Desk!TypeOK
<1>9. About'
  BY <1>3, <1>7, <1>8 DEF DeskInv, About, Desk!TypeOK, Desk!Request
<1>10. NoMorePosts' /\ Desk!ClosedIsClosed'
  <2> SUFFICES ASSUME NEW s \in Threads, deskQuiet'[s], deskThread'[s] # None,
                      deskThread'[s].status = "CLOSED"
               PROVE  /\ \A p \in Requests : deskRequest'[p] # None
                         /\ deskRequest'[p].thread = s => Quits(deskRequest'[p])
                      /\ Len(deskMessages'[s]) = deskLastWord'[s]
    BY DEF NoMorePosts, Desk!ClosedIsClosed, Quits
  <2>1. s # t
    BY <1>2, <1>7
  <2> QED BY <1>1, <1>3, <1>7, <1>8, <2>1 DEF DeskInv, NoMorePosts, Desk!ClosedIsClosed
<1>11. NoticesSound' /\ AwaitedIsCounted'
  BY <1>1, <1>8, SameBadges
<1> QED BY <1>5, <1>6, <1>9, <1>10, <1>11 DEF DeskInv

\* What Agent finds is a person: the last of the messages that are not the
\* student's, if there is one.
LEMMA LastIndex ==
    ASSUME NEW n \in Nat, NEW A \in SUBSET (1 .. n), A # {}
    PROVE  Max(A) \in A
<1> DEFINE B == {m \in Nat : n - m \in A}
<1>1. IsWellFoundedOn(OpToRel(<, Nat), Nat)
  BY NatLessThanWellFounded
<1>2. B \subseteq Nat /\ B # {}
  <2>1. PICK a \in A : a \in 1 .. n
    OBVIOUS
  <2>2. n - a \in Nat /\ n - (n - a) = a
    BY <2>1
  <2> QED BY <2>1, <2>2
<1>3. \E m \in B : \A k \in B : ~(<<k, m>> \in OpToRel(<, Nat))
  <2> HIDE DEF B
  <2> DEFINE R == OpToRel(<, Nat)
  <2>1. IsWellFoundedOn(R, Nat)
    BY <1>1
  <2> HIDE DEF R
  <2>2. \E m \in B : \A k \in B : ~(<<k, m>> \in R)
    BY <1>2, <2>1, WFMin, Zenon
  <2> QED BY <2>2 DEF R
<1>4. PICK m \in B : \A k \in B : ~(<<k, m>> \in OpToRel(<, Nat))
  BY <1>3
<1>5. \A k \in B : ~(k < m)
  BY <1>4 DEF OpToRel
<1>6. n - m \in A /\ \A a \in A : n - m >= a
  <2> SUFFICES ASSUME NEW a \in A PROVE n - m >= a
    BY <1>4
  <2>1. a \in Nat /\ n - a \in Nat /\ n - (n - a) = a /\ m \in Nat
    <3>1. a \in 1 .. n /\ m \in Nat
      BY <1>4
    <3> QED BY <3>1
  <2>2. n - a \in B
    BY <2>1
  <2>3. ~(n - a < m)
    BY <1>5, <2>2
  <2> QED BY <2>1, <2>3
<1> QED BY <1>6 DEF Max

LEMMA AgentIsAPerson ==
    ASSUME Desk!TypeOK, NEW t \in Threads, deskThread[t] # None, Desk!Agent(t) # None
    PROVE  Desk!Agent(t) \in Desk!People
<1> DEFINE closer == deskThread[t].closedBy
           answers == {i \in 1 .. Len(deskMessages[t]) : deskMessages[t][i] # Student}
<1>1. closer \in Desk!People \cup {None}
  BY DEF Desk!TypeOK, Desk!Row
<1>2. deskMessages[t] \in Seq(Desk!People) /\ Len(deskMessages[t]) \in Nat
      /\ answers \subseteq 1 .. Len(deskMessages[t])
  BY DEF Desk!TypeOK
<1>3. answers # {} => Max(answers) \in 1 .. Len(deskMessages[t])
  BY <1>2, LastIndex
<1>4. answers # {} => deskMessages[t][Max(answers)] \in Desk!People
  <2> HIDE DEF answers
  <2> QED BY <1>2, <1>3
<1>5. Desk!Agent(t) = IF closer \notin {None, Student} THEN closer
                      ELSE IF answers # {} THEN deskMessages[t][Max(answers)] ELSE closer
  BY DeskLibrary DEF Desk!Agent
<1> HIDE DEF answers, closer
<1> QED BY <1>1, <1>4, <1>5

\* A request that begins is alone on its thread as far as quiet says, and
\* posts only where the thread was open.
LEMMA DeskBeginHolds ==
    ASSUME Desk!GoodConstants, DeskInv, NEW r \in Requests, NEW u \in Desk!People,
           NEW t \in Threads,
           NEW step \in {"post", "rate", "cancel"}, Desk!Begin(r, u, t, step)
    PROVE  DeskInv'
<1> DEFINE q == [actor |-> u, thread |-> t, open |-> deskThread[t].status = "OPEN",
                 agent |-> IF step = "rate" THEN Desk!Agent(t) ELSE None, step |-> step]
<1>1. /\ deskRequest' = [deskRequest EXCEPT ![r] = q] /\ deskThread[t] # None
      /\ deskQuiet' = [deskQuiet EXCEPT ![t] = @ /\ ~Desk!Busy(t)]
      /\ step = "post" => deskThread[t].status = "OPEN"
      /\ UNCHANGED <<deskThread, deskMessages, deskRating, deskEnrolled, deskCurators,
                     deskUnread, deskVisit, deskMoves, deskLastWord, deskAwaited>>
  BY DEF Desk!Begin, Desk!Begins, Desk!PostRead, Desk!rows
<1>2. q \in Desk!Request
  <2>1. step = "rate" => Desk!Agent(t) # None
    BY DEF Desk!Begin, Desk!RateRead
  <2>2. step = "rate" => Desk!Agent(t) \in Desk!People
    BY <1>1, <2>1, AgentIsAPerson DEF DeskInv
  <2> QED BY <2>2 DEF Desk!Request
<1>3. q.thread = t /\ (deskThread[t].status = "CLOSED" => Quits(q))
  BY <1>1 DEF Quits
<1> HIDE DEF q
<1>4. Desk!TypeOK'
  BY <1>1, <1>2 DEF DeskInv, Desk!TypeOK
<1>5. q # None /\ deskRequest'[r] = q
      /\ \A p \in Requests \ {r} : deskRequest'[p] = deskRequest[p]
  BY <1>1, <1>2, DeskNones DEF DeskInv, Desk!TypeOK
<1>6. Fits' /\ About'
  BY <1>1, <1>3, <1>5 DEF DeskInv, Fits, About
<1>7. \A s \in Threads : deskQuiet'[s] => deskQuiet[s]
  BY <1>1 DEF DeskInv, Desk!TypeOK
<1>8. NoMorePosts' /\ Desk!ClosedIsClosed'
  BY <1>1, <1>3, <1>5, <1>7 DEF DeskInv, NoMorePosts, Desk!ClosedIsClosed
<1>9. NoticesSound' /\ AwaitedIsCounted'
  BY <1>1, SameBadges
<1> QED BY <1>4, <1>6, <1>8, <1>9 DEF DeskInv

\* A request that goes on or ends, and the message it posts.
LEMMA Goes_ ==
    ASSUME Desk!GoodConstants, DeskInv, NEW r \in Requests, deskRequest[r] # None,
           NEW step \in {"post", "rate", "cancel", "say", "admins", "others"},
           Desk!Done(r) \/ Desk!Goes(r, step),
           Quits(deskRequest[r]) => Desk!Done(r),
           \/ deskMessages' = deskMessages
           \/ /\ ~Quits(deskRequest[r])
                 /\ Len(deskMessages[deskRequest[r].thread]) < MaxMessages
              /\ deskMessages' = [deskMessages EXCEPT ![deskRequest[r].thread]
                                  = Append(@, deskRequest[r].actor)],
           UNCHANGED <<deskThread, deskQuiet, deskLastWord>>
    PROVE  /\ Fits' /\ About' /\ NoMorePosts' /\ Desk!ClosedIsClosed'
           /\ deskRequest' \in [Requests -> Desk!Request \cup {None}]
           /\ deskMessages' \in [Threads -> Seq(Desk!People)]
<1> DEFINE q == deskRequest[r]
           t == q.thread
<1>1. q \in Desk!Request /\ t \in Threads /\ q.actor \in Desk!People
  BY DEF DeskInv, Desk!TypeOK, Desk!Request
<1>2. /\ \A s \in Requests \ {r} : deskRequest'[s] = deskRequest[s]
      /\ \/ deskRequest'[r] = None
         \/ /\ deskRequest'[r] = [q EXCEPT !.step = step] /\ ~Quits(q)
  BY DEF Desk!Done, Desk!Goes, DeskInv, Desk!TypeOK
<1>3. [q EXCEPT !.step = step] \in Desk!Request /\ [q EXCEPT !.step = step].thread = t
  BY <1>1 DEF Desk!Request
<1>4. deskRequest' \in [Requests -> Desk!Request \cup {None}]
  BY <1>1, <1>3 DEF Desk!Done, Desk!Goes, DeskInv, Desk!TypeOK
<1>5. /\ deskMessages' \in [Threads -> Seq(Desk!People)]
      /\ \A s \in Threads : Len(deskMessages'[s]) <= MaxMessages
      /\ \A s \in Threads \ {t} : deskMessages'[s] = deskMessages[s]
      /\ Quits(q) => deskMessages' = deskMessages
  <2>1. CASE deskMessages' = deskMessages
    BY <2>1 DEF DeskInv, Desk!TypeOK, Fits
  <2>2. CASE /\ ~Quits(q) /\ Len(deskMessages[t]) < MaxMessages
             /\ deskMessages' = [deskMessages EXCEPT ![t] = Append(@, q.actor)]
    <3>1. Append(deskMessages[t], q.actor) \in Seq(Desk!People)
          /\ Len(Append(deskMessages[t], q.actor)) = Len(deskMessages[t]) + 1
          /\ Len(deskMessages[t]) \in Nat
      BY <1>1 DEF DeskInv, Desk!TypeOK
    <3>2. Len(Append(deskMessages[t], q.actor)) <= MaxMessages
      BY <2>2, <3>1, DeskNones
    <3> QED BY <1>1, <2>2, <3>1, <3>2 DEF DeskInv, Desk!TypeOK, Fits
  <2> QED BY <2>1, <2>2
<1>6. About'
  <2> SUFFICES ASSUME NEW s \in Requests, deskRequest'[s] # None
               PROVE  deskThread[deskRequest'[s].thread] # None
    BY DEF About
  <2>1. CASE s = r
    <3>1. deskRequest'[s].thread = t
      BY <1>2, <1>3, <2>1
    <3> QED BY <3>1 DEF DeskInv, About
  <2>2. CASE s # r
    BY <1>2, <2>2 DEF DeskInv, About
  <2> QED BY <2>1, <2>2
<1>7. NoMorePosts' /\ Desk!ClosedIsClosed'
  <2> SUFFICES ASSUME NEW s \in Threads, deskQuiet'[s], deskThread'[s] # None,
                      deskThread'[s].status = "CLOSED"
               PROVE  /\ \A p \in Requests : deskRequest'[p] # None
                         /\ deskRequest'[p].thread = s => Quits(deskRequest'[p])
                      /\ Len(deskMessages'[s]) = deskLastWord'[s]
    BY DEF NoMorePosts, Desk!ClosedIsClosed, Quits
  <2>1. /\ \A p \in Requests : deskRequest[p] # None /\ deskRequest[p].thread = s
           => Quits(deskRequest[p])
        /\ Len(deskMessages[s]) = deskLastWord[s]
    BY DEF DeskInv, NoMorePosts, Desk!ClosedIsClosed
  <2>2. s = t => Quits(q)
    BY <2>1
  <2>3. Len(deskMessages'[s]) = deskLastWord'[s]
    BY <1>5, <2>1, <2>2
  <2>4. ASSUME NEW p \in Requests, deskRequest'[p] # None, deskRequest'[p].thread = s
        PROVE  Quits(deskRequest'[p])
    BY <1>2, <1>3, <2>1, <2>2, <2>4
  <2> QED BY <2>3, <2>4
<1> QED BY <1>4, <1>5, <1>6, <1>7 DEF Fits

LEMMA MessageHolds ==
    ASSUME Desk!GoodConstants, DeskInv, NEW r \in Requests,
           Desk!Post(r) \/ Desk!Rate(r) \/ Desk!CancelCourse(r) \/ Desk!Say(r)
           \/ Desk!NotifyFails(r)
    PROVE  DeskInv'
<1>1. deskRequest[r] # None /\ deskRequest[r] \in Desk!Request
  BY DEF Desk!Post, Desk!Rate, Desk!CancelCourse, Desk!Say, Desk!NotifyFails, DeskInv,
     Desk!TypeOK
<1>2. \E step \in {"post", "rate", "cancel", "say", "admins", "others"} : Desk!Done(r)
      \/ Desk!Goes(r, step)
  BY DEF Desk!Post, Desk!Rate, Desk!CancelCourse, Desk!Say, Desk!NotifyFails
<1>3. Quits(deskRequest[r]) => Desk!Done(r)
  BY DEF Desk!Post, Desk!Rate, Desk!CancelCourse, Desk!Say, Desk!NotifyFails, Quits
<1>4. /\ \/ deskMessages' = deskMessages
         \/ /\ ~Quits(deskRequest[r]) /\ Len(deskMessages[deskRequest[r].thread]) < MaxMessages
            /\ deskMessages' = [deskMessages EXCEPT ![deskRequest[r].thread]
                                = Append(@, deskRequest[r].actor)]
      /\ UNCHANGED <<deskThread, deskQuiet, deskLastWord, deskCurators, deskUnread, deskVisit,
                     deskMoves, deskAwaited>>
  BY DEF Desk!Post, Desk!Rate, Desk!CancelCourse, Desk!Say, Desk!NotifyFails, Quits, Desk!rows,
     Desk!hist
<1>5. /\ Fits' /\ About' /\ NoMorePosts' /\ Desk!ClosedIsClosed'
      /\ deskRequest' \in [Requests -> Desk!Request \cup {None}]
      /\ deskMessages' \in [Threads -> Seq(Desk!People)]
  BY <1>1, <1>2, <1>3, <1>4, Goes_
<1>6. deskRating' \in [Threads -> Desk!People \cup {None}] /\ deskEnrolled' \in BOOLEAN
  BY <1>1 DEF Desk!Post, Desk!Rate, Desk!CancelCourse, Desk!Say, Desk!NotifyFails, DeskInv,
              Desk!TypeOK, Desk!rows, Desk!hist, Desk!Request
<1>7. Desk!TypeOK'
  BY <1>4, <1>5, <1>6 DEF DeskInv, Desk!TypeOK
<1>8. NoticesSound' /\ AwaitedIsCounted'
  BY <1>4, SameBadges
<1> QED BY <1>5, <1>7, <1>8 DEF DeskInv

\* Whom a notice goes to, the badge it counts in is on a page of his.
LEMMA NoticeIsOpen ==
    ASSUME Desk!TypeOK, NEW q \in Desk!Request, deskThread[q.thread] # None
    PROVE  /\ Desk!LinkFor(q) \in Desk!Links /\ Desk!Audience(q) \subseteq Desk!People
           /\ \A u \in Desk!Audience(q) : OpenTo(Desk!LinkFor(q), u)
           /\ Desk!LinkFor(q) \in TechLinks <=> deskThread[q.thread].channel = "TECH"
<1>1. q.thread \in Threads /\ deskThread[q.thread].channel \in {"TECH", "COURSE"}
      /\ deskCurators \subseteq Teachers
  BY DEF Desk!TypeOK, Desk!Request, Desk!Row, Desk!Channels
<1>2. CASE q.actor # Student
  <2>1. Desk!Audience(q) = {Student} /\ Desk!LinkFor(q) = Desk!StudentLink(deskThread[q.thread])
    BY <1>2 DEF Desk!Audience, Desk!LinkFor
  <2> QED BY <1>1, <2>1
             DEF Desk!StudentLink, Desk!Links, OpenTo, StudentLinks, TechLinks, Desk!People
<1>3. CASE q.actor = Student /\ q.step = "admins"
  <2>1. Desk!Audience(q) = Admins /\ Desk!LinkFor(q) = Desk!AdminLink(deskThread[q.thread])
    BY <1>3 DEF Desk!Audience, Desk!LinkFor
  <2> QED BY <1>1, <2>1
             DEF Desk!AdminLink, Desk!Links, OpenTo, AdminLinks, TechLinks, Desk!People
<1>4. CASE q.actor = Student /\ q.step # "admins"
  <2>1. Desk!Audience(q) = Desk!Others(deskThread[q.thread])
        /\ Desk!LinkFor(q) = Desk!OtherLink(deskThread[q.thread])
    BY <1>4 DEF Desk!Audience, Desk!LinkFor
  <2> QED BY <1>1, <2>1
             DEF Desk!OtherLink, Desk!Others, Desk!Links, OpenTo, TechLinks, Desk!People
<1> QED BY <1>2, <1>3, <1>4

LEMMA NotifyHolds ==
    ASSUME Desk!GoodConstants, DeskInv, NEW r \in Requests, Desk!Notify(r)
    PROVE  DeskInv'
<1> DEFINE q == deskRequest[r]
           to == Desk!Audience(q) \ {q.actor}
           link == Desk!LinkFor(q)
<1>1. /\ deskRequest[r] # None /\ deskRequest[r].step \in {"admins", "others"}
      /\ deskUnread' = deskUnread \cup [to : to, link : {link}, thread : {q.thread}]
      /\ deskAwaited' = [u \in Desk!People |-> IF u \in to /\ ~Desk!Visiting(u)
                         THEN deskAwaited[u] \cup {q.thread}
                                               ELSE deskAwaited[u]]
      /\ UNCHANGED <<deskThread, deskMessages, deskRating, deskEnrolled, deskCurators,
                     deskVisit, deskMoves, deskQuiet, deskLastWord>>
  BY DEF Desk!Notify, Desk!rows
<1>2. q \in Desk!Request /\ q.thread \in Threads /\ deskThread[q.thread] # None
  BY <1>1 DEF DeskInv, Desk!TypeOK, About, Desk!Request
<1>3. \E step \in {"post", "rate", "cancel", "say", "admins", "others"} : Desk!Done(r)
      \/ Desk!Goes(r, step)
  BY DEF Desk!Notify, Desk!Second
<1>4. ~Quits(deskRequest[r])
  BY <1>1 DEF Quits
<1>5. /\ Fits' /\ About' /\ NoMorePosts' /\ Desk!ClosedIsClosed'
      /\ deskRequest' \in [Requests -> Desk!Request \cup {None}]
  BY <1>1, <1>3, <1>4, Goes_
<1>6. /\ link \in Desk!Links /\ to \subseteq Desk!People
      /\ \A u \in to : OpenTo(link, u)
      /\ link \in TechLinks <=> deskThread[q.thread].channel = "TECH"
  BY <1>2, NoticeIsOpen DEF DeskInv
<1> DEFINE new == [to : to, link : {link}, thread : {q.thread}]
<1>7. new \subseteq Desk!Notice /\ \A n \in new : n.link = link /\ n.to \in to
  BY <1>2, <1>6 DEF Desk!Notice
<1>8. \A u \in to : \E n \in new : n.to = u /\ n.link = link /\ n.thread = q.thread
  <2> SUFFICES ASSUME NEW u \in to PROVE \E n \in new : n.to = u /\ n.link = link /\ n.thread = q.thread
    OBVIOUS
  <2> WITNESS [to |-> u, link |-> link, thread |-> q.thread] \in new
  <2> QED OBVIOUS
<1> HIDE DEF new, to, link
<1>9. Desk!TypeOK'
  <2>1. deskAwaited' \in [Desk!People -> SUBSET Threads]
    BY <1>1, <1>2 DEF DeskInv, Desk!TypeOK
  <2>2. deskUnread' \subseteq Desk!Notice
    BY <1>1, <1>7 DEF DeskInv, Desk!TypeOK, new
  <2> QED BY <1>1, <1>5, <2>1, <2>2 DEF DeskInv, Desk!TypeOK
<1>10. \A n, u : OpenTo(n, u) => OpenTo(n, u)'
  BY <1>1 DEF OpenTo
<1>11. deskUnread' = deskUnread \cup new
  BY <1>1 DEF new
<1>12. NoticesSound'
  <2> SUFFICES ASSUME NEW n \in deskUnread'
                      PROVE (n.link = "/curator/support" \/ OpenTo(n.link, n.to))'
    BY DEF NoticesSound
  <2>1. n.link = "/curator/support" \/ OpenTo(n.link, n.to)
    BY <1>6, <1>7, <1>11 DEF DeskInv, NoticesSound
  <2> QED BY <1>10, <2>1
<1>13. AwaitedIsCounted'
  <2> SUFFICES ASSUME NEW u \in Desk!People, NEW t \in deskAwaited'[u]
               PROVE  (/\ deskThread[t] # None
                       /\ \E n \in deskUnread : /\ n.to = u /\ OpenTo(n.link, u) /\ n.thread = t
                                                /\ n.link \in TechLinks <=> deskThread[t].channel = "TECH")'
    BY DEF AwaitedIsCounted
  <2>1. CASE t \in deskAwaited[u]
    <3>1. PICK n \in deskUnread : /\ n.to = u /\ OpenTo(n.link, u) /\ n.thread = t
                                  /\ n.link \in TechLinks <=> deskThread[t].channel = "TECH"
      BY <2>1 DEF DeskInv, AwaitedIsCounted
    <3>2. deskThread[t] # None
      BY <2>1 DEF DeskInv, AwaitedIsCounted
    <3> QED BY <1>1, <1>10, <1>11, <3>1, <3>2
  <2>2. CASE t \notin deskAwaited[u]
    <3>1. u \in to /\ t = q.thread
      BY <1>1, <2>2
    <3>2. PICK n \in new : n.to = u /\ n.link = link /\ n.thread = q.thread
      BY <1>8, <3>1
    <3> QED BY <1>1, <1>2, <1>6, <1>10, <1>11, <3>1, <3>2
  <2> QED BY <2>1, <2>2
<1> QED BY <1>5, <1>9, <1>12, <1>13 DEF DeskInv

LEMMA CloseHolds ==
    ASSUME Desk!GoodConstants, DeskInv, NEW u \in Desk!People, NEW t \in Threads,
           Desk!Close(u, t)
    PROVE  DeskInv'
<1> DEFINE row == [deskThread[t] EXCEPT !.status = "CLOSED", !.closedBy = u]
<1>1. /\ deskThread[t] # None /\ deskThread' = [deskThread EXCEPT ![t] = row]
      /\ deskLastWord' = [deskLastWord EXCEPT ![t] = Len(deskMessages[t])]
      /\ deskQuiet' = [deskQuiet EXCEPT ![t] = @ /\ ~Desk!Busy(t)]
      /\ UNCHANGED <<deskMessages, deskRating, deskEnrolled, deskCurators, deskUnread,
                     deskRequest, deskVisit, deskMoves, deskAwaited>>
  BY DEF Desk!Close, Desk!Begins
<1>2. row \in Desk!Row /\ row.channel = deskThread[t].channel
  BY <1>1 DEF DeskInv, Desk!TypeOK, Desk!Row
<1> HIDE DEF row
<1>3. Len(deskMessages[t]) \in 0 .. MaxMessages
  BY DeskNones DEF DeskInv, Desk!TypeOK, Fits
<1>4. Desk!TypeOK'
  BY <1>1, <1>2, <1>3 DEF DeskInv, Desk!TypeOK
<1>5. deskThread'[t] = row /\ row # None
      /\ \A s \in Threads \ {t} : deskThread'[s] = deskThread[s]
  BY <1>1, <1>2, DeskNones DEF DeskInv, Desk!TypeOK
<1>6. Fits' /\ About'
  BY <1>1, <1>5 DEF DeskInv, Fits, About, Desk!TypeOK, Desk!Request
<1>7. NoMorePosts' /\ Desk!ClosedIsClosed'
  <2> SUFFICES ASSUME NEW s \in Threads, deskQuiet'[s], deskThread'[s] # None,
                      deskThread'[s].status = "CLOSED"
               PROVE  /\ \A p \in Requests : deskRequest'[p] # None
                         /\ deskRequest'[p].thread = s => Quits(deskRequest'[p])
                      /\ Len(deskMessages'[s]) = deskLastWord'[s]
    BY DEF NoMorePosts, Desk!ClosedIsClosed, Quits
  <2>1. CASE s = t
    BY <1>1, <2>1 DEF DeskInv, Desk!TypeOK, Desk!Busy
  <2>2. CASE s # t
    BY <1>1, <1>5, <2>2 DEF DeskInv, Desk!TypeOK, NoMorePosts, Desk!ClosedIsClosed
  <2> QED BY <2>1, <2>2
<1>8. NoticesSound' /\ AwaitedIsCounted'
  <2>1. \A s \in Threads : deskThread[s] # None => deskThread'[s] # None
        /\ deskThread'[s].channel = deskThread[s].channel
    BY <1>2, <1>5
  <2> QED BY <1>1, <2>1, SameBadges
<1> QED BY <1>4, <1>6, <1>7, <1>8 DEF DeskInv

\* What a page clears, the messages it shows are no longer awaited.
LEMMA ClearHolds ==
    ASSUME Desk!GoodConstants, DeskInv, Desk!ClearBadge
    PROVE  DeskInv'
<1> DEFINE u == deskVisit.by
           badge == deskVisit.badge
<1>1. /\ deskVisit # None /\ deskVisit' = None
      /\ deskUnread' = deskUnread \ Desk!Clears(u, badge)
      /\ deskAwaited' = [deskAwaited EXCEPT ![u] = @ \ Desk!Shown(badge)]
      /\ UNCHANGED <<deskThread, deskMessages, deskRating, deskEnrolled, deskCurators,
                     deskRequest, deskMoves, deskQuiet, deskLastWord>>
  BY DEF Desk!ClearBadge, Desk!rows
<1>2. u \in Desk!People /\ badge \in Desk!Badges
  BY <1>1 DEF DeskInv, Desk!TypeOK
<1>3. Desk!TypeOK'
  BY <1>1, <1>2 DEF DeskInv, Desk!TypeOK
<1>4. Fits' /\ About' /\ NoMorePosts' /\ Desk!ClosedIsClosed'
  BY <1>1, SameThreads
<1>5. NoticesSound'
  BY <1>1 DEF DeskInv, NoticesSound, OpenTo
<1>6. AwaitedIsCounted'
  <2> SUFFICES ASSUME NEW v \in Desk!People, NEW t \in deskAwaited'[v]
               PROVE  (/\ deskThread[t] # None
                       /\ \E n \in deskUnread : /\ n.to = v /\ OpenTo(n.link, v) /\ n.thread = t
                                                /\ n.link \in TechLinks <=> deskThread[t].channel = "TECH")'
    BY DEF AwaitedIsCounted
  <2>1. t \in deskAwaited[v] /\ t \in Threads /\ (v = u => t \notin Desk!Shown(badge))
    BY <1>1, <1>2 DEF DeskInv, Desk!TypeOK
  <2>2. deskThread[t] # None /\ deskThread[t].channel \in {"TECH", "COURSE"}
    BY <2>1 DEF DeskInv, AwaitedIsCounted, Desk!TypeOK, Desk!Row, Desk!Channels
  <2>3. PICK n \in deskUnread : /\ n.to = v /\ OpenTo(n.link, v) /\ n.thread = t
                                /\ n.link \in TechLinks <=> deskThread[t].channel = "TECH"
    BY <2>1 DEF DeskInv, AwaitedIsCounted
  <2>4. n \notin Desk!Clears(u, badge)
    <3> SUFFICES ASSUME v = u, Desk!Matches(n.link, badge) PROVE FALSE
      BY <2>3 DEF Desk!Clears
    <3>1. (deskThread[t].channel = "TECH") # (badge \in {"TECH", "STAFF_TECH"})
      BY <2>1, <2>2 DEF Desk!Shown
    <3>2. n.link \in TechLinks <=> badge \in {"TECH", "STAFF_TECH"}
      BY <1>2 DEF Desk!Matches, Desk!Badges, TechLinks
    <3> QED BY <2>3, <3>1, <3>2
  <2> QED BY <1>1, <2>2, <2>3, <2>4 DEF OpenTo
<1> QED BY <1>3, <1>4, <1>5, <1>6 DEF DeskInv

LEMMA ListHolds ==
    ASSUME Desk!GoodConstants, DeskInv, NEW u \in Desk!People, Desk!List(u)
    PROVE  DeskInv'
<1>1. /\ deskUnread' = deskUnread \ Desk!Misdelivered(u)
      /\ UNCHANGED <<deskThread, deskMessages, deskRating, deskEnrolled, deskCurators,
                     deskRequest, deskVisit, deskMoves,
                     deskQuiet, deskLastWord, deskAwaited>>
  BY DEF Desk!List, Desk!rows, Desk!hist
<1>2. Desk!TypeOK'
  BY <1>1 DEF DeskInv, Desk!TypeOK
<1>3. Fits' /\ About' /\ NoMorePosts' /\ Desk!ClosedIsClosed'
  BY <1>1, SameThreads
<1>4. NoticesSound'
  BY <1>1 DEF DeskInv, NoticesSound, OpenTo
<1>5. AwaitedIsCounted'
  <2> SUFFICES ASSUME NEW v \in Desk!People, NEW t \in deskAwaited[v]
               PROVE  (/\ deskThread[t] # None
                       /\ \E n \in deskUnread : /\ n.to = v /\ OpenTo(n.link, v) /\ n.thread = t
                                                /\ n.link \in TechLinks <=> deskThread[t].channel = "TECH")'
    BY <1>1 DEF AwaitedIsCounted
  <2>1. PICK n \in deskUnread : /\ n.to = v /\ OpenTo(n.link, v) /\ n.thread = t
                                /\ n.link \in TechLinks <=> deskThread[t].channel = "TECH"
    BY DEF DeskInv, AwaitedIsCounted
  <2>2. n \notin Desk!Misdelivered(u)
    BY <2>1 DEF Desk!Misdelivered, OpenTo, StudentLinks, AdminLinks
  <2>3. deskThread[t] # None
    BY DEF DeskInv, AwaitedIsCounted
  <2> QED BY <1>1, <2>1, <2>2, <2>3 DEF OpenTo
<1> QED BY <1>2, <1>3, <1>4, <1>5 DEF DeskInv

\* A notice put aside or expired is of a thread no longer awaited.
LEMMA ReadHolds ==
    ASSUME Desk!GoodConstants, DeskInv, NEW n \in deskUnread, Desk!MarkRead(n)
    PROVE  DeskInv'
<1>1. /\ deskUnread' = deskUnread \ {n}
      /\ deskAwaited' = [deskAwaited EXCEPT ![n.to] = @ \ {n.thread}]
      /\ UNCHANGED <<deskThread, deskMessages, deskRating, deskEnrolled, deskCurators,
                     deskRequest, deskVisit, deskMoves, deskQuiet, deskLastWord>>
  BY DEF Desk!MarkRead, Desk!rows
<1>2. n.to \in Desk!People /\ n.link \in Desk!Links
  BY DEF DeskInv, Desk!TypeOK, Desk!Notice
<1>3. Desk!TypeOK'
  BY <1>1, <1>2 DEF DeskInv, Desk!TypeOK
<1>4. Fits' /\ About' /\ NoMorePosts' /\ Desk!ClosedIsClosed'
  BY <1>1, SameThreads
<1>5. NoticesSound'
  BY <1>1 DEF DeskInv, NoticesSound, OpenTo
<1>6. AwaitedIsCounted'
  <2> SUFFICES ASSUME NEW v \in Desk!People, NEW t \in deskAwaited'[v]
               PROVE  (/\ deskThread[t] # None
                       /\ \E m \in deskUnread : /\ m.to = v /\ OpenTo(m.link, v) /\ m.thread = t
                                                /\ m.link \in TechLinks <=> deskThread[t].channel = "TECH")'
    BY DEF AwaitedIsCounted
  <2>1. t \in deskAwaited[v] /\ (v = n.to => t # n.thread)
    BY <1>1, <1>2 DEF DeskInv, Desk!TypeOK
  <2>2. PICK m \in deskUnread : /\ m.to = v /\ OpenTo(m.link, v) /\ m.thread = t
                                /\ m.link \in TechLinks <=> deskThread[t].channel = "TECH"
    BY <2>1 DEF DeskInv, AwaitedIsCounted
  <2>3. deskThread[t] # None /\ m # n
    BY <2>1, <2>2 DEF DeskInv, AwaitedIsCounted
  <2> QED BY <1>1, <2>2, <2>3 DEF OpenTo
<1> QED BY <1>3, <1>4, <1>5, <1>6 DEF DeskInv

LEMMA ReadAllHolds ==
    ASSUME Desk!GoodConstants, DeskInv, NEW u \in Desk!People, Desk!MarkAllRead(u)
    PROVE  DeskInv'
<1>1. /\ deskUnread' = {n \in deskUnread : n.to # u}
      /\ deskAwaited' = [deskAwaited EXCEPT ![u] = {}]
      /\ UNCHANGED <<deskThread, deskMessages, deskRating, deskEnrolled, deskCurators,
                     deskRequest, deskVisit, deskMoves, deskQuiet, deskLastWord>>
  BY DEF Desk!MarkAllRead, Desk!rows
<1>3. Desk!TypeOK'
  BY <1>1 DEF DeskInv, Desk!TypeOK
<1>4. Fits' /\ About' /\ NoMorePosts' /\ Desk!ClosedIsClosed'
  BY <1>1, SameThreads
<1>5. NoticesSound'
  BY <1>1 DEF DeskInv, NoticesSound, OpenTo
<1>6. AwaitedIsCounted'
  <2> SUFFICES ASSUME NEW v \in Desk!People, NEW t \in deskAwaited'[v]
               PROVE  (/\ deskThread[t] # None
                       /\ \E m \in deskUnread : /\ m.to = v /\ OpenTo(m.link, v) /\ m.thread = t
                                                /\ m.link \in TechLinks <=> deskThread[t].channel = "TECH")'
    BY DEF AwaitedIsCounted
  <2>1. t \in deskAwaited[v] /\ v # u
    BY <1>1 DEF DeskInv, Desk!TypeOK
  <2>2. PICK m \in deskUnread : /\ m.to = v /\ OpenTo(m.link, v) /\ m.thread = t
                                /\ m.link \in TechLinks <=> deskThread[t].channel = "TECH"
    BY <2>1 DEF DeskInv, AwaitedIsCounted
  <2>3. deskThread[t] # None
    BY <2>1 DEF DeskInv, AwaitedIsCounted
  <2> QED BY <1>1, <2>1, <2>2, <2>3 DEF OpenTo
<1> QED BY <1>3, <1>4, <1>5, <1>6 DEF DeskInv

\* A curator comes, or goes with what he awaits.
LEMMA CuratorsHold ==
    ASSUME Desk!GoodConstants, DeskInv, NEW u \in Teachers, Desk!AssignCurator(u)
           \/ Desk!RemoveCurator(u)
    PROVE  DeskInv'
<1>1. /\ deskCurators' \subseteq Teachers /\ deskMoves' \in 0 .. MaxMoves
      /\ \A v \in Desk!People \ {u} : v \in deskCurators => v \in deskCurators'
      /\ \/ u \in deskCurators'
         \/ u \in Admins /\ deskAwaited' = deskAwaited
         \/ deskAwaited' = [deskAwaited EXCEPT ![u] = {}]
      /\ deskAwaited' = deskAwaited \/ deskAwaited' = [deskAwaited EXCEPT ![u] = {}]
      /\ UNCHANGED <<deskThread, deskMessages, deskRating, deskEnrolled, deskUnread,
                     deskRequest, deskVisit, deskQuiet, deskLastWord>>
  BY DeskNones
     DEF Desk!AssignCurator, Desk!RemoveCurator, Desk!rows, Desk!hist, DeskInv, Desk!TypeOK
<1>2. Desk!TypeOK'
  <2>1. deskAwaited' \in [Desk!People -> SUBSET Threads]
    BY <1>1 DEF DeskInv, Desk!TypeOK
  <2> QED BY <1>1, <2>1 DEF DeskInv, Desk!TypeOK
<1>3. Fits' /\ About' /\ NoMorePosts' /\ Desk!ClosedIsClosed'
  BY <1>1, SameThreads
<1>4. NoticesSound'
  BY <1>1 DEF DeskInv, NoticesSound, OpenTo
<1>5. AwaitedIsCounted'
  <2> SUFFICES ASSUME NEW v \in Desk!People, NEW t \in deskAwaited'[v]
               PROVE  (/\ deskThread[t] # None
                       /\ \E n \in deskUnread : /\ n.to = v /\ OpenTo(n.link, v) /\ n.thread = t
                                                /\ n.link \in TechLinks <=> deskThread[t].channel = "TECH")'
    BY DEF AwaitedIsCounted
  <2>1. t \in deskAwaited[v] /\ (v = u => u \in deskCurators' \/ u \in Admins)
    BY <1>1 DEF DeskInv, Desk!TypeOK
  <2>2. PICK n \in deskUnread : /\ n.to = v /\ OpenTo(n.link, v) /\ n.thread = t
                                /\ n.link \in TechLinks <=> deskThread[t].channel = "TECH"
    BY <2>1 DEF DeskInv, AwaitedIsCounted
  <2>3. OpenTo(n.link, v)'
    BY <1>1, <2>1, <2>2 DEF OpenTo
  <2>4. deskThread[t] # None
    BY <2>1 DEF DeskInv, AwaitedIsCounted
  <2> QED BY <1>1, <2>2, <2>3, <2>4
<1> QED BY <1>2, <1>3, <1>4, <1>5 DEF DeskInv

LEMMA DeskStep ==
    ASSUME Desk!GoodConstants, DeskInv, [Desk!Next]_(Desk!deskVars)
    PROVE  DeskInv'
<1>1. ASSUME NEW r \in Requests, NEW t \in Threads, NEW channel \in Desk!Channels,
             NEW cancel \in BOOLEAN,
             Desk!Create(r, t, channel, cancel)
      PROVE  DeskInv'
  BY <1>1, CreateHolds
<1>2. ASSUME NEW r \in Requests, NEW t \in Threads, NEW u \in Desk!People,
             NEW step \in {"post", "rate", "cancel"}, Desk!Begin(r, u, t, step)
      PROVE  DeskInv'
  BY <1>2, DeskBeginHolds
<1>3. ASSUME NEW r \in Requests,
             Desk!Post(r) \/ Desk!Rate(r) \/ Desk!CancelCourse(r) \/ Desk!Say(r)
             \/ Desk!NotifyFails(r)
      PROVE  DeskInv'
  BY <1>3, MessageHolds
<1>4. ASSUME NEW r \in Requests, Desk!Notify(r) PROVE DeskInv'
  BY <1>4, NotifyHolds
<1>5. ASSUME NEW u \in Desk!People, NEW badge \in Desk!Badges, Desk!Visit(u, badge)
             PROVE DeskInv'
  <2>1. UNCHANGED <<deskThread, deskMessages, deskRating, deskEnrolled, deskCurators,
                    deskUnread, deskRequest, deskMoves,
                    deskQuiet, deskLastWord, deskAwaited>>
                    /\ deskVisit' \in [by : Desk!People, badge : Desk!Badges] \cup {None}
    BY <1>5 DEF Desk!Visit, Desk!rows, Desk!hist
  <2>2. Desk!TypeOK'
    BY <2>1 DEF DeskInv, Desk!TypeOK
  <2> QED BY <2>1, <2>2, SameThreads, SameBadges DEF DeskInv
<1>6. ASSUME NEW u \in Desk!People, Desk!List(u) PROVE DeskInv'
  BY <1>6, ListHolds
<1>7. ASSUME NEW u \in Desk!People, NEW t \in Threads, Desk!Close(u, t) PROVE DeskInv'
  BY <1>7, CloseHolds
<1>8. CASE Desk!ClearBadge
  BY <1>8, ClearHolds
<1>9. ASSUME NEW u \in Teachers, Desk!AssignCurator(u) \/ Desk!RemoveCurator(u) PROVE DeskInv'
  BY <1>9, CuratorsHold
<1>11. ASSUME NEW n \in deskUnread, Desk!MarkRead(n) \/ Desk!Expire(n) PROVE DeskInv'
  BY <1>11, ReadHolds DEF Desk!Expire
<1>12. ASSUME NEW u \in Desk!People, Desk!MarkAllRead(u) PROVE DeskInv'
  BY <1>12, ReadAllHolds
<1>10. CASE UNCHANGED Desk!deskVars
  <2>1. UNCHANGED <<deskThread, deskMessages, deskRating, deskEnrolled, deskCurators,
                    deskUnread, deskRequest, deskVisit, deskMoves,
                    deskQuiet, deskLastWord, deskAwaited>>
    BY <1>10 DEF Desk!deskVars, Desk!rows, Desk!hist
  <2>2. Desk!TypeOK'
    BY <2>1 DEF DeskInv, Desk!TypeOK
  <2> QED BY <2>1, <2>2, SameThreads, SameBadges DEF DeskInv
<1> QED BY <1>1, <1>2, <1>3, <1>4, <1>5, <1>6, <1>7, <1>8, <1>9, <1>10, <1>11, <1>12 DEF Desk!Next

\* What the badges promise, from what is kept of them.
LEMMA BadgesFollow ==
    ASSUME Desk!GoodConstants, DeskInv
    PROVE  Desk!BadgeForWhatAwaits /\ Desk!EveryNoticeHasItsPage
<1>1. ASSUME NEW link \in Desk!Links, NEW u \in Desk!People, OpenTo(link, u)
      PROVE  \E badge \in Desk!BadgesOf(u) : Desk!Matches(link, badge)
             /\ {b \in Desk!Badges : Desk!Matches(link, b)} = {badge}
  <2> DEFINE badge == IF link = "/lk/support/tech" THEN "TECH"
                      ELSE IF link = "/lk/courses/id?tab=curator" THEN "COURSE"
                      ELSE IF link \in TechLinks THEN "STAFF_TECH" ELSE "STAFF_COURSE"
  <2>1. Desk!Matches(link, badge) /\ {b \in Desk!Badges : Desk!Matches(link, b)} = {badge}
    BY DEF Desk!Links, Desk!Matches, Desk!Badges, TechLinks
  <2>2. badge \in Desk!BadgesOf(u)
    BY <1>1 DEF Desk!Links, OpenTo, Desk!BadgesOf, StudentLinks, AdminLinks, TechLinks
  <2> QED BY <2>1, <2>2
<1>2. Desk!BadgeForWhatAwaits
  <2> SUFFICES ASSUME NEW u \in Desk!People, deskAwaited[u] # {}
               PROVE  \E n \in deskUnread, badge \in Desk!BadgesOf(u) : n.to = u
                      /\ Desk!Matches(n.link, badge)
    BY DEF Desk!BadgeForWhatAwaits
  <2>1. PICK n \in deskUnread : n.to = u /\ OpenTo(n.link, u)
    BY DEF DeskInv, AwaitedIsCounted
  <2>2. n.link \in Desk!Links
    BY DEF DeskInv, Desk!TypeOK, Desk!Notice
  <2> QED BY <1>1, <2>1, <2>2
<1>3. Desk!EveryNoticeHasItsPage
  <2> SUFFICES ASSUME NEW n \in deskUnread
               PROVE  \/ \E badge \in Desk!BadgesOf(n.to) :
                         {b \in Desk!Badges : Desk!Matches(n.link, b)} = {badge}
                      \/ n \in Desk!Misdelivered(n.to)
    BY DEF Desk!EveryNoticeHasItsPage
  <2>1. n.link \in Desk!Links /\ n.to \in Desk!People
    BY DEF DeskInv, Desk!TypeOK, Desk!Notice
  <2>2. CASE OpenTo(n.link, n.to)
    BY <1>1, <2>1, <2>2
  <2>3. CASE n.link = "/curator/support" /\ ~OpenTo(n.link, n.to)
    BY <2>3 DEF Desk!Misdelivered, OpenTo
  <2> QED BY <2>2, <2>3 DEF DeskInv, NoticesSound
<1> QED BY <1>2, <1>3

\* In every reachable state no request on a thread that was closed calmly will
\* post, and what is awaited is behind an unread notice.
THEOREM DeskInvariance == ASSUME Desk!GoodConstants PROVE Desk!Spec => []DeskInv
<1>1. Desk!Init => DeskInv
  BY DeskInit
<1>2. DeskInv /\ [Desk!Next]_(Desk!deskVars) => DeskInv'
  BY DeskStep
<1> QED BY <1>1, <1>2, PTL DEF Desk!Spec

-----------------------------------------------------------------------------
(***************************************************************************)
(* Experience points, for any assignments, attempts and adjustments.       *)
(*                                                                         *)
(* The inductive invariant adds two facts to the properties: whoever has   *)
(* earned something has a balance row (BalanceExists), and a request that  *)
(* is alone on its assignment still knows the old and the new best when it *)
(* writes (Lone).                                                          *)
(***************************************************************************)
\* Otherwise a loss credited to a missing balance would be cut off at zero.
BalanceExists ==
    /\ \A a \in Assignments : Xp!OrZero(xpBest[a]) > 0 => xpBalance # None
    /\ \A r \in Requests :
          Xp!Busy(r) /\ xpRequest[r].next = "write" /\ xpRequest[r].oldBest > 0 => xpBalance # None

On(r, a) == Xp!Busy(r) /\ xpRequest[r].assignment = a

KnowsOld(r, a) ==
    On(r, a) /\ xpRequest[r].next = "write" => xpRequest[r].oldBest = Xp!OrZero(xpBest[a])

\* IsBestOf for a row s of scored.
BestIn(s, x) ==
    /\ \A n \in Tries : s[n] # None => s[n].xp <= x
    /\ x = 0 \/ \E n \in Tries : s[n] # None /\ s[n].xp = x

KnowsNew(r, a) ==
    On(r, a) /\ xpRequest[r].next # "findGraded" => BestIn(xpScored[a], xpRequest[r].bestXp)

Lone(a) ==
    /\ \A q, r \in Requests : On(q, a) /\ On(r, a) => q = r
    /\ \A r \in Requests : KnowsOld(r, a) /\ KnowsNew(r, a)

LoneWithoutOverlap == \A a \in Assignments \ xpOverlapped : Lone(a)

BestKept ==
    \A a \in Assignments \ (xpOverlapped \cup xpAbandoned) :
        (\A r \in Requests : ~On(r, a)) => BestIn(xpScored[a], Xp!OrZero(xpBest[a]))

XpInv ==
    /\ Xp!TypeOK
    /\ BalanceExists
    /\ Xp!LedgerExplainsBalance
    /\ LoneWithoutOverlap
    /\ Xp!EarnedIsBest
    /\ BestKept

-----------------------------------------------------------------------------
LEMMA InitXpInv ==
    ASSUME Xp!GoodConstants, Xp!Init
    PROVE  XpInv
<1>1. Xp!TypeOK
  <2>1. xpChanges \in 0 .. MaxChanges /\ xpLedger \in Int /\ xpForgotten \in Int
        /\ xpEarned \in [Assignments -> Int]
    BY DEF Xp!GoodConstants, Xp!Init
  <2>2. /\ xpScored \in [Assignments -> [Tries -> Xp!Score \cup {None}]]
        /\ xpBest \in [Assignments -> Xp!Scores \cup {None}]
        /\ xpRequest \in [Requests -> Xp!InFlight \cup {None}]
        /\ xpBalance \in Int \cup {None}
    BY DEF Xp!Init
  <2> QED BY <2>1, <2>2 DEF Xp!Init, Xp!TypeOK
<1>2. BalanceExists /\ LoneWithoutOverlap
  BY DEF Xp!Init, BalanceExists, LoneWithoutOverlap, Lone, On, KnowsOld, KnowsNew,
         Xp!Busy, Xp!OrZero
<1>3. Xp!LedgerExplainsBalance /\ Xp!EarnedIsBest
  BY DEF Xp!Init, Xp!LedgerExplainsBalance, Xp!EarnedIsBest, Xp!OrZero
<1>4. BestKept
  BY DEF Xp!Init, BestKept, BestIn, Xp!OrZero
<1> QED BY <1>1, <1>2, <1>3, <1>4 DEF XpInv

LEMMA BestInRow ==
    ASSUME NEW a \in Assignments, NEW x
    PROVE  Xp!IsBestOf(a, x) <=> BestIn(xpScored[a], x)
BY DEF Xp!IsBestOf, Xp!Handed, BestIn

\* A request that goes on, with what it has just read.
LEMMA XpAwait ==
    ASSUME Xp!TypeOK, NEW r \in Requests, NEW q, xpRequest' = [xpRequest EXCEPT ![r] = q]
    PROVE  xpRequest'[r] = q /\ \A p \in Requests : p # r => xpRequest'[p] = xpRequest[p]
BY DEF Xp!TypeOK

LEMMA XpBusy ==
    ASSUME Xp!TypeOK, NEW r \in Requests, Xp!Busy(r)
    PROVE  /\ xpRequest[r] \in Xp!InFlight
           /\ xpRequest[r].assignment \in Assignments
           /\ xpRequest[r].bestXp \in Xp!Scores
           /\ xpRequest[r].oldBest \in Xp!Scores
BY DEF Xp!TypeOK, Xp!Busy, Xp!InFlight

\* Zero stands for a row that does not exist.
LEMMA OrZeroType ==
    ASSUME Xp!GoodConstants, Xp!TypeOK
    PROVE  /\ \A a \in Assignments : Xp!OrZero(xpBest[a]) \in Xp!Scores
           /\ Xp!OrZero(xpBalance) \in Int
BY DEF Xp!GoodConstants, Xp!TypeOK, Xp!OrZero, Xp!Scores

-----------------------------------------------------------------------------
(***************************************************************************)
(* Scores written and read.                                                *)
(***************************************************************************)

LEMMA XpScoreStep ==
    ASSUME Xp!GoodConstants, XpInv, NEW r \in Requests, NEW a \in Assignments, NEW n \in Tries,
           NEW x \in Xp!Scores, NEW final \in BOOLEAN,
           Xp!WriteScore(r, a, n, x, final)
    PROVE  XpInv'
<1> DEFINE q == [next |-> "findGraded", assignment |-> a, bestXp |-> 0, oldBest |-> 0]
<1>1. /\ Xp!TypeOK
      /\ xpRequest' = [xpRequest EXCEPT ![r] = q]
      /\ xpScored' = [xpScored EXCEPT ![a] = [@ EXCEPT ![n] = [xp |-> x, final |-> final]]]
      /\ ~Xp!Busy(r)
      /\ UNCHANGED <<xpBest, xpEarned, xpLedger, xpBalance, xpRemoved, xpAbandoned, xpClamped,
                     xpForgotten>>
      /\ xpOverlapped \subseteq xpOverlapped' /\ xpOverlapped' \subseteq Assignments
  BY DEF XpInv, Xp!TypeOK, Xp!WriteScore, Xp!Await
<1>2. /\ q \in Xp!InFlight /\ q # None
      /\ q.next = "findGraded" /\ q.assignment = a
  BY DEF Xp!GoodConstants, Xp!InFlight, Xp!Scores
<1> HIDE DEF q
<1>3. xpRequest'[r] = q /\ \A p \in Requests : p # r => xpRequest'[p] = xpRequest[p]
  BY <1>1, XpAwait
<1>4. Xp!TypeOK'
  <2>1. xpScored' \in [Assignments -> [Tries -> Xp!Score \cup {None}]]
    BY <1>1 DEF Xp!TypeOK, Xp!Score
  <2>2. xpChanges' \in 0 .. MaxChanges
    BY <1>1 DEF Xp!GoodConstants, Xp!TypeOK, Xp!WriteScore, Xp!Changes
  <2> QED BY <1>1, <1>2, <2>1, <2>2 DEF Xp!TypeOK
<1>5. BalanceExists'
  BY <1>1, <1>2, <1>3 DEF XpInv, BalanceExists, Xp!Busy
<1>6. Xp!LedgerExplainsBalance' /\ Xp!EarnedIsBest'
  BY <1>1 DEF XpInv, Xp!LedgerExplainsBalance, Xp!EarnedIsBest
<1>7. \A b \in Assignments : b # a => xpScored'[b] = xpScored[b]
  BY <1>1 DEF Xp!TypeOK
<1>8. ASSUME NEW b \in Assignments \ xpOverlapped' PROVE Lone(b)'
  <2>1. Lone(b)
    BY <1>1, <1>8 DEF XpInv, LoneWithoutOverlap
  <2>2. CASE b = a
    <3>1. \A p \in Requests : On(p, a)' <=> p = r
      BY <1>1, <1>2, <1>3, <1>8, <2>2 DEF On, Xp!Busy, Xp!WriteScore
    <3> QED BY <1>2, <1>3, <2>2, <3>1 DEF Lone, KnowsOld, KnowsNew
  <2>3. CASE b # a
    <3>1. ~On(r, b)' /\ \A p \in Requests : p # r => (On(p, b)' <=> On(p, b))
      BY <1>2, <1>3, <2>3 DEF On, Xp!Busy
    <3> QED BY <1>1, <1>3, <1>7, <2>1, <2>3, <3>1 DEF Lone, KnowsOld, KnowsNew
  <2> QED BY <2>2, <2>3
<1>9. BestKept'
  <2> SUFFICES ASSUME NEW b \in Assignments \ (xpOverlapped' \cup xpAbandoned'),
                      \A p \in Requests : ~On(p, b)'
               PROVE  BestIn(xpScored'[b], Xp!OrZero(xpBest'[b]))
    BY DEF BestKept
  <2>1. b # a
    BY <1>2, <1>3 DEF On, Xp!Busy
  <2>2. \A p \in Requests : ~On(p, b)
    BY <1>1, <1>3 DEF On, Xp!Busy
  <2> QED BY <1>1, <1>7, <2>1, <2>2 DEF XpInv, BestKept
<1> QED BY <1>4, <1>5, <1>6, <1>8, <1>9 DEF XpInv, LoneWithoutOverlap

\* A read moves the request on; what it learns is what it has to know.
LEMMA XpReadStep ==
    ASSUME Xp!GoodConstants, XpInv, NEW r \in Requests, Xp!SyncFindGraded(r) \/ Xp!SyncFindBest(r)
    PROVE  XpInv'
<1> DEFINE a == xpRequest[r].assignment
<1>1. /\ Xp!TypeOK /\ Xp!Busy(r)
      /\ xpRequest[r] \in Xp!InFlight /\ a \in Assignments /\ xpRequest[r].bestXp \in Xp!Scores
      /\ UNCHANGED <<Xp!tables, Xp!history, xpChanges>>
  BY XpBusy DEF XpInv, Xp!SyncFindGraded, Xp!SyncFindBest, Xp!Resumes
<1>2. PICK q \in Xp!InFlight :
         /\ xpRequest' = [xpRequest EXCEPT ![r] = q]
         /\ q.assignment = a /\ q.next # "findGraded"
         /\ q.next = "write" => q.oldBest = Xp!OrZero(xpBest[a])
         /\ \/ BestIn(xpScored[a], q.bestXp)
            \/ xpRequest[r].next = "findBest" /\ q.bestXp = xpRequest[r].bestXp
  <2>1. CASE Xp!SyncFindGraded(r)
    <3>1. PICK x \in Xp!Scores : Xp!IsBestOf(a, x) /\ Xp!Await(r, "findBest", a, x, 0)
      BY <2>1 DEF Xp!SyncFindGraded
    <3> DEFINE q == [next |-> "findBest", assignment |-> a, bestXp |-> x, oldBest |-> 0]
    <3>2. q \in Xp!InFlight
      BY <1>1 DEF Xp!GoodConstants, Xp!InFlight, Xp!Scores
    <3>3. q.assignment = a /\ q.next = "findBest" /\ q.bestXp = x
      OBVIOUS
    <3>4. xpRequest' = [xpRequest EXCEPT ![r] = q]
      BY <3>1 DEF Xp!Await
    <3>5. BestIn(xpScored[a], x)
      BY <1>1, <3>1, BestInRow
    <3> HIDE DEF q, a
    <3> QED BY <3>2, <3>3, <3>4, <3>5
  <2>2. CASE Xp!SyncFindBest(r)
    <3> DEFINE q == [next |-> "write", assignment |-> a, bestXp |-> xpRequest[r].bestXp,
                     oldBest |-> Xp!OrZero(xpBest[a])]
    <3>1. q \in Xp!InFlight
      BY <1>1, OrZeroType DEF Xp!InFlight
    <3>2. /\ q.assignment = a /\ q.next = "write" /\ q.oldBest = Xp!OrZero(xpBest[a])
          /\ q.bestXp = xpRequest[r].bestXp
      OBVIOUS
    <3>3. xpRequest' = [xpRequest EXCEPT ![r] = q] /\ xpRequest[r].next = "findBest"
      BY <2>2 DEF Xp!SyncFindBest, Xp!Await, Xp!Resumes
    <3> HIDE DEF q, a
    <3> QED BY <3>1, <3>2, <3>3
  <2> QED BY <2>1, <2>2
<1>3. q # None
  BY DEF Xp!GoodConstants
<1>4. xpRequest'[r] = q /\ \A p \in Requests : p # r => xpRequest'[p] = xpRequest[p]
  BY <1>1, <1>2, XpAwait
<1>5. \A p \in Requests : \A b \in Assignments : On(p, b)' <=> On(p, b)
  BY <1>1, <1>2, <1>3, <1>4 DEF On, Xp!Busy
<1>6. Xp!TypeOK'
  BY <1>1, <1>2 DEF Xp!TypeOK, Xp!tables, Xp!history
<1>7. BalanceExists'
  <2>1. \A b \in Assignments : Xp!OrZero(xpBest[b])' > 0 => xpBalance' # None
    BY <1>1 DEF XpInv, BalanceExists, Xp!tables
  <2>2. ASSUME NEW p \in Requests, Xp!Busy(p)', xpRequest'[p].next = "write",
               xpRequest'[p].oldBest > 0
        PROVE  xpBalance' # None
    <3>1. CASE p = r
      BY <1>1, <1>2, <1>4, <2>2, <3>1 DEF XpInv, BalanceExists, Xp!tables
    <3>2. CASE p # r
      BY <1>1, <1>4, <2>2, <3>2 DEF XpInv, BalanceExists, Xp!Busy, Xp!tables
    <3> QED BY <3>1, <3>2
  <2> QED BY <2>1, <2>2 DEF BalanceExists
<1>8. Xp!LedgerExplainsBalance' /\ Xp!EarnedIsBest'
  BY <1>1 DEF XpInv, Xp!LedgerExplainsBalance, Xp!EarnedIsBest, Xp!tables, Xp!history
<1>9. ASSUME NEW b \in Assignments \ xpOverlapped' PROVE Lone(b)'
  <2>1. Lone(b)
    BY <1>1, <1>9 DEF XpInv, LoneWithoutOverlap, Xp!history
  <2>2. ASSUME NEW p \in Requests, p # r PROVE KnowsOld(p, b)' /\ KnowsNew(p, b)'
    BY <1>1, <1>4, <1>5, <2>1, <2>2 DEF Lone, KnowsOld, KnowsNew, Xp!tables
  <2>3. KnowsOld(r, b)' /\ KnowsNew(r, b)'
    <3> SUFFICES ASSUME On(r, b)'
                 PROVE  /\ xpRequest'[r].next = "write" =>
                              xpRequest'[r].oldBest = Xp!OrZero(xpBest'[b])
                        /\ BestIn(xpScored'[b], xpRequest'[r].bestXp)
      BY DEF KnowsOld, KnowsNew
    <3>1. b = a /\ On(r, b)
      BY <1>5 DEF On
    <3>2. xpRequest[r].next = "findBest" => BestIn(xpScored[a], xpRequest[r].bestXp)
      BY <2>1, <3>1 DEF Lone, KnowsNew
    <3> HIDE DEF a
    <3> QED BY <1>1, <1>2, <1>4, <3>1, <3>2 DEF Xp!tables
  <2>4. \A p, o \in Requests : On(p, b)' /\ On(o, b)' => p = o
    BY <1>5, <2>1 DEF Lone
  <2> QED BY <2>2, <2>3, <2>4 DEF Lone
<1>10. BestKept'
  BY <1>1, <1>5 DEF XpInv, BestKept, Xp!tables, Xp!history
<1> QED BY <1>6, <1>7, <1>8, <1>9, <1>10 DEF XpInv, LoneWithoutOverlap

-----------------------------------------------------------------------------
(***************************************************************************)
(* The write, the death of a request and the adjustment.                   *)
(***************************************************************************)

LEMMA XpFinish ==
    ASSUME Xp!TypeOK, NEW r \in Requests, Xp!Finish(r)
    PROVE  /\ xpRequest' \in [Requests -> Xp!InFlight \cup {None}]
           /\ ~Xp!Busy(r)'
           /\ \A p \in Requests : p # r => xpRequest'[p] = xpRequest[p]
           /\ \A p \in Requests : Xp!Busy(p)' => p # r /\ Xp!Busy(p)
           /\ \A p \in Requests, a \in Assignments : On(p, a)' <=> p # r /\ On(p, a)
BY DEF Xp!TypeOK, Xp!Finish, Xp!Busy, On

LEMMA XpWriteStep ==
    ASSUME Xp!GoodConstants, XpInv, NEW r \in Requests, Xp!SyncWrite(r)
    PROVE  XpInv'
<1>0. PICK a \in Assignments : a = xpRequest[r].assignment
  BY XpBusy DEF XpInv, Xp!SyncWrite, Xp!Resumes
<1> DEFINE new == xpRequest[r].bestXp
           delta == new - xpRequest[r].oldBest
<1>1. /\ Xp!TypeOK /\ Xp!Busy(r) /\ xpRequest[r].next = "write" /\ On(r, a)
      /\ a \in Assignments /\ new \in Xp!Scores /\ xpRequest[r].oldBest \in Xp!Scores
      /\ Xp!Finish(r) /\ UNCHANGED <<xpScored, xpRemoved, Xp!history, xpChanges>>
  BY <1>0, XpBusy DEF XpInv, Xp!SyncWrite, Xp!Resumes, On
<1>2. new \in Nat /\ xpRequest[r].oldBest \in Nat /\ delta \in Int
  BY <1>1 DEF Xp!GoodConstants, Xp!Scores
<1>3. /\ xpBest' = [xpBest EXCEPT ![a] = new]
      /\ xpEarned' = [xpEarned EXCEPT ![a] = @ + delta]
      /\ xpLedger' = xpLedger + delta
      /\ xpBalance' = IF delta = 0 THEN xpBalance ELSE Xp!Credited(delta)
  BY <1>0 DEF Xp!SyncWrite
<1>4. delta < 0 => xpBalance # None
  BY <1>1, <1>2 DEF XpInv, BalanceExists
<1>5. /\ xpBalance' \in Int \cup {None}
      /\ Xp!OrZero(xpBalance') = Xp!OrZero(xpBalance) + delta
      /\ xpBalance # None => xpBalance' # None
      /\ delta # 0 => xpBalance' # None
  <2>1. xpBalance \in Int \cup {None} /\ None \notin Int
    BY <1>1 DEF Xp!GoodConstants, Xp!TypeOK
  <2>2. CASE xpBalance = None
    <3>1. delta >= 0
      BY <1>2, <1>4, <2>2
    <3>2. delta # 0 => xpBalance' = delta
      BY <1>2, <1>3, <2>2, <3>1 DEF Xp!Credited, Xp!AtLeastZero
    <3>3. CASE delta = 0
      BY <1>3, <2>2, <3>3 DEF Xp!OrZero
    <3>4. CASE delta # 0
      BY <1>2, <2>1, <2>2, <3>2, <3>4 DEF Xp!OrZero
    <3> QED BY <3>3, <3>4
  <2>3. CASE xpBalance # None
    <3>1. xpBalance \in Int /\ xpBalance' = xpBalance + delta
      BY <1>2, <1>3, <2>1, <2>3 DEF Xp!Credited
    <3>2. xpBalance' # None
      BY <1>2, <2>1, <3>1
    <3> QED BY <1>2, <2>3, <3>1, <3>2 DEF Xp!OrZero
  <2> QED BY <2>2, <2>3
<1>6. /\ xpBest'[a] = new
      /\ \A b \in Assignments : b # a => xpBest'[b] = xpBest[b] /\ xpEarned'[b] = xpEarned[b]
      /\ xpEarned'[a] = xpEarned[a] + delta
  BY <1>1, <1>3 DEF Xp!TypeOK
<1>7. Xp!OrZero(xpBest'[a]) = new
  BY <1>2, <1>6 DEF Xp!GoodConstants, Xp!OrZero
<1>8. Xp!TypeOK'
  <2>1. xpLedger' \in Int /\ xpEarned' \in [Assignments -> Int]
    BY <1>1, <1>2, <1>3 DEF Xp!TypeOK
  <2>2. xpBest' \in [Assignments -> Xp!Scores \cup {None}]
    BY <1>1, <1>3 DEF Xp!TypeOK
  <2>3. xpRequest' \in [Requests -> Xp!InFlight \cup {None}]
    BY <1>1, XpFinish
  <2> QED BY <1>1, <1>5, <2>1, <2>2, <2>3 DEF Xp!TypeOK, Xp!history
<1>9. BalanceExists'
  <2>1. ASSUME NEW b \in Assignments, Xp!OrZero(xpBest'[b]) > 0 PROVE xpBalance' # None
    <3>1. CASE b # a
      BY <1>5, <1>6, <2>1, <3>1 DEF XpInv, BalanceExists
    <3>2. CASE b = a
      <4>1. xpRequest[r].oldBest > 0 \/ delta # 0
        BY <1>2, <1>7, <2>1, <3>2
      <4> QED BY <1>1, <1>5, <4>1 DEF XpInv, BalanceExists
    <3> QED BY <3>1, <3>2
  <2>2. ASSUME NEW p \in Requests, Xp!Busy(p)', xpRequest'[p].next = "write",
               xpRequest'[p].oldBest > 0
        PROVE  xpBalance' # None
    <3>1. p # r /\ xpRequest'[p] = xpRequest[p] /\ Xp!Busy(p)
      BY <1>1, <2>2, XpFinish
    <3> QED BY <1>5, <2>2, <3>1 DEF XpInv, BalanceExists
  <2> QED BY <2>1, <2>2 DEF BalanceExists
<1>10. Xp!LedgerExplainsBalance'
  <2>1. Xp!OrZero(xpBalance) \in Int /\ xpLedger \in Int /\ xpForgotten \in Int
    BY <1>1, OrZeroType DEF Xp!TypeOK
  <2> HIDE DEF delta
  <2> QED BY <1>1, <1>2, <1>3, <1>5, <2>1 DEF XpInv, Xp!LedgerExplainsBalance, Xp!history
<1>11. ASSUME NEW b \in Assignments \ xpOverlapped', b # a
       PROVE  Lone(b)' /\ xpEarned'[b] = Xp!OrZero(xpBest'[b])
  <2>1. Lone(b) /\ xpEarned[b] = Xp!OrZero(xpBest[b])
    BY <1>1, <1>11 DEF XpInv, LoneWithoutOverlap, Xp!EarnedIsBest, Xp!history
  <2>2. \A p \in Requests : On(p, b)' => On(p, b) /\ xpRequest'[p] = xpRequest[p]
    BY <1>1, XpFinish
  <2> QED BY <1>1, <1>6, <1>11, <2>1, <2>2 DEF Lone, KnowsOld, KnowsNew
<1>12. ASSUME a \notin xpOverlapped'
       PROVE  /\ Lone(a)'
              /\ xpEarned'[a] = Xp!OrZero(xpBest'[a])
              /\ BestIn(xpScored'[a], Xp!OrZero(xpBest'[a]))
  <2>1. Lone(a) /\ xpEarned[a] = Xp!OrZero(xpBest[a])
    BY <1>1, <1>12 DEF XpInv, LoneWithoutOverlap, Xp!EarnedIsBest, Xp!history
  <2>2. xpRequest[r].oldBest = Xp!OrZero(xpBest[a]) /\ BestIn(xpScored[a], new)
    BY <1>1, <2>1 DEF Lone, KnowsOld, KnowsNew
  <2>3. \A p \in Requests : ~On(p, a)'
    BY <1>1, <2>1, XpFinish DEF Lone
  <2>4. Lone(a)'
    BY <2>3 DEF Lone, KnowsOld, KnowsNew
  <2>5. xpEarned'[a] = Xp!OrZero(xpBest'[a])
    BY <1>2, <1>6, <1>7, <2>1, <2>2
  <2> QED BY <1>1, <1>7, <2>2, <2>4, <2>5
<1>13. LoneWithoutOverlap' /\ Xp!EarnedIsBest'
  BY <1>11, <1>12 DEF LoneWithoutOverlap, Xp!EarnedIsBest
<1>14. BestKept'
  <2> SUFFICES ASSUME NEW b \in Assignments \ (xpOverlapped' \cup xpAbandoned'),
                      \A p \in Requests : ~On(p, b)'
               PROVE  BestIn(xpScored'[b], Xp!OrZero(xpBest'[b]))
    BY DEF BestKept
  <2>1. CASE b = a
    BY <1>12, <2>1
  <2>2. CASE b # a
    <3>1. \A p \in Requests : ~On(p, b)
      BY <1>1, <2>2, XpFinish DEF On
    <3> QED BY <1>1, <1>6, <2>2, <3>1 DEF XpInv, BestKept, Xp!history
  <2> QED BY <2>1, <2>2
<1> QED BY <1>8, <1>9, <1>10, <1>13, <1>14 DEF XpInv

LEMMA XpDiesStep ==
    ASSUME Xp!GoodConstants, XpInv, NEW r \in Requests, Xp!RequestDies(r)
    PROVE  XpInv'
<1>1. /\ Xp!TypeOK /\ Xp!Finish(r) /\ Xp!Busy(r) /\ xpRequest[r].assignment \in Assignments
      /\ xpAbandoned' = xpAbandoned \cup {xpRequest[r].assignment}
      /\ UNCHANGED <<Xp!tables, xpOverlapped, xpClamped, xpForgotten, xpChanges>>
  BY XpBusy DEF XpInv, Xp!RequestDies
<1>2. Xp!TypeOK'
  BY <1>1, XpFinish DEF Xp!TypeOK, Xp!tables
<1>3. BalanceExists'
  BY <1>1, XpFinish DEF XpInv, BalanceExists, Xp!tables
<1>4. Xp!LedgerExplainsBalance' /\ Xp!EarnedIsBest'
  BY <1>1 DEF XpInv, Xp!LedgerExplainsBalance, Xp!EarnedIsBest, Xp!tables
<1>5. ASSUME NEW b \in Assignments \ xpOverlapped' PROVE Lone(b)'
  <2>1. Lone(b)
    BY <1>1, <1>5 DEF XpInv, LoneWithoutOverlap
  <2>2. \A p \in Requests : On(p, b)' => On(p, b) /\ xpRequest'[p] = xpRequest[p]
    BY <1>1, XpFinish
  <2> QED BY <1>1, <2>1, <2>2 DEF Lone, KnowsOld, KnowsNew, Xp!tables
<1>6. BestKept'
  <2> SUFFICES ASSUME NEW b \in Assignments \ (xpOverlapped' \cup xpAbandoned'),
                      \A p \in Requests : ~On(p, b)'
               PROVE  BestIn(xpScored'[b], Xp!OrZero(xpBest'[b]))
    BY DEF BestKept
  <2>1. \A p \in Requests : ~On(p, b)
    BY <1>1, XpFinish DEF On
  <2> QED BY <1>1, <2>1 DEF XpInv, BestKept, Xp!tables
<1> QED BY <1>2, <1>3, <1>4, <1>5, <1>6 DEF XpInv, LoneWithoutOverlap

LEMMA XpAdjustStep ==
    ASSUME Xp!GoodConstants, XpInv, NEW d \in Deltas, Xp!Adjust(d)
    PROVE  XpInv'
<1>1. /\ Xp!TypeOK /\ d \in Int
      /\ UNCHANGED <<xpScored, xpBest, xpEarned, xpRemoved, xpRequest, xpOverlapped,
                     xpAbandoned, xpForgotten>>
      /\ xpLedger' = xpLedger + d
      /\ xpBalance' = Xp!AtLeastZero(Xp!Credited(d))
      /\ xpClamped' = (xpClamped \/ Xp!Credited(d) < 0 \/ (xpBalance = None /\ d < 0))
  BY DEF Xp!GoodConstants, XpInv, Xp!Adjust
<1>2. xpBalance \in Int \cup {None} /\ xpLedger \in Int /\ xpForgotten \in Int
      /\ None \notin Int
  BY <1>1 DEF Xp!GoodConstants, Xp!TypeOK
<1>3. ~xpClamped' => ~xpClamped /\ ~(Xp!Credited(d) < 0) /\ ~(xpBalance = None /\ d < 0)
  BY <1>1, Zenon
<1>4. Xp!Credited(d) \in Int /\ xpBalance' \in Int /\ xpBalance' # None
  <2>1. Xp!Credited(d) \in Int
    BY <1>1, <1>2 DEF Xp!Credited, Xp!AtLeastZero
  <2>2. xpBalance' \in Int
    BY <1>1, <2>1 DEF Xp!AtLeastZero
  <2> QED BY <1>2, <2>1, <2>2
<1>5. Xp!TypeOK'
  <2>1. xpChanges' \in 0 .. MaxChanges
    BY <1>1 DEF Xp!GoodConstants, Xp!TypeOK, Xp!Adjust, Xp!Changes
  <2>2. xpLedger' \in Int /\ xpBalance' \in Int \cup {None}
    BY <1>1, <1>2, <1>4
  <2>3. xpClamped' \in BOOLEAN
    BY <1>1
  <2> QED BY <1>1, <2>1, <2>2, <2>3 DEF Xp!TypeOK
<1>6. BalanceExists'
  BY <1>4 DEF BalanceExists
<1>7. Xp!LedgerExplainsBalance'
  <2> DEFINE rows == xpLedger + xpForgotten
  <2>1. /\ Xp!OrZero(xpBalance') = xpBalance' /\ rows \in Int
        /\ xpLedger' + xpForgotten' = rows + d
    BY <1>1, <1>2, <1>4 DEF Xp!OrZero, Xp!GoodConstants
  <2> HIDE DEF rows
  <2>2. CASE xpBalance = None
    <3>1. Xp!Credited(d) = Xp!AtLeastZero(d)
      BY <2>2 DEF Xp!Credited
    <3>2. rows <= 0 /\ (~xpClamped => rows = 0)
      BY <2>2 DEF XpInv, Xp!LedgerExplainsBalance, Xp!OrZero, rows
    <3>3. xpBalance' = Xp!AtLeastZero(d)
      BY <1>1, <3>1 DEF Xp!AtLeastZero
    <3>4. rows + d <= xpBalance'
      BY <1>1, <2>1, <3>2, <3>3 DEF Xp!AtLeastZero
    <3>5. ASSUME ~xpClamped' PROVE xpBalance' = rows + d
      <4>1. ~xpClamped /\ d >= 0
        BY <1>1, <1>3, <2>2, <3>5
      <4> QED BY <1>1, <2>1, <3>2, <3>3, <4>1 DEF Xp!AtLeastZero
    <3> QED BY <2>1, <3>4, <3>5 DEF Xp!LedgerExplainsBalance
  <2>3. CASE xpBalance # None
    <3>1. Xp!Credited(d) = xpBalance + d /\ xpBalance \in Int
      BY <1>2, <2>3 DEF Xp!Credited
    <3>2. rows <= xpBalance /\ (~xpClamped => rows = xpBalance)
      BY <2>3 DEF XpInv, Xp!LedgerExplainsBalance, Xp!OrZero, rows
    <3>3. rows + d <= xpBalance'
      BY <1>1, <2>1, <3>1, <3>2 DEF Xp!AtLeastZero
    <3>4. ASSUME ~xpClamped' PROVE xpBalance' = rows + d
      <4>1. ~xpClamped /\ xpBalance + d >= 0
        BY <1>1, <1>3, <3>1, <3>4
      <4> QED BY <1>1, <2>1, <3>1, <3>2, <4>1 DEF Xp!AtLeastZero
    <3> QED BY <2>1, <3>3, <3>4 DEF Xp!LedgerExplainsBalance
  <2> QED BY <2>2, <2>3
<1>8. LoneWithoutOverlap' /\ Xp!EarnedIsBest' /\ BestKept'
  BY <1>1 DEF XpInv, LoneWithoutOverlap, Lone, KnowsOld, KnowsNew, On, Xp!Busy, Xp!EarnedIsBest,
              BestKept
<1> QED BY <1>5, <1>6, <1>7, <1>8 DEF XpInv

\* A removed assignment takes its ledger rows along, into what is forgotten.
LEMMA XpRemoveStep ==
    ASSUME Xp!GoodConstants, XpInv, NEW a \in Assignments, Xp!RemoveAssignment(a)
    PROVE  XpInv'
<1>1. /\ Xp!TypeOK
      /\ xpRemoved' = xpRemoved \cup {a}
      /\ xpScored' = [xpScored EXCEPT ![a] = [n \in Tries |-> None]]
      /\ xpBest' = [xpBest EXCEPT ![a] = None]
      /\ xpEarned' = [xpEarned EXCEPT ![a] = 0]
      /\ xpLedger' = xpLedger - xpEarned[a] /\ xpForgotten' = xpForgotten + xpEarned[a]
      /\ xpRequest' = [r \in Requests |->
             IF Xp!Busy(r) /\ xpRequest[r].assignment = a THEN None ELSE xpRequest[r]]
      /\ UNCHANGED <<xpBalance, xpOverlapped, xpAbandoned, xpClamped, xpChanges>>
  BY DEF XpInv, Xp!RemoveAssignment
<1>2. xpLedger \in Int /\ xpForgotten \in Int /\ xpEarned[a] \in Int
  BY <1>1 DEF Xp!TypeOK
<1>3. Xp!TypeOK'
  <2>1. xpScored' \in [Assignments -> [Tries -> Xp!Score \cup {None}]]
    BY <1>1 DEF Xp!TypeOK
  <2>2. xpBest' \in [Assignments -> Xp!Scores \cup {None}]
        /\ xpEarned' \in [Assignments -> Int]
    BY <1>1 DEF Xp!TypeOK
  <2>3. xpRequest' \in [Requests -> Xp!InFlight \cup {None}]
    BY <1>1 DEF Xp!TypeOK
  <2>4. xpLedger' \in Int /\ xpForgotten' \in Int
    BY <1>1, <1>2
  <2> QED BY <1>1, <2>1, <2>2, <2>3, <2>4 DEF Xp!TypeOK
<1>4. /\ \A b \in Assignments : b # a =>
             /\ xpScored'[b] = xpScored[b] /\ xpBest'[b] = xpBest[b]
             /\ xpEarned'[b] = xpEarned[b]
      /\ xpScored'[a] = [n \in Tries |-> None] /\ xpBest'[a] = None /\ xpEarned'[a] = 0
  BY <1>1 DEF Xp!TypeOK
<1>5. \A r \in Requests :
         /\ Xp!Busy(r)' => Xp!Busy(r) /\ xpRequest'[r] = xpRequest[r]
         /\ \A b \in Assignments : On(r, b)' <=> b # a /\ On(r, b)
  BY <1>1 DEF Xp!Busy, On
<1>6. BalanceExists'
  <2>1. ASSUME NEW b \in Assignments, Xp!OrZero(xpBest'[b]) > 0 PROVE xpBalance' # None
    <3>1. b # a
      BY <1>4, <2>1 DEF Xp!OrZero
    <3> QED BY <1>1, <1>4, <2>1, <3>1 DEF XpInv, BalanceExists
  <2>2. ASSUME NEW r \in Requests, Xp!Busy(r)', xpRequest'[r].next = "write",
               xpRequest'[r].oldBest > 0
        PROVE  xpBalance' # None
    BY <1>1, <1>5, <2>2 DEF XpInv, BalanceExists
  <2> QED BY <2>1, <2>2 DEF BalanceExists
<1>7. Xp!LedgerExplainsBalance'
  <2>1. xpLedger' + xpForgotten' = xpLedger + xpForgotten
    BY <1>1, <1>2
  <2> QED BY <1>1, <2>1 DEF XpInv, Xp!LedgerExplainsBalance
<1>8. ASSUME NEW b \in Assignments \ xpOverlapped'
      PROVE  Lone(b)' /\ xpEarned'[b] = Xp!OrZero(xpBest'[b])
  <2>1. Lone(b) /\ xpEarned[b] = Xp!OrZero(xpBest[b])
    BY <1>1, <1>8 DEF XpInv, LoneWithoutOverlap, Xp!EarnedIsBest
  <2>2. CASE b = a
    BY <1>4, <1>5, <2>2 DEF Lone, KnowsOld, KnowsNew, Xp!OrZero
  <2>3. CASE b # a
    <3>1. \A r \in Requests : On(r, b)' => On(r, b) /\ xpRequest'[r] = xpRequest[r]
      BY <1>5 DEF On
    <3> QED BY <1>4, <1>8, <2>1, <2>3, <3>1 DEF Lone, KnowsOld, KnowsNew
  <2> QED BY <2>2, <2>3
<1>9. BestKept'
  <2> SUFFICES ASSUME NEW b \in Assignments \ (xpOverlapped' \cup xpAbandoned'),
                      \A r \in Requests : ~On(r, b)'
               PROVE  BestIn(xpScored'[b], Xp!OrZero(xpBest'[b]))
    BY DEF BestKept
  <2>1. CASE b = a
    BY <1>4, <2>1 DEF BestIn, Xp!OrZero
  <2>2. CASE b # a
    BY <1>1, <1>4, <1>5, <2>2 DEF XpInv, BestKept
  <2> QED BY <2>1, <2>2
<1> QED BY <1>3, <1>6, <1>7, <1>8, <1>9 DEF XpInv, LoneWithoutOverlap, Xp!EarnedIsBest

-----------------------------------------------------------------------------
(***************************************************************************)
(* The invariant and what follows from it.                                 *)
(***************************************************************************)

LEMMA NextXpInv ==
    ASSUME Xp!GoodConstants, XpInv, [Xp!Next]_(Xp!vars)
    PROVE  XpInv'
<1>1. ASSUME NEW r \in Requests, Xp!RequestStep(r) PROVE XpInv'
  <2>1. ASSUME NEW a \in Assignments, NEW n \in Tries, NEW x \in Xp!Scores,
               NEW final \in BOOLEAN, Xp!WriteScore(r, a, n, x, final)
        PROVE  XpInv'
    BY <2>1, XpScoreStep
  <2>2. CASE Xp!SyncFindGraded(r) \/ Xp!SyncFindBest(r)
    BY <2>2, XpReadStep
  <2>3. CASE Xp!SyncWrite(r)
    BY <2>3, XpWriteStep
  <2>4. CASE Xp!RequestDies(r)
    BY <2>4, XpDiesStep
  <2> QED BY <1>1, <2>1, <2>2, <2>3, <2>4 DEF Xp!RequestStep
<1>2. ASSUME NEW d \in Deltas, Xp!Adjust(d) PROVE XpInv'
  BY <1>2, XpAdjustStep
<1>4. ASSUME NEW a \in Assignments, Xp!RemoveAssignment(a) PROVE XpInv'
  BY <1>4, XpRemoveStep
<1>3. CASE UNCHANGED Xp!vars
  BY <1>3 DEF XpInv, Xp!TypeOK, BalanceExists, Xp!LedgerExplainsBalance, LoneWithoutOverlap, Lone,
              KnowsOld, KnowsNew, On, Xp!Busy, Xp!EarnedIsBest, BestKept, Xp!vars, Xp!tables,
              Xp!history
<1> QED BY <1>1, <1>2, <1>3, <1>4 DEF Xp!Next

\* In every reachable state the properties hold together with what a lone
\* synchronisation still knows of the old best and of the scores.
THEOREM XpInvariance ==
    ASSUME Xp!GoodConstants PROVE Xp!Spec => []XpInv
<1>1. Xp!Init => XpInv
  BY InitXpInv
<1>2. XpInv /\ [Xp!Next]_(Xp!vars) => XpInv'
  BY NextXpInv
<1> QED BY <1>1, <1>2, PTL DEF Xp!Spec

\* Undisturbed assignments: the best is that of the scores as they are.
LEMMA BestFollows ==
    ASSUME Xp!GoodConstants, XpInv
    PROVE  Xp!BestFollowsScores
<1> SUFFICES ASSUME NEW a \in Assignments \ (xpOverlapped \cup xpAbandoned),
                    \A r \in Requests : Xp!Busy(r) => xpRequest[r].assignment # a
             PROVE  Xp!IsBestOf(a, Xp!OrZero(xpBest[a]))
  BY DEF Xp!BestFollowsScores
<1>1. \A r \in Requests : ~On(r, a)
  BY DEF On
<1>2. BestIn(xpScored[a], Xp!OrZero(xpBest[a]))
  BY <1>1 DEF XpInv, BestKept
<1> QED BY <1>2, BestInRow

\* Every state of the accounting has the declared types.
THEOREM XpTypeCorrect == ASSUME Xp!GoodConstants PROVE Xp!Spec => []Xp!TypeOK
BY XpInvariance, PTL DEF XpInv

\* xp.service.ts:53-89: an assignment whose requests did not overlap has
\* earned its best score, no more and no less.
THEOREM EarnedOnce == ASSUME Xp!GoodConstants PROVE Xp!Spec => []Xp!EarnedIsBest
BY XpInvariance, PTL DEF XpInv

\* xp.service.ts:26-69: the best score follows the attempts, down as well as
\* up, once the requests are through.
THEOREM RegradesArrive ==
    ASSUME Xp!GoodConstants PROVE Xp!Spec => []Xp!BestFollowsScores
<1>1. XpInv => Xp!BestFollowsScores
  BY BestFollows
<1> QED BY <1>1, XpInvariance, PTL

-----------------------------------------------------------------------------
(***************************************************************************)
(* All services.  The one that is followed keeps its invariant; the others *)
(* have no state.                                                          *)
(***************************************************************************)
ServicesInv ==
    /\ service = "engagement" => LessonInv
    /\ service = "access" => AccessInv
    /\ service = "grading" => GradesInv
    /\ service = "mastery" => TopicInv
    /\ service = "experience" => XpInv
    /\ service = "media" => MediaInv
    /\ service = "support" => DeskInv

LEMMA ServicesInit ==
    ASSUME Init
    PROVE  ServicesInv
<1>1. service = "engagement" => LessonInv
  BY LessonInit, EngagementAssumption DEF Init
<1>2. service = "access" => AccessInv
  BY AccessInit, AccessAssumption DEF Init
<1>3. service = "grading" => GradesInv
  BY GradesInit, GradesAssumption DEF Init
<1>4. service = "mastery" => TopicInv
  BY TopicInit, TopicAssumption DEF Init
<1>5. service = "media" => MediaInv
  BY MediaInit, MediaAssumption DEF Init
<1>6. service = "support" => DeskInv
  BY DeskInit, DeskAssumption DEF Init
<1>7. service = "experience" => XpInv
  BY InitXpInv, XpAssumption DEF Init
<1> QED BY <1>1, <1>2, <1>3, <1>4, <1>5, <1>6, <1>7 DEF ServicesInv

\* A step of the composition is one of the service that is followed, or none.
LEMMA ServicesStep ==
    ASSUME ServicesInv, [Next]_serviceVars
    PROVE  ServicesInv'
<1>1. service' = service
  BY DEF Next, serviceVars
<1>2. ASSUME service = "engagement" PROVE LessonInv'
  <2>1. [Lesson!Next]_(Lesson!engagementVars)
    BY <1>2 DEF Next, serviceVars, engVars, Lesson!engagementVars
  <2> QED BY <1>2, <2>1, LessonStep, EngagementAssumption DEF ServicesInv
<1>3. ASSUME service = "access" PROVE AccessInv'
  <2>1. [Access!Next]_(Access!accessVars)
    BY <1>3 DEF Next, serviceVars, accVars, Access!accessVars
  <2> QED BY <1>3, <2>1, AccessStep, AccessAssumption DEF ServicesInv
<1>4. ASSUME service = "grading" PROVE GradesInv'
  <2>1. [Grades!Next]_(Grades!gradingVars)
    BY <1>4 DEF Next, serviceVars, graVars, Grades!gradingVars
  <2> QED BY <1>4, <2>1, GradesStep, GradesAssumption DEF ServicesInv
<1>5. ASSUME service = "mastery" PROVE TopicInv'
  <2>1. [Topic!Next]_(Topic!masteryVars)
    BY <1>5 DEF Next, serviceVars, masVars, Topic!masteryVars
  <2> QED BY <1>5, <2>1, TopicStep, TopicAssumption DEF ServicesInv
<1>6. ASSUME service = "media" PROVE MediaInv'
  <2>1. [Media!Next]_(Media!mediaVars)
    BY <1>6 DEF Next, serviceVars, medVars, Media!mediaVars
  <2> QED BY <1>6, <2>1, MediaStep, MediaAssumption DEF ServicesInv
<1>7. ASSUME service = "support" PROVE DeskInv'
  <2>1. [Desk!Next]_(Desk!deskVars)
    BY <1>7 DEF Next, serviceVars, deskVars, Desk!deskVars, Desk!rows, Desk!hist
  <2> QED BY <1>7, <2>1, DeskStep, DeskAssumption DEF ServicesInv
<1>8. ASSUME service = "experience" PROVE XpInv'
  <2>1. [Xp!Next]_(Xp!vars)
    BY <1>8 DEF Next, serviceVars, xpVars, Xp!vars, Xp!tables, Xp!history
  <2> QED BY <1>8, <2>1, NextXpInv, XpAssumption DEF ServicesInv
<1> QED BY <1>1, <1>2, <1>3, <1>4, <1>5, <1>6, <1>7, <1>8 DEF ServicesInv

\* In every reachable state the service that is followed keeps its invariant.
THEOREM ServicesInvariance == Spec => []ServicesInv
<1>1. Init => ServicesInv
  BY ServicesInit
<1>2. ServicesInv /\ [Next]_serviceVars => ServicesInv'
  BY ServicesStep
<1> QED BY <1>1, <1>2, PTL DEF Spec

\* The rows and the calls of every service have the declared types.
THEOREM ServicesTypes == Spec => []TypeOK
<1>1. ServicesInv => TypeOK
  BY DEF ServicesInv, TypeOK, LessonInv, AccessInv, GradesInv, TopicInv, XpInv, MediaInv, DeskInv
<1> QED BY <1>1, ServicesInvariance, PTL

\* However the student's page, the curators and support overlap, a completed
\* lesson counts as watched and is completed in the graph; without overlap,
\* credit stands until it is revoked and no percentage is taken back.
THEOREM CreditIsKept == Spec => []CreditStands
<1>1. ServicesInv => CreditStands
  BY DEF ServicesInv, CreditStands, LessonInv
<1> QED BY <1>1, ServicesInvariance, PTL

\* Calls whose reads are still so when they write announce each opening
\* exactly once or lose its notice; and the lesson of a notice is open in the
\* list of the course and on its page, unless it was closed again.
THEOREM ToldOnce == Spec => []OpenedToldOnce
<1>1. AccessInv => Access!ToldOfOpen
  BY DEF AccessInv, StillByHand, ByHand, Access!ToldOfOpen, Access!EvaluateMany, Access!Evaluate,
         Access!GetOne, Access!IsOpen
<1>2. ServicesInv => OpenedToldOnce
  BY <1>1 DEF ServicesInv, OpenedToldOnce, AccessInv
<1> QED BY <1>2, ServicesInvariance, PTL

\* The score of an attempt that has been handed in or graded, calmly, is the
\* sum of the marks of its answers and worth at most the XP of the assignment;
\* no automatic mark is given to a wrong answer.
THEOREM ScoreIsTheSum == Spec => []ScoreFitsAnswers
<1>1. ServicesInv => ScoreFitsAnswers
  BY ScoreFits DEF ServicesInv, ScoreFitsAnswers
<1> QED BY <1>1, ServicesInvariance, PTL

\* Gradings that do not overlap leave the mastery, its copy in the graph and
\* the struggles there as the grades are, and tell each rise in rank once;
\* overlapping or stopped, they never part the graph from the table.
THEOREM MasteryIsCurrent == Spec => []MasteryFollowsGrades
<1>1. ServicesInv => MasteryFollowsGrades
  BY MasteryFollows DEF ServicesInv, MasteryFollowsGrades
<1> QED BY <1>1, ServicesInvariance, PTL

\* Balance and ledger agree whatever synchronisations and adjustments race or
\* die, until an adjustment is cut off at zero; the student never has less
\* than the ledger says.
THEOREM LedgerIsExplained == Spec => []LedgerExplainsBalance
<1>1. ServicesInv => LedgerExplainsBalance
  BY DEF ServicesInv, LedgerExplainsBalance, XpInv
<1> QED BY <1>1, ServicesInvariance, PTL

\* An assignment whose requests did not overlap has earned its best score, no
\* more and no less, and that follows the attempts, down as well as up, once
\* the requests are through and none died.
THEOREM EarnedAsScored == Spec => []EarnedFollowsScores
<1>1. ServicesInv => EarnedFollowsScores
  BY BestFollows, XpAssumption
     DEF ServicesInv, EarnedFollowsScores, XpInv, Xp!EarnedFollowsScores
<1> QED BY <1>1, ServicesInvariance, PTL

\* However many uploads and removals overlap, the card of a course points at
\* no object that is gone, but for a call that has still to write or a server
\* that stopped before it did.
THEOREM NoDeadLink == Spec => []LinksAreStored
<1>1. ServicesInv => LinksAreStored
  BY DEF ServicesInv, LinksAreStored, MediaInv
<1> QED BY <1>1, ServicesInvariance, PTL

\* A thread closed while no other request is on it gets no message until it is
\* opened again, whoever writes later.
THEOREM NoLateMessage == Spec => []ClosedIsClosed
<1>1. ServicesInv => ClosedIsClosed
  BY DEF ServicesInv, ClosedIsClosed, DeskInv
<1> QED BY <1>1, ServicesInvariance, PTL

\* Whoever awaits a message has a badge of theirs that counts it, and no unread
\* notice is beyond the page of its badge.
THEOREM BadgesTell == Spec => []BadgeForWhatAwaits
<1>1. ServicesInv => BadgeForWhatAwaits
  BY BadgesFollow, DeskAssumption DEF ServicesInv, BadgeForWhatAwaits
<1> QED BY <1>1, ServicesInvariance, PTL

=============================================================================
