------------------------------ MODULE Counting ------------------------------
(***************************************************************************)
(* Facts that several proofs rest on: sequences, least elements, and sums. *)
(* An induction is written as a search for the smallest counterexample,    *)
(* among numbers or in a set of finite sets that is ordered by inclusion.  *)
(***************************************************************************)
EXTENDS Integers, Sequences, Functions, FiniteSetTheorems, WellFoundedInduction, TLAPS

(* The elements of a sequence. *)
LEMMA SeqElem ==
    ASSUME NEW S, NEW s \in Seq(S)
    PROVE  DOMAIN s = 1..Len(s) /\ \A k \in 1..Len(s) : s[k] \in S
  OBVIOUS

(* Two sequences joined. *)
LEMMA SeqJoin ==
    ASSUME NEW S, NEW s \in Seq(S), NEW t \in Seq(S)
    PROVE  /\ s \o t \in Seq(S) /\ Len(s \o t) = Len(s) + Len(t)
           /\ \A k \in 1..(Len(s) + Len(t)) : (s \o t)[k] = IF k <= Len(s) THEN s[k] ELSE t[k - Len(s)]
  OBVIOUS

(* Joining nothing changes nothing. *)
LEMMA SeqJoinNone ==
    ASSUME NEW S, NEW s \in Seq(S)
    PROVE  <<>> \o s = s /\ s \o <<>> = s
  OBVIOUS

(* An element appended comes last. *)
LEMMA SeqAppend ==
    ASSUME NEW S, NEW s \in Seq(S), NEW x \in S
    PROVE  /\ Append(s, x) \in Seq(S) /\ Len(Append(s, x)) = Len(s) + 1 /\ Append(s, x) # <<>>
           /\ Append(s, x)[Len(s) + 1] = x /\ \A k \in 1..Len(s) : Append(s, x)[k] = s[k]
           /\ Append(s, x) = s \o <<x>>
  OBVIOUS

(* The part of a sequence from one place to another. *)
LEMMA SeqCut ==
    ASSUME NEW S, NEW s, NEW m \in Int, NEW n \in Int, \A k \in m..n : s[k] \in S
    PROVE  /\ SubSeq(s, m, n) \in Seq(S) /\ Len(SubSeq(s, m, n)) = IF n < m THEN 0 ELSE n - m + 1
           /\ \A k \in 1..(n - m + 1) : SubSeq(s, m, n)[k] = s[m + k - 1]
           /\ n < m => SubSeq(s, m, n) = <<>>
  OBVIOUS

(* A nonempty set of natural numbers has a least element. *)
LEMMA LeastNat ==
    ASSUME NEW T \in SUBSET Nat, T # {}
    PROVE  \E x \in T : \A y \in T : x <= y
<1> DEFINE R == OpToRel(<, Nat)
<1>1. IsWellFoundedOn(R, Nat)
  BY NatLessThanWellFounded, Zenon
<1>2. \A x, y \in Nat : y < x => <<y, x>> \in R
  BY DEF OpToRel
<1> HIDE DEF R
<1>3. PICK x \in T : \A y \in T : ~(<<y, x>> \in R)
  BY <1>1, WFMin, Zenon
<1>4. ASSUME NEW y \in T PROVE x <= y
  <2>1. x \in Nat /\ y \in Nat
    OBVIOUS
  <2>2. ~(y < x)
    BY <1>2, <1>3, <2>1, Zenon
  <2> QED BY <2>1, <2>2
<1> QED BY <1>4

(* Among finite sets one is minimal. *)
LEMMA SmallestSet ==
    ASSUME NEW F, F # {}, \A T \in F : IsFiniteSet(T)
    PROVE  \E T \in F : \A U \in F : ~(U \subseteq T /\ U # T)
<1> DEFINE S == UNION F
<1>1. IsWellFoundedOn(StrictSubsetOrdering(S), FiniteSubsetsOf(S))
  BY FS_StrictSubsetOrderingWellFounded
<1>2. F \subseteq FiniteSubsetsOf(S)
  BY DEF FiniteSubsetsOf
<1>3. PICK T \in F : \A U \in F : <<U, T>> \notin StrictSubsetOrdering(S)
  BY <1>1, <1>2, WFMin, Zenon
<1>4. \A U \in F : U \subseteq T /\ U # T => <<U, T>> \in StrictSubsetOrdering(S)
  BY DEF StrictSubsetOrdering
<1>5. \A U \in F : ~(U \subseteq T /\ U # T)
  <2> SUFFICES ASSUME NEW U \in F, U \subseteq T, U # T PROVE FALSE
    OBVIOUS
  <2> QED BY <1>3, <1>4, Zenon
<1> QED BY <1>5, Zenon

(* A set of subsets of a finite set S that holds with every member a smaller
   one is empty. *)
LEMMA NoCounterexample ==
    ASSUME NEW S, IsFiniteSet(S), NEW F, F \subseteq SUBSET S
    PROVE  (\A T \in F : \E U \in F : U \subseteq T /\ U # T) => F = {}
<1>1. \A T \in F : IsFiniteSet(T)
  BY FS_Subset
<1>2. F # {} => \E T \in F : \A U \in F : ~(U \subseteq T /\ U # T)
  BY <1>1, SmallestSet
<1> QED BY <1>2, Zenon

-----------------------------------------------------------------------------
(* The sum of f over a set, as Folds defines it: the sums of its subsets,
   each from that of the subset without a chosen member. *)
Pick(s) == CHOOSE x \in s : TRUE

SumsOn(f, S, g) ==
    g = [s \in SUBSET S |-> IF s = {} THEN 0 ELSE f[Pick(s)] + g[s \ {Pick(s)}]]

(* The chosen member is one. *)
LEMMA PickIn == ASSUME NEW s, s # {} PROVE Pick(s) \in s
  BY DEF Pick

(* The sum is the value at S of a function that adds up the subsets of S. *)
LEMMA SumUnfolds ==
    ASSUME NEW f, NEW S
    PROVE  SumFunctionOnSet(f, S) = (CHOOSE g : SumsOn(f, S, g))[S]
  BY DEF SumFunctionOnSet, FoldFunctionOnSet, MapThenFoldSet, SumsOn, Pick

(* What such a function returns for a subset. *)
LEMMA SumsRec ==
    ASSUME NEW f, NEW S, NEW g, SumsOn(f, S, g), NEW U \in SUBSET S
    PROVE  /\ U = {} => g[U] = 0
           /\ U # {} => /\ g[U] = f[Pick(U)] + g[U \ {Pick(U)}]
                        /\ U \ {Pick(U)} \in SUBSET S
                        /\ U \ {Pick(U)} # U
  BY PickIn, Zenon DEF SumsOn

(* Two such functions agree where both are defined, by way of a smallest
   subset where they do not. *)
LEMMA SumsAgree ==
    ASSUME NEW f, NEW S, NEW T \in SUBSET S, IsFiniteSet(S),
           NEW g, NEW h, SumsOn(f, S, g), SumsOn(f, T, h), NEW U \in SUBSET T
    PROVE  g[U] = h[U]
<1> DEFINE F == {V \in SUBSET T : g[V] # h[V]}
<1>1. ASSUME NEW V \in F
      PROVE  \E W \in F : W \subseteq V /\ W # V
  <2>1. V \in SUBSET S /\ V \in SUBSET T
    OBVIOUS
  <2>2. V # {}
    BY <2>1, SumsRec
  <2>3. g[V] = f[Pick(V)] + g[V \ {Pick(V)}] /\ h[V] = f[Pick(V)] + h[V \ {Pick(V)}]
    BY <2>1, <2>2, SumsRec
  <2>4. V \ {Pick(V)} \in SUBSET T /\ V \ {Pick(V)} # V
    BY <2>1, <2>2, SumsRec
  <2>5. g[V \ {Pick(V)}] # h[V \ {Pick(V)}]
    BY <2>3
  <2>6. V \ {Pick(V)} \in F
    BY <2>4, <2>5
  <2> QED BY <2>4, <2>6
<1>2. IsFiniteSet(T) /\ F \subseteq SUBSET T
  BY FS_Subset
<1> HIDE DEF F
<1>3. F = {}
  BY <1>1, <1>2, NoCounterexample
<1> QED BY <1>3 DEF F

(* The recursion has a solution on the subsets of every finite set. *)
LEMMA SumsExist ==
    ASSUME NEW f, NEW S, IsFiniteSet(S)
    PROVE  \E g : SumsOn(f, S, g)
<1> DEFINE F == {T \in SUBSET S : ~ \E g : SumsOn(f, T, g)}
<1>1. ASSUME NEW T \in F, \A U \in F : ~(U \subseteq T /\ U # T)
      PROVE  FALSE
  <2> DEFINE part(U) == CHOOSE g : SumsOn(f, U, g)
             whole == [U \in SUBSET T |->
                         IF U = {} THEN 0
                         ELSE f[Pick(U)] + part(U \ {Pick(U)})[U \ {Pick(U)}]]
  <2>1. ASSUME NEW U \in SUBSET T, U # T
        PROVE  SumsOn(f, U, part(U))
    <3>1. U \in SUBSET S /\ U \notin F
      BY <1>1, <2>1
    <3> QED BY <3>1
  <2> HIDE DEF part
  <2>2. ASSUME NEW U \in SUBSET T, U # {}
        PROVE  whole[U \ {Pick(U)}] = part(U \ {Pick(U)})[U \ {Pick(U)}]
    <3> DEFINE V == U \ {Pick(U)}
    <3>1. V \in SUBSET T /\ V # T /\ IsFiniteSet(V)
      <4>1. Pick(U) \in U
        BY <2>2, PickIn
      <4>2. IsFiniteSet(T)
        BY FS_Subset
      <4>3. V \in SUBSET T /\ V # T
        BY <4>1
      <4> QED BY <4>2, <4>3, FS_Subset
    <3>2. SumsOn(f, V, part(V))
      BY <3>1, <2>1
    <3> HIDE DEF V
    <3>3. CASE V = {}
      BY <3>1, <3>2, <3>3, SumsRec DEF V
    <3>4. CASE V # {}
      <4> DEFINE W == V \ {Pick(V)}
      <4>1. part(V)[V] = f[Pick(V)] + part(V)[W] /\ W \in SUBSET V
        BY <3>2, <3>4, SumsRec
      <4>2. W \in SUBSET T /\ W # T
        BY <4>1, <3>1
      <4>3. SumsOn(f, W, part(W))
        BY <4>2, <2>1
      <4> HIDE DEF W
      <4>4. part(V)[W] = part(W)[W]
        BY <3>1, <3>2, <4>1, <4>3, SumsAgree
      <4>5. whole[V] = f[Pick(V)] + part(W)[W]
        BY <3>1, <3>4 DEF W
      <4> QED BY <4>1, <4>4, <4>5 DEF V
    <3> QED BY <3>3, <3>4
  <2>3. SumsOn(f, T, whole)
    BY <2>2, Zenon DEF SumsOn
  <2> QED BY <2>3
<1>2. IsFiniteSet(S) /\ F \subseteq SUBSET S
  OBVIOUS
<1> HIDE DEF F
<1>3. F = {}
  BY <1>1, <1>2, NoCounterexample
<1> QED BY <1>3 DEF F

(* What SumFunctionOnSet returns, by the choice of one member. *)
LEMMA SumRec ==
    ASSUME NEW f, NEW S, IsFiniteSet(S)
    PROVE  /\ S = {} => SumFunctionOnSet(f, S) = 0
           /\ S # {} => SumFunctionOnSet(f, S)
                          = f[Pick(S)] + SumFunctionOnSet(f, S \ {Pick(S)})
<1> DEFINE g == CHOOSE g : SumsOn(f, S, g)
           T == S \ {Pick(S)}
           h == CHOOSE h : SumsOn(f, T, h)
<1>1. SumsOn(f, S, g) /\ SumFunctionOnSet(f, S) = g[S]
  BY SumsExist, SumUnfolds
<1>2. IsFiniteSet(T)
  BY FS_Subset
<1>3. SumsOn(f, T, h) /\ SumFunctionOnSet(f, T) = h[T]
  <2> HIDE DEF T
  <2> QED BY <1>2, SumsExist, SumUnfolds
<1> HIDE DEF g, h
<1>4. g[T] = h[T]
  <2>1. T \in SUBSET S /\ T \in SUBSET T
    OBVIOUS
  <2> QED BY <1>1, <1>3, <2>1, SumsAgree
<1>5. S \in SUBSET S
  OBVIOUS
<1> QED BY <1>1, <1>3, <1>4, <1>5, SumsRec

(* The sum of integers is an integer. *)
LEMMA SumInt ==
    ASSUME NEW f, NEW S, IsFiniteSet(S), \A x \in S : f[x] \in Int
    PROVE  SumFunctionOnSet(f, S) \in Int
<1> DEFINE F == {T \in SUBSET S : SumFunctionOnSet(f, T) \notin Int}
<1>1. ASSUME NEW T \in F
      PROVE  \E U \in F : U \subseteq T /\ U # T
  <2> DEFINE U == T \ {Pick(T)}
  <2>1. IsFiniteSet(T)
    BY FS_Subset
  <2>2. T # {}
    <3>1. SumFunctionOnSet(f, T) \notin Int
      OBVIOUS
    <3>2. T = {} => SumFunctionOnSet(f, T) = 0
      BY <2>1, SumRec, Zenon
    <3> QED BY <3>1, <3>2
  <2>3. Pick(T) \in T
    BY <2>2, PickIn
  <2>4. SumFunctionOnSet(f, T) = f[Pick(T)] + SumFunctionOnSet(f, U)
    BY <2>1, <2>2, SumRec
  <2>5. U \in SUBSET S /\ U \subseteq T /\ U # T /\ f[Pick(T)] \in Int
    BY <2>3
  <2>6. SumFunctionOnSet(f, U) \notin Int
    BY <2>4, <2>5
  <2>7. U \in F
    BY <2>5, <2>6
  <2> QED BY <2>5, <2>7
<1>2. F \subseteq SUBSET S
  OBVIOUS
<1> HIDE DEF F
<1>3. F = {}
  BY <1>1, <1>2, NoCounterexample
<1> QED BY <1>3 DEF F

(* Any member may be taken out of a sum: it does not depend on the choices. *)
LEMMA SumRemove ==
    ASSUME NEW f, NEW S, IsFiniteSet(S), \A x \in S : f[x] \in Int, NEW w \in S
    PROVE  SumFunctionOnSet(f, S) = f[w] + SumFunctionOnSet(f, S \ {w})
<1> DEFINE F == {T \in SUBSET S : \E x \in T :
                   SumFunctionOnSet(f, T) # f[x] + SumFunctionOnSet(f, T \ {x})}
<1>1. ASSUME NEW T \in F
      PROVE  \E U \in F : U \subseteq T /\ U # T
  <2>1. PICK x \in T : SumFunctionOnSet(f, T) # f[x] + SumFunctionOnSet(f, T \ {x})
    OBVIOUS
  <2> DEFINE c == Pick(T)
             U == T \ {c}
             V == T \ {x}
             W == U \ {x}
  <2>2. IsFiniteSet(T) /\ IsFiniteSet(U) /\ IsFiniteSet(V) /\ IsFiniteSet(W)
    <3>1. T \in SUBSET S /\ U \in SUBSET S /\ V \in SUBSET S /\ W \in SUBSET S
      OBVIOUS
    <3> HIDE DEF U, V, W
    <3> QED BY <3>1, FS_Subset
  <2>3. c \in T
    BY PickIn
  <2>4. SumFunctionOnSet(f, T) = f[c] + SumFunctionOnSet(f, U)
    BY <2>2, SumRec
  <2> HIDE DEF c
  <2>5. x # c
    BY <2>1, <2>4, Zenon
  <2>6. x \in U /\ c \in V /\ W = V \ {c}
    BY <2>3, <2>5
  <2>7. U \in SUBSET S /\ U \subseteq T /\ U # T /\ V \in SUBSET S /\ V \subseteq T /\ V # T
    BY <2>3
  <2>8. CASE U \in F
    BY <2>7, <2>8, Zenon
  <2>9. CASE V \in F
    BY <2>7, <2>9, Zenon
  <2>10. CASE U \notin F /\ V \notin F
    <3>1. SumFunctionOnSet(f, U) = f[x] + SumFunctionOnSet(f, W)
      BY <2>6, <2>7, <2>10, Zenon
    <3>2. SumFunctionOnSet(f, V) = f[c] + SumFunctionOnSet(f, V \ {c})
      BY <2>6, <2>7, <2>10, Zenon
    <3>3. f[x] \in Int /\ f[c] \in Int /\ SumFunctionOnSet(f, W) \in Int
      <4>1. \A y \in W : f[y] \in Int
        OBVIOUS
      <4> HIDE DEF W
      <4> QED BY <4>1, <2>2, <2>3, SumInt
    <3>4. SumFunctionOnSet(f, V) = f[c] + SumFunctionOnSet(f, W)
      BY <2>6, <3>2, Zenon
    <3> HIDE DEF F, U, V, W
    <3>5. SumFunctionOnSet(f, T) = f[x] + SumFunctionOnSet(f, V)
      BY <2>4, <3>1, <3>3, <3>4
    <3> QED BY <2>1, <3>5 DEF V
  <2> QED BY <2>8, <2>9, <2>10, Zenon
<1>2. F \subseteq SUBSET S
  OBVIOUS
<1> HIDE DEF F
<1>3. F = {}
  BY <1>1, <1>2, NoCounterexample
<1>4. S \notin F /\ S \in SUBSET S
  BY <1>3
<1> QED BY <1>4 DEF F

(* Functions that agree on a set have the same sum over it. *)
LEMMA SumSame ==
    ASSUME NEW f, NEW h, NEW S, IsFiniteSet(S), \A x \in S : f[x] = h[x]
    PROVE  SumFunctionOnSet(f, S) = SumFunctionOnSet(h, S)
<1> DEFINE F == {T \in SUBSET S : SumFunctionOnSet(f, T) # SumFunctionOnSet(h, T)}
<1>1. ASSUME NEW T \in F
      PROVE  \E U \in F : U \subseteq T /\ U # T
  <2> DEFINE U == T \ {Pick(T)}
  <2>1. IsFiniteSet(T)
    BY FS_Subset
  <2>2. T # {}
    <3>1. T = {} => SumFunctionOnSet(f, T) = 0 /\ SumFunctionOnSet(h, T) = 0
      BY <2>1, SumRec
    <3> QED BY <3>1
  <2>3. Pick(T) \in T
    BY <2>2, PickIn
  <2>4. /\ SumFunctionOnSet(f, T) = f[Pick(T)] + SumFunctionOnSet(f, U)
        /\ SumFunctionOnSet(h, T) = h[Pick(T)] + SumFunctionOnSet(h, U)
    BY <2>1, <2>2, SumRec
  <2>5. U \in SUBSET S /\ U \subseteq T /\ U # T /\ f[Pick(T)] = h[Pick(T)]
    BY <2>3
  <2>6. SumFunctionOnSet(f, U) # SumFunctionOnSet(h, U)
    BY <2>4, <2>5
  <2>7. U \in F
    BY <2>5, <2>6
  <2> QED BY <2>5, <2>7
<1>2. F \subseteq SUBSET S
  OBVIOUS
<1> HIDE DEF F
<1>3. F = {}
  BY <1>1, <1>2, NoCounterexample
<1> QED BY <1>3 DEF F

(* A change of one term changes the sum by as much. *)
LEMMA SumChange ==
    ASSUME NEW f, NEW h, NEW S, IsFiniteSet(S), NEW w \in S,
           \A x \in S : f[x] \in Int /\ h[x] \in Int,
           \A x \in S \ {w} : f[x] = h[x]
    PROVE  /\ SumFunctionOnSet(f, S) \in Int
           /\ SumFunctionOnSet(h, S) = SumFunctionOnSet(f, S) - f[w] + h[w]
<1>1. SumFunctionOnSet(f, S) = f[w] + SumFunctionOnSet(f, S \ {w})
  BY SumRemove
<1>2. SumFunctionOnSet(h, S) = h[w] + SumFunctionOnSet(h, S \ {w})
  BY SumRemove
<1>3. IsFiniteSet(S \ {w})
  BY FS_RemoveElement
<1>4. SumFunctionOnSet(f, S \ {w}) = SumFunctionOnSet(h, S \ {w})
  BY <1>3, SumSame
<1>5. SumFunctionOnSet(f, S \ {w}) \in Int
  BY <1>3, SumInt
<1> QED BY <1>1, <1>2, <1>4, <1>5

(* One more for each member of W makes the sum larger by their number. *)
LEMMA SumOneMore ==
    ASSUME NEW f, NEW h, NEW S, IsFiniteSet(S), NEW W \in SUBSET S,
           \A x \in S : f[x] \in Int /\ h[x] = IF x \in W THEN f[x] + 1 ELSE f[x]
    PROVE  SumFunctionOnSet(h, S) = SumFunctionOnSet(f, S) + Cardinality(W)
<1> DEFINE holds(T) == SumFunctionOnSet(h, T) = SumFunctionOnSet(f, T) + Cardinality(T \cap W)
           F == {T \in SUBSET S : ~holds(T)}
<1>1. ASSUME NEW T \in F
      PROVE  \E U \in F : U \subseteq T /\ U # T
  <2> DEFINE c == Pick(T)
             U == T \ {c}
  <2>1. IsFiniteSet(T) /\ ~holds(T)
    BY FS_Subset
  <2>2. T # {}
    <3>1. T = {} => /\ SumFunctionOnSet(f, T) = 0 /\ SumFunctionOnSet(h, T) = 0
                    /\ Cardinality(T \cap W) = 0
      BY <2>1, SumRec, FS_EmptySet, Zenon
    <3> QED BY <2>1, <3>1
  <2>3. c \in T
    BY <2>2, PickIn
  <2>4. /\ SumFunctionOnSet(f, T) = f[c] + SumFunctionOnSet(f, U)
        /\ SumFunctionOnSet(h, T) = h[c] + SumFunctionOnSet(h, U)
    BY <2>1, <2>2, SumRec
  <2> HIDE DEF c
  <2>5. U \in SUBSET S /\ U \subseteq T /\ U # T
    BY <2>3
  <2>6. IsFiniteSet(U) /\ IsFiniteSet(U \cap W)
    BY <2>1, FS_RemoveElement, FS_Intersection, Zenon
  <2>7. /\ Cardinality(U \cap W) \in Nat
        /\ Cardinality(T \cap W) = Cardinality(U \cap W) + IF c \in W THEN 1 ELSE 0
    <3>1. CASE c \in W
      <4>1. T \cap W = (U \cap W) \cup {c} /\ c \notin U \cap W
        BY <2>3, <3>1
      <4>2. PICK D : D = U \cap W
        BY Zenon
      <4> HIDE DEF U
      <4>3. Cardinality(D \cup {c}) = Cardinality(D) + 1 /\ Cardinality(D) \in Nat
        BY <4>1, <4>2, <2>6, FS_AddElement, FS_CardinalityType, Zenon
      <4>4. Cardinality(T \cap W) = Cardinality(D \cup {c})
        BY <4>1, <4>2, Zenon
      <4>5. Cardinality(U \cap W) = Cardinality(D)
        BY <4>2
      <4> QED BY <4>3, <4>4, <4>5, <3>1
    <3>2. CASE c \notin W
      <4>1. T \cap W = U \cap W
        BY <2>3, <3>2
      <4> HIDE DEF U
      <4>2. Cardinality(U \cap W) \in Nat
        BY <2>6, FS_CardinalityType
      <4>3. Cardinality(T \cap W) = Cardinality(U \cap W)
        BY <4>1, Zenon
      <4> QED BY <4>2, <4>3, <3>2
    <3> QED BY <3>1, <3>2
  <2>8. SumFunctionOnSet(f, U) \in Int
    <3>1. \A x \in U : f[x] \in Int
      BY <2>5
    <3> HIDE DEF U
    <3> QED BY <2>6, <3>1, SumInt
  <2>9. f[c] \in Int /\ h[c] = f[c] + IF c \in W THEN 1 ELSE 0
    BY <2>3
  <2>10. ~holds(U)
    <3> HIDE DEF U
    <3>1. SumFunctionOnSet(h, U) = SumFunctionOnSet(f, U) + Cardinality(U \cap W)
            => SumFunctionOnSet(h, T) = SumFunctionOnSet(f, T) + Cardinality(T \cap W)
      BY <2>4, <2>7, <2>8, <2>9
    <3> QED BY <2>1, <3>1
  <2>11. U \in F
    BY <2>5, <2>10
  <2> QED BY <2>5, <2>11, Zenon
<1>2. F \subseteq SUBSET S
  OBVIOUS
<1>3. F = {}
  <2> HIDE DEF F
  <2> QED BY <1>1, <1>2, NoCounterexample
<1>4. holds(S) /\ S \cap W = W
  BY <1>3
<1> QED BY <1>4

(* A sum of natural numbers is at least each of them. *)
LEMMA SumNat ==
    ASSUME NEW f, NEW S, IsFiniteSet(S), \A x \in S : f[x] \in Nat
    PROVE  /\ SumFunctionOnSet(f, S) \in Nat
           /\ \A w \in S : f[w] <= SumFunctionOnSet(f, S)
<1>1. ASSUME NEW U \in SUBSET S
      PROVE  SumFunctionOnSet(f, U) \in Nat
  <2> DEFINE F == {T \in SUBSET S : SumFunctionOnSet(f, T) \notin Nat}
  <2>1. ASSUME NEW T \in F
        PROVE  \E V \in F : V \subseteq T /\ V # T
    <3> DEFINE V == T \ {Pick(T)}
    <3>1. IsFiniteSet(T)
      BY FS_Subset
    <3>2. T # {}
      <4>1. T = {} => SumFunctionOnSet(f, T) = 0
        BY <3>1, SumRec, Zenon
      <4>2. SumFunctionOnSet(f, T) \notin Nat
        OBVIOUS
      <4> QED BY <4>1, <4>2
    <3>3. Pick(T) \in T
      BY <3>2, PickIn
    <3>4. SumFunctionOnSet(f, T) = f[Pick(T)] + SumFunctionOnSet(f, V)
      BY <3>1, <3>2, SumRec
    <3>5. V \in SUBSET S /\ V \subseteq T /\ V # T /\ f[Pick(T)] \in Nat
      BY <3>3
    <3>6. SumFunctionOnSet(f, V) \notin Nat
      BY <3>4, <3>5
    <3>7. V \in F
      BY <3>5, <3>6
    <3> QED BY <3>5, <3>7
  <2>2. F \subseteq SUBSET S
    OBVIOUS
  <2> HIDE DEF F
  <2>3. F = {}
    BY <2>1, <2>2, NoCounterexample
  <2> QED BY <2>3 DEF F
<1>2. ASSUME NEW w \in S
      PROVE  f[w] <= SumFunctionOnSet(f, S)
  <2>1. SumFunctionOnSet(f, S) = f[w] + SumFunctionOnSet(f, S \ {w})
    BY SumRemove
  <2>2. SumFunctionOnSet(f, S \ {w}) \in Nat
    BY <1>1
  <2> QED BY <2>1, <2>2
<1>3. S \in SUBSET S
  OBVIOUS
<1> QED BY <1>1, <1>2, <1>3

(* Terms may be renumbered by a function b that is injective on the set. *)
LEMMA SumRenumber ==
    ASSUME NEW f, NEW h, NEW S, IsFiniteSet(S), NEW b,
           \A x, y \in S : b[x] = b[y] => x = y,
           \A x \in S : h[x] = f[b[x]] /\ h[x] \in Int,
           NEW R, R = {b[x] : x \in S}
    PROVE  SumFunctionOnSet(h, S) = SumFunctionOnSet(f, R)
<1> DEFINE img(T) == {b[x] : x \in T}
           F == {T \in SUBSET S : ~(/\ IsFiniteSet(img(T))
                                    /\ SumFunctionOnSet(h, T) = SumFunctionOnSet(f, img(T)))}
<1>1. ASSUME NEW T \in F
      PROVE  \E U \in F : U \subseteq T /\ U # T
  <2> DEFINE c == Pick(T)
             U == T \ {c}
  <2>1. IsFiniteSet(T)
    BY FS_Subset
  <2>2. T # {}
    <3>1. T = {} => /\ SumFunctionOnSet(h, T) = 0
                    /\ img(T) = {} /\ IsFiniteSet(img(T)) /\ SumFunctionOnSet(f, img(T)) = 0
      BY <2>1, SumRec, FS_EmptySet, Zenon
    <3> QED BY <3>1
  <2>3. c \in T
    BY <2>2, PickIn
  <2>4. SumFunctionOnSet(h, T) = h[c] + SumFunctionOnSet(h, U)
    BY <2>1, <2>2, SumRec
  <2> HIDE DEF c
  <2>5. U \in SUBSET S /\ U \subseteq T /\ U # T
    BY <2>3
  <2>6. img(T) = img(U) \cup {b[c]} /\ img(T) \ {b[c]} = img(U) /\ b[c] \in img(T)
    BY <2>3
  <2>7. \A y \in img(T) : f[y] \in Int
    OBVIOUS
  <2>8. ASSUME IsFiniteSet(img(U)), SumFunctionOnSet(h, U) = SumFunctionOnSet(f, img(U))
        PROVE  FALSE
    <3> HIDE DEF img, U
    <3>1. IsFiniteSet(img(T))
      BY <2>6, <2>8, FS_AddElement
    <3>2. SumFunctionOnSet(f, img(T)) = f[b[c]] + SumFunctionOnSet(f, img(U))
      BY <2>6, <2>7, <3>1, SumRemove
    <3>3. h[c] = f[b[c]]
      BY <2>3
    <3> QED BY <2>4, <2>8, <3>1, <3>2, <3>3
  <2>9. U \in F
    BY <2>5, <2>8
  <2> QED BY <2>5, <2>9, Zenon
<1>2. F \subseteq SUBSET S
  OBVIOUS
<1>3. F = {}
  <2> HIDE DEF F
  <2> QED BY <1>1, <1>2, NoCounterexample
<1> QED BY <1>3

(* Nothing adds up to nothing. *)
LEMMA SumZero ==
    ASSUME NEW f, NEW S, IsFiniteSet(S), \A x \in S : f[x] = 0
    PROVE  SumFunctionOnSet(f, S) = 0
<1> DEFINE F == {T \in SUBSET S : SumFunctionOnSet(f, T) # 0}
<1>1. ASSUME NEW T \in F
      PROVE  \E U \in F : U \subseteq T /\ U # T
  <2> DEFINE U == T \ {Pick(T)}
  <2>1. IsFiniteSet(T)
    BY FS_Subset
  <2>2. T # {}
    <3>1. T = {} => SumFunctionOnSet(f, T) = 0
      BY <2>1, SumRec, Zenon
    <3> QED BY <3>1
  <2>3. Pick(T) \in T
    BY <2>2, PickIn
  <2>4. SumFunctionOnSet(f, T) = f[Pick(T)] + SumFunctionOnSet(f, U)
    BY <2>1, <2>2, SumRec
  <2>5. U \in SUBSET S /\ U \subseteq T /\ U # T /\ f[Pick(T)] = 0
    BY <2>3
  <2>6. SumFunctionOnSet(f, U) # 0
    BY <2>4, <2>5
  <2>7. U \in F
    BY <2>5, <2>6
  <2> QED BY <2>5, <2>7
<1>2. F \subseteq SUBSET S
  OBVIOUS
<1> HIDE DEF F
<1>3. F = {}
  BY <1>1, <1>2, NoCounterexample
<1> QED BY <1>3 DEF F

(* A sum over fewer elements, each no larger, is no larger. *)
LEMMA SumAtMost ==
    ASSUME NEW f, NEW h, NEW S, IsFiniteSet(S), NEW T \in SUBSET S,
           \A x \in T : f[x] \in Int /\ f[x] <= h[x], \A x \in S : h[x] \in Nat
    PROVE  SumFunctionOnSet(f, T) <= SumFunctionOnSet(h, S)
<1> DEFINE F == {U \in SUBSET S : ~(SumFunctionOnSet(f, U \cap T) <= SumFunctionOnSet(h, U))}
<1>1. ASSUME NEW U \in F
      PROVE  \E V \in F : V \subseteq U /\ V # U
  <2>1. U \subseteq S /\ IsFiniteSet(U) /\ IsFiniteSet(U \cap T)
    BY FS_Subset
  <2>2. U # {}
    <3>1. ASSUME U = {}
          PROVE  SumFunctionOnSet(f, U \cap T) = 0 /\ SumFunctionOnSet(h, U) = 0
      <4>1. U \cap T = {}
        BY <3>1
      <4> QED BY <2>1, <3>1, <4>1, SumRec, Zenon
    <3> QED BY <3>1
  <2>3. PICK x \in U : TRUE
    BY <2>2
  <2>4. PICK V : V = U \ {x}
    BY Zenon
  <2>5. V \subseteq S /\ IsFiniteSet(V) /\ IsFiniteSet(V \cap T) /\ V \subseteq U /\ V # U
    BY <2>1, <2>3, <2>4, FS_Subset
  <2>6. /\ SumFunctionOnSet(h, U) = h[x] + SumFunctionOnSet(h, V) /\ SumFunctionOnSet(h, V) \in Int /\ h[x] \in Nat
    <3>1. (\A y \in U : h[y] \in Int) /\ \A y \in V : h[y] \in Int
      BY <2>1, <2>5
    <3>2. SumFunctionOnSet(h, U) = h[x] + SumFunctionOnSet(h, U \ {x})
      BY <2>1, <3>1, SumRemove
    <3>3. SumFunctionOnSet(h, V) \in Int
      BY <2>5, <3>1, SumInt
    <3> QED BY <2>1, <2>4, <3>2, <3>3
  <2>7. SumFunctionOnSet(f, V \cap T) \in Int
    BY <2>5, SumInt
  <2>8. ASSUME SumFunctionOnSet(f, V \cap T) <= SumFunctionOnSet(h, V)
        PROVE  SumFunctionOnSet(f, U \cap T) <= SumFunctionOnSet(h, U)
    <3>1. CASE x \in T
      <4>1. (U \cap T) \ {x} = V \cap T /\ x \in U \cap T
        BY <2>3, <2>4, <3>1
      <4>2. PICK W : W = U \cap T
        OBVIOUS
      <4>3. IsFiniteSet(W) /\ x \in W /\ \A y \in W : f[y] \in Int
        BY <2>1, <4>1, <4>2
      <4>4. SumFunctionOnSet(f, W) = f[x] + SumFunctionOnSet(f, W \ {x})
        BY <4>3, SumRemove
      <4>5. SumFunctionOnSet(f, U \cap T) = f[x] + SumFunctionOnSet(f, V \cap T)
        BY <4>1, <4>2, <4>4, Zenon
      <4>6. f[x] \in Int /\ f[x] <= h[x]
        BY <3>1
      <4> QED BY <2>6, <2>7, <2>8, <4>5, <4>6
    <3>2. CASE x \notin T
      <4>1. U \cap T = V \cap T
        BY <2>4, <3>2
      <4>2. SumFunctionOnSet(f, U \cap T) = SumFunctionOnSet(f, V \cap T)
        BY <4>1, Zenon
      <4> QED BY <2>6, <2>7, <2>8, <4>2
    <3> QED BY <3>1, <3>2
  <2>9. V \in F
    BY <2>5, <2>8
  <2> QED BY <2>5, <2>9, Zenon
<1>2. F \subseteq SUBSET S
  OBVIOUS
<1>3. (\A U \in F : \E V \in F : V \subseteq U /\ V # U) => F = {}
  <2> HIDE DEF F
  <2> QED BY <1>2, NoCounterexample
<1>4. F = {}
  BY <1>1, <1>3, Zenon
<1>5. S \cap T = T
  OBVIOUS
<1> QED BY <1>4, <1>5
=============================================================================
