---------------------------- MODULE ReportsProofs ----------------------------
(***************************************************************************)
(* Proofs about module Reports, for every value of its constants.  Facts   *)
(* about sums over finite sets come first: they are proved by taking a     *)
(* smallest set for which they fail.                                       *)
(***************************************************************************)
EXTENDS Reports, FiniteSetTheorems, WellFoundedInduction, TLAPS

\* Every nonempty collection of finite sets has a smallest member.
LEMMA Smallest ==
  ASSUME NEW C, C # {}, \A A \in C : IsFiniteSet(A)
  PROVE  \E A \in C : \A B \in C : B \subseteq A => B = A
  <1> DEFINE U == UNION C
             R == StrictSubsetOrdering(U)
             D == FiniteSubsetsOf(U)
  <1>1. IsWellFoundedOn(R, D)
    BY FS_StrictSubsetOrderingWellFounded
  <1>2. C \subseteq D
    BY DEF FiniteSubsetsOf
  <1>3. PICK A \in C : \A B \in C : <<B, A>> \notin R
    <2> HIDE DEF R, D
    <2> QED BY <1>1, <1>2, WFMin
  <1>4. \A B \in C : B \subseteq A => B = A
    <2> SUFFICES ASSUME NEW B \in C, B \subseteq A, B # A PROVE FALSE
      OBVIOUS
    <2>1. <<B, A>> \in R
      BY <1>2 DEF StrictSubsetOrdering, FiniteSubsetsOf
    <2> QED BY <2>1, <1>3
  <1> QED BY <1>4

\* The sums of the community module Functions are defined by a recursive
\* function; Sums says that g is that function for the subsets of S.
Pick(s) == CHOOSE x \in s : TRUE
Sums(f, S, g) == g = [s \in SUBSET S |-> IF s = {} THEN 0 ELSE f[Pick(s)] + g[s \ {Pick(s)}]]

\* What such a sum is.
LEMMA SumDef ==
  ASSUME NEW f, NEW S
  PROVE  SumFunctionOnSet(f, S) = (CHOOSE g : Sums(f, S, g))[S]
  BY DEF Sums, Pick, SumFunctionOnSet, FoldFunctionOnSet, MapThenFoldSet

\* The function that a sum is defined by is unique, ...
LEMMA SumsUnique ==
  ASSUME NEW f, NEW S, NEW T, IsFiniteSet(S), T \subseteq S,
         NEW g, Sums(f, S, g), NEW h, Sums(f, T, h)
  PROVE  \A A \in SUBSET T : g[A] = h[A]
  <1> DEFINE Bad == {A \in SUBSET T : g[A] # h[A]}
  <1>1. SUFFICES ASSUME Bad # {} PROVE FALSE
    OBVIOUS
  <1>2. \A A \in Bad : IsFiniteSet(A)
    BY FS_Subset
  <1>3. PICK A \in Bad : \A B \in Bad : B \subseteq A => B = A
    <2> HIDE DEF Bad
    <2> QED BY <1>1, <1>2, Smallest
  <1>4. /\ g[A] = IF A = {} THEN 0 ELSE f[Pick(A)] + g[A \ {Pick(A)}]
        /\ h[A] = IF A = {} THEN 0 ELSE f[Pick(A)] + h[A \ {Pick(A)}]
    BY DEF Sums
  <1>5. A # {}
    BY <1>4
  <1>6. Pick(A) \in A
    BY <1>5 DEF Pick
  <1>7. A \ {Pick(A)} \notin Bad
    BY <1>3, <1>6
  <1> QED BY <1>4, <1>5, <1>7

\* ... and there is one for every finite set.
LEMMA SumsExist ==
  ASSUME NEW f, NEW S, IsFiniteSet(S)
  PROVE  \E g : Sums(f, S, g)
  <1> DEFINE Bad == {A \in SUBSET S : ~\E g : Sums(f, A, g)}
             Tot(A) == (CHOOSE g : Sums(f, A, g))[A]
  <1>1. SUFFICES ASSUME Bad # {} PROVE FALSE
    OBVIOUS
  <1>2. \A A \in Bad : IsFiniteSet(A)
    BY FS_Subset
  <1>3. PICK A \in Bad : \A B \in Bad : B \subseteq A => B = A
    <2> HIDE DEF Bad
    <2> QED BY <1>1, <1>2, Smallest
  <1>4. IsFiniteSet(A)
    BY <1>2
  <1>5. \A B \in SUBSET A : B # A => Sums(f, B, CHOOSE g : Sums(f, B, g))
    BY <1>3
  <1>6. \A B \in SUBSET A : B # A =>
           Tot(B) = IF B = {} THEN 0 ELSE f[Pick(B)] + Tot(B \ {Pick(B)})
    <2> TAKE B \in SUBSET A
    <2> HAVE B # A
    <2> DEFINE g == CHOOSE x : Sums(f, B, x)
               C == B \ {Pick(B)}
               h == CHOOSE x : Sums(f, C, x)
    <2>1. Sums(f, B, g)
      BY <1>5
    <2>2. g[B] = IF B = {} THEN 0 ELSE f[Pick(B)] + g[C]
      BY <2>1 DEF Sums
    <2>3. CASE B = {}
      BY <2>2, <2>3
    <2>4. CASE B # {}
      <3>1. Sums(f, C, h) /\ C \subseteq B /\ IsFiniteSet(B)
        BY <1>5, <1>4, FS_Subset, <2>4 DEF Pick
      <3>2. g[C] = h[C]
        <4> HIDE DEF g, h, C
        <4> QED BY <3>1, <2>1, SumsUnique
      <3> QED BY <3>2, <2>2, <2>4
    <2> QED BY <2>3, <2>4
  <1>7. \A B \in SUBSET A : B # {} => B \ {Pick(B)} # A /\ B \ {Pick(B)} \in SUBSET A
    BY DEF Pick
  <1> DEFINE it == [B \in SUBSET A |-> IF B = {} THEN 0 ELSE f[Pick(B)] + Tot(B \ {Pick(B)})]
  <1>8. \A B \in SUBSET A : B # A => it[B] = Tot(B)
    <2> HIDE DEF Tot
    <2> QED BY <1>6
  <1>9. Sums(f, A, it)
    <2>1. \A B \in SUBSET A : B # {} => it[B \ {Pick(B)}] = Tot(B \ {Pick(B)})
      <3> HIDE DEF it, Tot
      <3> QED BY <1>7, <1>8
    <2> HIDE DEF Tot
    <2> QED BY <2>1 DEF Sums
  <1>10. \E g : Sums(f, A, g)
    <2> HIDE DEF it
    <2> QED BY <1>9
  <1> QED BY <1>10

\* One step of the recursion, ...
LEMMA SumUnfold ==
  ASSUME NEW f, NEW S, IsFiniteSet(S)
  PROVE  SumFunctionOnSet(f, S) = IF S = {} THEN 0
                                  ELSE f[Pick(S)] + SumFunctionOnSet(f, S \ {Pick(S)})
  <1> DEFINE T == S \ {Pick(S)}
             g == CHOOSE x : Sums(f, S, x)
             h == CHOOSE x : Sums(f, T, x)
  <1>1. IsFiniteSet(T) /\ T \subseteq S
    BY FS_RemoveElement
  <1>2. Sums(f, S, g)
    BY SumsExist
  <1>3. Sums(f, T, h)
    <2> HIDE DEF T
    <2> QED BY SumsExist, <1>1
  <1>4. g[T] = h[T]
    <2> HIDE DEF T, g, h
    <2> QED BY <1>1, <1>2, <1>3, SumsUnique
  <1>5. SumFunctionOnSet(f, S) = g[S] /\ SumFunctionOnSet(f, T) = h[T]
    <2> HIDE DEF T
    <2> QED BY SumDef
  <1>6. g[S] = IF S = {} THEN 0 ELSE f[Pick(S)] + g[T]
    <2> HIDE DEF g
    <2> QED BY <1>2 DEF Sums
  <1> HIDE DEF g, h
  <1> QED BY <1>4, <1>5, <1>6

\* Induction: a collection has a finite set if it has the empty set and, with
\* each of its sets, that set and one more element.
LEMMA SetInduction ==
  ASSUME NEW S, IsFiniteSet(S), NEW C, {} \in C,
         \A A \in SUBSET S : \A x \in S \ A : A \in C => A \cup {x} \in C
  PROVE  S \in C
  <1> DEFINE Bad == {A \in SUBSET S : A \notin C}
  <1>1. SUFFICES ASSUME Bad # {} PROVE FALSE
    OBVIOUS
  <1>2. \A A \in Bad : IsFiniteSet(A)
    BY FS_Subset
  <1>3. PICK A \in Bad : \A B \in Bad : B \subseteq A => B = A
    <2> HIDE DEF Bad
    <2> QED BY <1>1, <1>2, Smallest
  <1>4. PICK x \in A : TRUE
    BY <1>3
  <1>5. A \ {x} \in C /\ A = (A \ {x}) \cup {x}
    BY <1>3, <1>4
  <1> QED BY <1>5, <1>3

\* ... and its end.
LEMMA SumEmpty == ASSUME NEW f PROVE SumFunctionOnSet(f, {}) = 0
  BY SumUnfold, FS_EmptySet

\* A sum of integers is an integer, and one of natural numbers natural.
LEMMA SumType ==
  ASSUME NEW S, IsFiniteSet(S), NEW f, \A x \in S : f[x] \in Int
  PROVE  /\ SumFunctionOnSet(f, S) \in Int
         /\ (\A x \in S : f[x] \in Nat) => SumFunctionOnSet(f, S) \in Nat
  <1> DEFINE C == {A \in SUBSET S :
                    /\ SumFunctionOnSet(f, A) \in Int
                    /\ (\A x \in S : f[x] \in Nat) => SumFunctionOnSet(f, A) \in Nat}
             Bad == {A \in SUBSET S : A \notin C}
  <1>1. SUFFICES ASSUME Bad # {} PROVE FALSE
    OBVIOUS
  <1>2. \A A \in Bad : IsFiniteSet(A)
    BY FS_Subset
  <1>3. PICK A \in Bad : \A B \in Bad : B \subseteq A => B = A
    <2> HIDE DEF Bad
    <2> QED BY <1>1, <1>2, Smallest
  <1>4. SumFunctionOnSet(f, A) = IF A = {} THEN 0
                                 ELSE f[Pick(A)] + SumFunctionOnSet(f, A \ {Pick(A)})
    BY <1>2, SumUnfold
  <1>5. A # {}
    BY <1>4
  <1>6. Pick(A) \in A
    BY <1>5 DEF Pick
  <1>7. A \ {Pick(A)} \in C
    BY <1>6, <1>3
  <1> QED BY <1>4, <1>5, <1>6, <1>7

\* The order in which a sum is taken makes no difference.
LEMMA SumTake ==
  ASSUME NEW S, IsFiniteSet(S), NEW f, \A x \in S : f[x] \in Int, NEW x \in S
  PROVE  SumFunctionOnSet(f, S) = f[x] + SumFunctionOnSet(f, S \ {x})
  <1> DEFINE C == {A \in SUBSET S : \A y \in A :
                       SumFunctionOnSet(f, A) = f[y] + SumFunctionOnSet(f, A \ {y})}
             Bad == {A \in SUBSET S : A \notin C}
  <1>1. SUFFICES ASSUME Bad # {} PROVE FALSE
    OBVIOUS
  <1>2. \A A \in SUBSET S : IsFiniteSet(A) /\ SumFunctionOnSet(f, A) \in Int
    <2> TAKE A \in SUBSET S
    <2>1. IsFiniteSet(A)
      BY FS_Subset
    <2> QED BY <2>1, SumType
  <1>3. PICK A \in Bad : \A B \in Bad : B \subseteq A => B = A
    <2>1. \A A \in Bad : IsFiniteSet(A)
      BY <1>2
    <2> HIDE DEF Bad
    <2> QED BY <1>1, <2>1, Smallest
  <1>4. PICK y \in A : SumFunctionOnSet(f, A) # f[y] + SumFunctionOnSet(f, A \ {y})
    BY <1>3
  <1> DEFINE p == Pick(A)
  <1>5. p \in A /\ SumFunctionOnSet(f, A) = f[p] + SumFunctionOnSet(f, A \ {p})
    BY <1>4, <1>2, SumUnfold DEF Pick
  <1>6. p # y
    BY <1>4, <1>5
  <1> HIDE DEF p
  <1>7. A \ {p} \in C /\ A \ {y} \in C
    BY <1>3, <1>4, <1>5
  <1>8. SumFunctionOnSet(f, A \ {p}) = f[y] + SumFunctionOnSet(f, (A \ {p}) \ {y})
    BY <1>7, <1>4, <1>6
  <1>9. SumFunctionOnSet(f, A \ {y}) = f[p] + SumFunctionOnSet(f, (A \ {y}) \ {p})
    BY <1>7, <1>5, <1>6
  <1> DEFINE rest == SumFunctionOnSet(f, (A \ {p}) \ {y})
  <1>10. (A \ {p}) \ {y} = (A \ {y}) \ {p}
    OBVIOUS
  <1>11. SumFunctionOnSet(f, A \ {p}) = f[y] + rest /\ SumFunctionOnSet(f, A \ {y}) = f[p] + rest
    BY <1>8, <1>9, <1>10
  <1>12. f[p] \in Int /\ f[y] \in Int /\ rest \in Int
    BY <1>2, <1>5, <1>4
  <1> HIDE DEF C, Bad, rest
  <1>13. f[p] + (f[y] + rest) = f[y] + (f[p] + rest)
    BY <1>12
  <1> QED BY <1>11, <1>13, <1>4, <1>5

\* One more summand.
LEMMA SumAdd ==
  ASSUME NEW S, IsFiniteSet(S), NEW f, NEW x, x \notin S,
         \A y \in S \cup {x} : f[y] \in Int
  PROVE  SumFunctionOnSet(f, S \cup {x}) = SumFunctionOnSet(f, S) + f[x]
  <1> DEFINE T == S \cup {x}
  <1>1. IsFiniteSet(T)
    BY FS_AddElement
  <1>2. T \ {x} = S /\ x \in T
    OBVIOUS
  <1>3. SumFunctionOnSet(f, T) = f[x] + SumFunctionOnSet(f, T \ {x})
    <2> HIDE DEF T
    <2> QED BY <1>1, <1>2, SumTake
  <1>4. SumFunctionOnSet(f, S) \in Int /\ f[x] \in Int
    BY SumType
  <1>5. SumFunctionOnSet(f, T) = f[x] + SumFunctionOnSet(f, S)
    BY <1>2, <1>3
  <1>6. f[x] + SumFunctionOnSet(f, S) = SumFunctionOnSet(f, S) + f[x]
    BY <1>4
  <1> QED BY <1>5, <1>6

\* Only the values that are added count.
LEMMA SumSame ==
  ASSUME NEW S, IsFiniteSet(S), NEW f, NEW g, \A x \in S : f[x] \in Int /\ g[x] = f[x]
  PROVE  SumFunctionOnSet(g, S) = SumFunctionOnSet(f, S)
  <1> DEFINE C == {A \in SUBSET S : SumFunctionOnSet(g, A) = SumFunctionOnSet(f, A)}
  <1>1. {} \in C
    BY SumEmpty
  <1>2. \A A \in SUBSET S : \A x \in S \ A : A \in C => A \cup {x} \in C
    <2> TAKE A \in SUBSET S
    <2> TAKE x \in S \ A
    <2> HAVE A \in C
    <2>1. IsFiniteSet(A) /\ x \notin A /\ \A y \in A \cup {x} : f[y] \in Int /\ g[y] \in Int
      BY FS_Subset
    <2>2. SumFunctionOnSet(f, A \cup {x}) = SumFunctionOnSet(f, A) + f[x]
      BY ONLY <2>1, SumAdd
    <2>3. SumFunctionOnSet(g, A \cup {x}) = SumFunctionOnSet(g, A) + g[x]
      BY ONLY <2>1, SumAdd
    <2> QED BY <2>2, <2>3
  <1>3. S \in C
    <2> HIDE DEF C
    <2> QED BY <1>1, <1>2, SetInduction
  <1> QED BY <1>3

\* A sum of natural numbers grows with the set, ...
LEMMA SumGrows ==
  ASSUME NEW S, IsFiniteSet(S), NEW f, \A x \in S : f[x] \in Nat, NEW T, T \subseteq S
  PROVE  /\ SumFunctionOnSet(f, T) \in Nat /\ SumFunctionOnSet(f, S) \in Nat
         /\ SumFunctionOnSet(f, T) <= SumFunctionOnSet(f, S)
  <1> DEFINE C == {A \in SUBSET S : \A B \in SUBSET A :
                       SumFunctionOnSet(f, B) <= SumFunctionOnSet(f, A)}
  <1>0. \A A \in SUBSET S : IsFiniteSet(A) /\ SumFunctionOnSet(f, A) \in Nat
    <2> TAKE A \in SUBSET S
    <2>1. IsFiniteSet(A)
      BY FS_Subset
    <2> QED BY <2>1, SumType
  <1>1. {} \in C
    BY <1>0
  <1>2. \A A \in SUBSET S : \A x \in S \ A : A \in C => A \cup {x} \in C
    <2> SUFFICES ASSUME NEW A \in SUBSET S, NEW x \in S \ A,
                        \A B \in SUBSET A : SumFunctionOnSet(f, B) <= SumFunctionOnSet(f, A),
                        NEW B \in SUBSET (A \cup {x})
                 PROVE  SumFunctionOnSet(f, B) <= SumFunctionOnSet(f, A \cup {x})
      OBVIOUS
    <2>1. IsFiniteSet(A) /\ SumFunctionOnSet(f, A) \in Nat /\ f[x] \in Nat
      BY <1>0
    <2>2. SumFunctionOnSet(f, A \cup {x}) = SumFunctionOnSet(f, A) + f[x]
      BY <2>1, SumAdd
    <2>3. CASE B \subseteq A
      <3>1. SumFunctionOnSet(f, B) \in Nat /\ SumFunctionOnSet(f, B) <= SumFunctionOnSet(f, A)
        BY <1>0, <2>3
      <3> QED BY <2>1, <2>2, <3>1
    <2>4. CASE x \in B
      <3> DEFINE D == B \ {x}
      <3>1. D \in SUBSET A /\ x \notin D /\ B = D \cup {x}
        BY <2>4
      <3> HIDE DEF D
      <3>2. /\ IsFiniteSet(D) /\ SumFunctionOnSet(f, D) \in Nat
            /\ SumFunctionOnSet(f, D) <= SumFunctionOnSet(f, A)
        BY <1>0, <3>1
      <3>3. \A y \in D \cup {x} : f[y] \in Int
        BY <3>1
      <3>4. SumFunctionOnSet(f, B) = SumFunctionOnSet(f, D) + f[x]
        BY <3>1, <3>2, <3>3, SumAdd
      <3> QED BY <2>1, <2>2, <3>2, <3>4
    <2> QED BY <2>3, <2>4
  <1>3. S \in C
    <2> HIDE DEF C
    <2> QED BY <1>1, <1>2, SetInduction
  <1> QED BY <1>0, <1>3

\* ... and is between the bounds of what is added times how many there are.
LEMMA SumBounds ==
  ASSUME NEW S, IsFiniteSet(S), NEW f, \A x \in S : f[x] \in Nat, NEW c \in Nat
  PROVE  /\ (\A x \in S : f[x] <= c) => SumFunctionOnSet(f, S) <= c * Cardinality(S)
         /\ (\A x \in S : c <= f[x]) => c * Cardinality(S) <= SumFunctionOnSet(f, S)
  <1> DEFINE C == {A \in SUBSET S :
                    /\ (\A x \in S : f[x] <= c) => SumFunctionOnSet(f, A) <= c * Cardinality(A)
                    /\ (\A x \in S : c <= f[x]) => c * Cardinality(A) <= SumFunctionOnSet(f, A)}
  <1>1. {} \in C
    BY SumEmpty, FS_EmptySet
  <1>2. \A A \in SUBSET S : \A x \in S \ A : A \in C => A \cup {x} \in C
    <2> TAKE A \in SUBSET S
    <2> TAKE x \in S \ A
    <2> HAVE A \in C
    <2>1. IsFiniteSet(A)
      BY FS_Subset
    <2>2. SumFunctionOnSet(f, A) \in Nat /\ f[x] \in Nat
      BY <2>1, SumType
    <2>0. x \notin A /\ \A y \in A \cup {x} : f[y] \in Int
      OBVIOUS
    <2>3. SumFunctionOnSet(f, A \cup {x}) = SumFunctionOnSet(f, A) + f[x]
      BY ONLY <2>0, <2>1, SumAdd
    <2>4. Cardinality(A) \in Nat /\ Cardinality(A \cup {x}) = Cardinality(A) + 1
      BY <2>1, FS_AddElement, FS_CardinalityType
    <2>5. c * (Cardinality(A) + 1) = c * Cardinality(A) + c /\ c * Cardinality(A) \in Nat
      BY <2>4
    <2>6. /\ (\A y \in S : f[y] <= c) => SumFunctionOnSet(f, A) + f[x] <= c * Cardinality(A) + c
          /\ (\A y \in S : c <= f[y]) => c * Cardinality(A) + c <= SumFunctionOnSet(f, A) + f[x]
      BY <2>2, <2>5
    <2> QED BY <2>3, <2>4, <2>5, <2>6
  <1>3. S \in C
    <2> HIDE DEF C
    <2> QED BY <1>1, <1>2, SetInduction
  <1> QED BY <1>3

\* A sum may be taken over other names of the same things.
LEMMA SumRenamed ==
  ASSUME NEW S, IsFiniteSet(S), NEW f, \A x \in S : f[x] \in Int,
         NEW b, \A x, y \in S : b[x] = b[y] => x = y,
         NEW g, \A x \in S : g[b[x]] = f[x]
  PROVE  SumFunctionOnSet(g, {b[x] : x \in S}) = SumFunctionOnSet(f, S)
  <1> DEFINE Im(A) == {b[x] : x \in A}
             C == {A \in SUBSET S :
                     IsFiniteSet(Im(A)) /\ SumFunctionOnSet(g, Im(A)) = SumFunctionOnSet(f, A)}
  <1>1. {} \in C
    <2>1. Im({}) = {}
      OBVIOUS
    <2> HIDE DEF Im
    <2> QED BY <2>1, SumEmpty, FS_EmptySet
  <1>2. \A A \in SUBSET S : \A x \in S \ A : A \in C => A \cup {x} \in C
    <2> SUFFICES ASSUME NEW A \in SUBSET S, NEW x \in S \ A,
                        IsFiniteSet(Im(A)), SumFunctionOnSet(g, Im(A)) = SumFunctionOnSet(f, A)
                 PROVE  /\ IsFiniteSet(Im(A \cup {x}))
                        /\ SumFunctionOnSet(g, Im(A \cup {x})) = SumFunctionOnSet(f, A \cup {x})
      OBVIOUS
    <2>1. IsFiniteSet(A) /\ x \notin A /\ \A y \in A \cup {x} : f[y] \in Int
      BY FS_Subset
    <2>2. Im(A \cup {x}) = Im(A) \cup {b[x]} /\ b[x] \notin Im(A)
      OBVIOUS
    <2>3. (\A y \in Im(A) \cup {b[x]} : g[y] \in Int) /\ g[b[x]] = f[x]
      OBVIOUS
    <2> HIDE DEF C, Im
    <2>4. SumFunctionOnSet(f, A \cup {x}) = SumFunctionOnSet(f, A) + f[x]
      BY ONLY <2>1, SumAdd
    <2> DEFINE y == b[x]
               T == Im(A)
    <2>5. IsFiniteSet(T) /\ y \notin T /\ \A z \in T \cup {y} : g[z] \in Int
      BY <2>2, <2>3
    <2>6. /\ Im(A \cup {x}) = T \cup {y} /\ g[y] = f[x]
          /\ SumFunctionOnSet(g, T) = SumFunctionOnSet(f, A)
      BY <2>2, <2>3
    <2> HIDE DEF y, T
    <2>7. SumFunctionOnSet(g, T \cup {y}) = SumFunctionOnSet(g, T) + g[y]
      BY ONLY <2>5, SumAdd
    <2>8. IsFiniteSet(T \cup {y})
      BY <2>5, FS_AddElement
    <2> QED BY <2>4, <2>6, <2>7, <2>8
  <1>3. S \in C
    <2> HIDE DEF C
    <2> QED BY <1>1, <1>2, SetInduction
  <1> QED BY <1>3

-----------------------------------------------------------------------------
(* What the writers leave in the tables.                                   *)

\* What a credit or debit is for is in the tables.
Backed(r) ==
    \/ \E t \in Tasks : task[t] # Nothing /\ r = Charge(t)
    \/ \E p \in Payments : payment[p] = "succeeded" /\ r = Purchase(p)
    \/ \E u \in redeemed : r = Grant(u)
    \/ r \in Adjustments

\* The requests that the service posts.
Postable ==
    {Charge(t) : t \in Tasks} \cup {Purchase(p) : p \in Payments}
    \cup {Grant(u) : u \in Users} \cup Adjustments

\* Row x of user u was posted for something that is in the tables.
BackedRow(u, x) == \E r \in Postable : Backed(r) /\ r.user = u /\ x = RowFor(r, x.after)

RowsBacked == \A u \in Users : \A i \in DOMAIN ledger[u] : BackedRow(u, ledger[u][i])

LedgerTyped ==
    /\ balance \in [Users -> 0..MaxCredits \cup {NoRow}]
    /\ ledger \in [Users -> Seq(Row)]

BalanceIsLatest == \A u \in Users : Available(u) = Latest(u)

\* Rows are not deleted, and what has been paid or redeemed stays so.
TablesGrow ==
    /\ \A t \in Tasks : task[t] # Nothing => task'[t] # Nothing
    /\ \A p \in Payments : payment[p] = "succeeded" => payment'[p] = "succeeded"
    /\ redeemed \subseteq redeemed'

\* A step of a writer posts one row at most, and that for something that is
\* then in the tables.
LEMMA WriteSteps ==
  ASSUME ReportsTypeOK, Write
  PROVE  /\ TablesGrow
         /\ \/ UNCHANGED ledgerVars
            \/ \E u \in Users : Open(u)
            \/ \E r \in Postable : Backed(r)' /\ Post(r)
  <1> USE ReportsAssumption
  <1>1. ASSUME NEW t \in Tasks, CreateTask(t) \/ RunTask(t) \/ FailTask(t)
        PROVE  TablesGrow /\ UNCHANGED ledgerVars
    BY <1>1 DEF CreateTask, RunTask, FailTask, SetTask, TablesGrow, ReportsTypeOK
  <1>2. ASSUME NEW t \in Tasks, SucceedTask(t)
        PROVE  TablesGrow /\ (UNCHANGED ledgerVars \/ (Backed(Charge(t))' /\ Post(Charge(t))))
    <2>1. TablesGrow /\ task'[t] # Nothing
      BY <1>2 DEF SucceedTask, SetTask, TablesGrow, ReportsTypeOK
    <2>2. Backed(Charge(t))'
      BY <2>1 DEF Backed
    <2>3. UNCHANGED ledgerVars \/ Post(Charge(t))
      BY <1>2 DEF SucceedTask, PostOnce
    <2> QED BY <2>1, <2>2, <2>3
  <1>3. ASSUME NEW p \in Payments, CreatePayment(p)
        PROVE  TablesGrow /\ UNCHANGED ledgerVars
    BY <1>3 DEF CreatePayment, TablesGrow, ReportsTypeOK
  <1>4. ASSUME NEW p \in Payments, ConfirmPayment(p)
        PROVE  TablesGrow /\ (UNCHANGED ledgerVars \/ (Backed(Purchase(p))' /\ Post(Purchase(p))))
    <2>1. TablesGrow /\ payment'[p] = "succeeded"
      BY <1>4 DEF ConfirmPayment, TablesGrow, ReportsTypeOK
    <2>2. Backed(Purchase(p))'
      BY <2>1 DEF Backed
    <2>3. UNCHANGED ledgerVars \/ Post(Purchase(p))
      BY <1>4 DEF ConfirmPayment, PostOnce
    <2> QED BY <2>1, <2>2, <2>3
  <1>5. ASSUME NEW u \in Users, Redeem(u)
        PROVE  TablesGrow /\ (UNCHANGED ledgerVars \/ (Backed(Grant(u))' /\ Post(Grant(u))))
    <2>1. TablesGrow /\ u \in redeemed'
      BY <1>5 DEF Redeem, TablesGrow
    <2>2. Backed(Grant(u))'
      BY <2>1 DEF Backed
    <2>3. UNCHANGED ledgerVars \/ Post(Grant(u))
      BY <1>5 DEF Redeem, PostOnce
    <2> QED BY <2>1, <2>2, <2>3
  <1>6. ASSUME NEW u \in Users, OpenBalance(u)
        PROVE  TablesGrow /\ Open(u)
    BY <1>6 DEF OpenBalance, TablesGrow
  <1>7. ASSUME NEW r \in Adjustments, Adjust(r)
        PROVE  TablesGrow /\ Backed(r)' /\ Post(r)
    BY <1>7 DEF Adjust, TablesGrow, Backed
  <1> QED BY <1>1, <1>2, <1>3, <1>4, <1>5, <1>6, <1>7 DEF Write, Postable

\* What the service posts has its types.
LEMMA PostableTyped ==
  ASSUME NEW r \in Postable
  PROVE  /\ r \in Requests /\ r.type \in Types /\ r.direction \in Directions
         /\ r.amount \in Nat \ {0} /\ r.key \in Keys /\ r.source \in Sources
  <1> USE ReportsAssumption DEF Types, Directions
  <1>1. r \in Requests
    BY DEF Postable, Adjustments
  <1>2. r.type \in Types /\ r.direction \in Directions /\ r.amount \in Nat \ {0}
    BY DEF Postable, Adjustments, Charge, Purchase, Grant
  <1> QED BY <1>1, <1>2 DEF Keys, Sources

\* What one posting does to the ledger.
LEMMA Posted1 ==
  ASSUME LedgerTyped, NEW r \in Postable, Post(r)
  PROVE  LET u == r.user
             n == Len(ledger[u]) + 1
             row == RowFor(r, Available(u) + Effect(r))
         IN  /\ u \in Users /\ n \in Nat /\ row \in Row
             /\ balance' = [balance EXCEPT ![u] = row.after]
             /\ ledger' \in [Users -> Seq(Row)]
             /\ ledger'[u] = Append(ledger[u], row)
             /\ DOMAIN ledger[u] = 1..(n - 1) /\ DOMAIN ledger'[u] = 1..n
             /\ ledger'[u][n] = row
             /\ \A i \in DOMAIN ledger[u] : ledger'[u][i] = ledger[u][i]
             /\ \A v \in Users \ {u} : ledger'[v] = ledger[v]
  <1> DEFINE u == r.user
             n == Len(ledger[u]) + 1
             after == Available(u) + Effect(r)
             row == RowFor(r, after)
  <1>1. /\ u \in Users /\ after \in 0..MaxCredits
        /\ balance' = [balance EXCEPT ![u] = after]
        /\ ledger' = [ledger EXCEPT ![u] = Append(@, row)]
    BY DEF Post
  <1>2. row \in Row /\ row.after = after
    BY <1>1, PostableTyped DEF Row, RowFor
  <1>3. ledger[u] \in Seq(Row)
    BY <1>1 DEF LedgerTyped
  <1> HIDE DEF row
  <1>4. Append(ledger[u], row) \in Seq(Row)
    BY <1>2, <1>3
  <1>5. ledger'[u] = Append(ledger[u], row) /\ ledger' \in [Users -> Seq(Row)]
    BY <1>1, <1>4 DEF LedgerTyped
  <1>6. \A v \in Users \ {u} : ledger'[v] = ledger[v]
    BY <1>1 DEF LedgerTyped
  <1>7. /\ n \in Nat /\ DOMAIN ledger[u] = 1..(n - 1) /\ DOMAIN ledger'[u] = 1..n
        /\ ledger'[u][n] = row
        /\ \A i \in DOMAIN ledger[u] : ledger'[u][i] = ledger[u][i]
    BY <1>2, <1>3, <1>5
  <1> QED BY <1>1, <1>2, <1>5, <1>6, <1>7 DEF row

\* Nothing that backs a row goes away.
LEMMA BackedKept ==
  ASSUME TablesGrow, NEW r, Backed(r)
  PROVE  Backed(r)'
  BY DEF Backed, TablesGrow

\* A row stays backed.
LEMMA BackedRowKept ==
  ASSUME TablesGrow, NEW u, NEW x, BackedRow(u, x)
  PROVE  BackedRow(u, x)'
  <1>1. PICK r \in Postable : Backed(r) /\ r.user = u /\ x = RowFor(r, x.after)
    BY DEF BackedRow
  <1>2. Backed(r)'
    BY <1>1, BackedKept
  <1> QED BY <1>1, <1>2 DEF BackedRow

\* The ledger is well typed, backed by the tables, and explains the balances;
\* no key is in it twice.
LedgerInv == LedgerTyped /\ RowsBacked /\ BalanceIsLatest /\ KeysPostedOnce

\* A step that posts nothing keeps the ledger as it is, ...
LEMMA LedgerKept ==
  ASSUME LedgerInv, TablesGrow, UNCHANGED ledger,
         UNCHANGED balance \/ \E u \in Users : Open(u)
  PROVE  LedgerInv'
  <1> USE ReportsAssumption
  <1>1. LedgerTyped' /\ BalanceIsLatest'
    <2>1. CASE UNCHANGED balance
      BY <2>1 DEF LedgerInv, LedgerTyped, BalanceIsLatest, Available, Latest
    <2>2. ASSUME NEW u \in Users, Open(u) PROVE LedgerTyped' /\ BalanceIsLatest'
      <3>1. LedgerTyped'
        BY <2>2 DEF LedgerInv, LedgerTyped, Open
      <3>2. \A v \in Users : Available(v)' = Available(v)
        BY <2>2 DEF LedgerInv, LedgerTyped, Open, Available
      <3> QED BY <3>1, <3>2 DEF LedgerInv, BalanceIsLatest, Latest
    <2> QED BY <2>1, <2>2
  <1>2. RowsBacked'
    BY BackedRowKept DEF LedgerInv, RowsBacked
  <1>3. KeysPostedOnce'
    BY DEF LedgerInv, KeysPostedOnce
  <1> QED BY <1>1, <1>2, <1>3 DEF LedgerInv

\* ... and one that posts a row keeps it sound.
LEMMA LedgerPosted ==
  ASSUME LedgerInv, TablesGrow, NEW r \in Postable, Backed(r)', Post(r)
  PROVE  LedgerInv'
  <1> USE ReportsAssumption
  <1> DEFINE u == r.user
             n == Len(ledger[u]) + 1
             row == RowFor(r, Available(u) + Effect(r))
  <1>0. LedgerTyped
    BY DEF LedgerInv
  <1>1. /\ u \in Users /\ n \in Nat /\ row \in Row
        /\ balance' = [balance EXCEPT ![u] = row.after]
        /\ ledger' \in [Users -> Seq(Row)]
        /\ ledger'[u] = Append(ledger[u], row)
        /\ DOMAIN ledger[u] = 1..(n - 1) /\ DOMAIN ledger'[u] = 1..n
        /\ ledger'[u][n] = row
        /\ \A i \in DOMAIN ledger[u] : ledger'[u][i] = ledger[u][i]
        /\ \A v \in Users \ {u} : ledger'[v] = ledger[v]
    BY <1>0, Posted1
  <1>2. row.after \in 0..MaxCredits /\ row.key = r.key /\ row = RowFor(r, row.after)
    BY <1>1 DEF Row, RowFor
  <1>3. r.key = NoKey \/ ~Posted(r.key)
    BY DEF Post
  <1> HIDE DEF row
  <1>4. LedgerTyped'
    BY <1>0, <1>1, <1>2 DEF LedgerTyped
  <1>5. RowsBacked'
    <2> SUFFICES ASSUME NEW v \in Users, NEW i \in DOMAIN ledger'[v]
                 PROVE  \E q \in Postable : /\ Backed(q)' /\ q.user = v
                                             /\ ledger'[v][i] = RowFor(q, ledger'[v][i].after)
      BY DEF RowsBacked, BackedRow
    <2>1. CASE v \in Users \ {u} \/ i \in DOMAIN ledger[u]
      <3>1. i \in DOMAIN ledger[v] /\ ledger'[v][i] = ledger[v][i]
        BY <1>1, <2>1
      <3>2. BackedRow(v, ledger[v][i])
        BY <3>1 DEF LedgerInv, RowsBacked
      <3> QED BY <3>1, <3>2, BackedKept DEF BackedRow
    <2>2. CASE v = u /\ i = n
      BY <1>1, <1>2, <2>2
    <2> QED BY <1>1, <2>1, <2>2
  <1>6. BalanceIsLatest'
    <2> SUFFICES ASSUME NEW v \in Users PROVE Available(v)' = Latest(v)'
      BY DEF BalanceIsLatest
    <2>1. CASE v = u
      <3>1. Len(ledger'[u]) = n /\ ledger'[u] # <<>>
        BY <1>0, <1>1 DEF LedgerTyped
      <3>2. balance'[u] = row.after
        BY <1>0, <1>1 DEF LedgerTyped
      <3> QED BY <1>1, <1>2, <2>1, <3>1, <3>2 DEF Available, Latest
    <2>2. CASE v # u
      BY <1>0, <1>1, <2>2 DEF LedgerInv, BalanceIsLatest, LedgerTyped, Available, Latest
    <2> QED BY <2>1, <2>2
  <1>7. KeysPostedOnce'
    <2> SUFFICES ASSUME NEW v \in Users, NEW w \in Users,
                        NEW i \in DOMAIN ledger'[v], NEW j \in DOMAIN ledger'[w],
                        ledger'[v][i].key # NoKey, ledger'[v][i].key = ledger'[w][j].key
                 PROVE  v = w /\ i = j
      BY DEF KeysPostedOnce
    <2> DEFINE old(x, k) == x \in Users \ {u} \/ k \in DOMAIN ledger[u]
    <2>1. \A x \in Users : \A k \in DOMAIN ledger'[x] :
             /\ old(x, k) => k \in DOMAIN ledger[x] /\ ledger'[x][k] = ledger[x][k]
             /\ ~old(x, k) => x = u /\ k = n /\ ledger'[x][k].key = r.key
      <3> SUFFICES ASSUME NEW x \in Users, NEW k \in DOMAIN ledger'[x]
                   PROVE  /\ old(x, k) => k \in DOMAIN ledger[x] /\ ledger'[x][k] = ledger[x][k]
                          /\ ~old(x, k) => x = u /\ k = n /\ ledger'[x][k].key = r.key
        OBVIOUS
      <3> HIDE DEF n, u
      <3>1. CASE x # u
        BY <1>1, <3>1
      <3>2. CASE x = u /\ k \in 1..(n - 1)
        BY <1>1, <3>2
      <3>3. CASE x = u /\ k = n
        BY <1>1, <1>2, <3>3
      <3> QED BY <1>1, <3>1, <3>2, <3>3
    <2>2. CASE old(v, i) /\ old(w, j)
      <3> HIDE DEF old
      <3> QED BY <2>1, <2>2 DEF LedgerInv, KeysPostedOnce
    <2>3. CASE ~old(v, i) /\ ~old(w, j)
      <3> HIDE DEF old
      <3> QED BY <2>1, <2>3
    <2>4. CASE (old(v, i) /\ ~old(w, j)) \/ (~old(v, i) /\ old(w, j))
      <3> HIDE DEF old
      <3> QED BY <1>3, <2>1, <2>4 DEF Posted
    <2> QED BY <2>2, <2>3, <2>4
  <1> QED BY <1>4, <1>5, <1>6, <1>7 DEF LedgerInv

\* What is not a step of a writer leaves the tables alone.
LEMMA OtherSteps ==
  ASSUME [ReportsNext]_reportsVars, ~Write
  PROVE  UNCHANGED tables
  BY DEF ReportsNext, CountRequest, CountError, BeginReport, Ask, EndReport,
         reportsVars

\* So every step does, and no table loses a row.
LEMMA LedgerStep ==
  ASSUME LedgerInv, ReportsTypeOK, [ReportsNext]_reportsVars
  PROVE  LedgerInv' /\ TablesGrow
  <1>1. CASE Write
    BY <1>1, WriteSteps, LedgerKept, LedgerPosted DEF ledgerVars, Open
  <1>2. CASE ~Write
    <2>1. UNCHANGED tables
      BY <1>2, OtherSteps
    <2>2. TablesGrow
      BY <2>1 DEF tables, TablesGrow
    <2> QED BY <2>1, <2>2, LedgerKept DEF tables
  <1> QED BY <1>1, <1>2

-----------------------------------------------------------------------------
(* Queries are asked in their order.                                       *)

\* No report asks the same query twice.
LEMMA QueriesDistinct ==
  ASSUME NEW kind \in DOMAIN Queries
  PROVE  /\ Len(Queries[kind]) \in Nat \ {0}
         /\ \A i, j \in 1..Len(Queries[kind]) : Queries[kind][i] = Queries[kind][j] => i = j
  <1>1. kind \in {"summary", "predictions", "detail", "page", "scrape"}
    BY DEF Queries
  <1>2. CASE kind = "summary"
    BY <1>2 DEF Queries, SummaryQueries
  <1>3. CASE kind = "predictions"
    BY <1>3 DEF Queries, PredictionListQueries
  <1>4. CASE kind = "detail"
    BY <1>4 DEF Queries, UserDetailQueries
  <1>5. CASE kind = "page"
    BY <1>5 DEF Queries, PageQueries
  <1>6. CASE kind = "scrape"
    BY <1>6 DEF Queries, ScrapeQueries
  <1> QED BY <1>1, <1>2, <1>3, <1>4, <1>5, <1>6

\* The first n queries of the report under way have been asked.
Asked(n) == /\ n \in 0..Len(Queries[report])
            /\ DOMAIN got = {Queries[report][i] : i \in 1..n}

\* There are as many figures as queries asked.
LEMMA AskedNumber ==
  ASSUME report \in DOMAIN Queries, NEW n, Asked(n)
  PROVE  Cardinality(DOMAIN got) = n
  <1> DEFINE f == [i \in 1..n |-> Queries[report][i]]
             S == {Queries[report][i] : i \in 1..n}
  <1>0. n \in Nat /\ 1..n \subseteq 1..Len(Queries[report])
    BY QueriesDistinct DEF Asked
  <1>1. \A i, j \in 1..n : f[i] = f[j] => i = j
    BY <1>0, QueriesDistinct
  <1>2. f \in Bijection(1..n, S)
    BY <1>1, Zenon DEF Bijection, Injection, Surjection, IsInjective
  <1>3. IsFiniteSet(1..n) /\ Cardinality(1..n) = n
    BY <1>0, FS_Interval
  <1>4. ExistsBijection(1..n, S)
    BY <1>2 DEF ExistsBijection
  <1> HIDE DEF S
  <1>5. Cardinality(S) = n
    BY ONLY <1>3, <1>4, FS_Bijection
  <1> QED BY <1>5 DEF Asked, S

\* What the next query adds to the figures of a report.
LEMMA AskStep ==
  ASSUME ReportsTypeOK, Ask
  PROVE  /\ report \in DOMAIN Queries
         /\ \E n \in 1..Len(Queries[report]) :
              /\ NextQuery = Queries[report][n]
              /\ \A i \in 1..Len(Queries[report]) :
                    Queries[report][i] \in DOMAIN got <=> i < n
              /\ DOMAIN got' = DOMAIN got \cup {NextQuery}
              /\ DOMAIN got' = {Queries[report][i] : i \in 1..n}
              /\ got'[NextQuery] = Answer[NextQuery]
              /\ \A q \in DOMAIN got : q # NextQuery /\ got'[q] = got[q]
  <1> DEFINE Q == Queries[report]
  <1>1. report \in DOMAIN Queries
    BY DEF Ask, ReportsTypeOK
  <1>2. PICK n : Asked(n)
    BY <1>1, ReportsAssumption DEF ReportsTypeOK, Asked, Queries
  <1>3. /\ Len(Q) \in Nat \ {0} /\ n \in 0..Len(Q)
        /\ \A i, j \in 1..Len(Q) : Q[i] = Q[j] => i = j
    BY <1>1, <1>2, QueriesDistinct DEF Asked
  <1>4. Cardinality(DOMAIN got) = n /\ n # Len(Q)
    BY <1>1, <1>2, AskedNumber DEF Ask, Complete
  <1>5. NextQuery = Q[n + 1] /\ n + 1 \in 1..Len(Q)
    BY <1>3, <1>4 DEF NextQuery
  <1>6. DOMAIN got = {Q[i] : i \in 1..n}
    BY <1>2 DEF Asked
  <1> HIDE DEF Q
  <1>7. \A i \in 1..Len(Q) : Q[i] \in DOMAIN got <=> i < n + 1
    BY <1>3, <1>6
  <1>8. /\ DOMAIN got' = DOMAIN got \cup {NextQuery}
        /\ got'[NextQuery] = Answer[NextQuery]
        /\ \A q \in DOMAIN got : q # NextQuery => got'[q] = got[q]
    BY DEF Ask
  <1>9. NextQuery \notin DOMAIN got
    BY <1>5, <1>7
  <1>10. DOMAIN got' = {Q[i] : i \in 1..(n + 1)}
    BY <1>3, <1>5, <1>6, <1>8
  <1> QED BY <1>1, <1>5, <1>7, <1>8, <1>9, <1>10 DEF Q

\* A report that is complete has asked every query.
LEMMA AllAsked ==
  ASSUME ReportsTypeOK, Complete
  PROVE  DOMAIN got = {Queries[report][i] : i \in 1..Len(Queries[report])}
  <1>1. report \in DOMAIN Queries
    BY DEF Complete, ReportsTypeOK
  <1>2. PICK n : Asked(n)
    BY <1>1, ReportsAssumption DEF ReportsTypeOK, Asked, Queries
  <1>3. n = Len(Queries[report])
    BY <1>1, <1>2, AskedNumber DEF Complete
  <1> QED BY <1>2, <1>3 DEF Asked

-----------------------------------------------------------------------------
(* The registry.                                                           *)

Answered(c, states) == Cardinality({h \in Threads : Status[h] = c /\ thread[h] \in states})

\* The counters are the numbers of the answers whose threads have got so far.
Counted ==
    /\ thread \in [Threads -> {"serving", "counted", "done"}]
    /\ requests = [c \in Codes |-> Answered(c, {"counted", "done"})]
    /\ errors = [c \in Codes |-> IF c >= 400 THEN Answered(c, {"done"}) ELSE 0]

\* A thread that gets further is counted once.
LEMMA OneMore ==
  ASSUME thread \in [Threads -> {"serving", "counted", "done"}],
         NEW h \in Threads, NEW s \in {"serving", "counted", "done"}, NEW states,
         thread' = [thread EXCEPT ![h] = s], NEW c \in Codes
  PROVE  /\ Answered(c, states) \in Nat
         /\ thread[h] \notin states /\ s \in states =>
               Answered(c, states)' = IF c = Status[h] THEN Answered(c, states) + 1
                                      ELSE Answered(c, states)
         /\ (thread[h] \in states <=> s \in states) =>
               Answered(c, states)' = Answered(c, states)
  <1> DEFINE A == {x \in Threads : Status[x] = c /\ thread[x] \in states}
             B == {x \in Threads : Status[x] = c /\ thread'[x] \in states}
  <1>1. IsFiniteSet(A)
    <2>1. A \in SUBSET Threads
      OBVIOUS
    <2> HIDE DEF A
    <2> QED BY <2>1, ReportsAssumption, FS_Subset
  <1>2. Cardinality(A) \in Nat
    <2> HIDE DEF A
    <2> QED BY <1>1, FS_CardinalityType
  <1>3. Answered(c, states) = Cardinality(A) /\ Answered(c, states)' = Cardinality(B)
    BY DEF Answered
  <1>4. CASE thread[h] \notin states /\ s \in states
    <2>1. B = IF c = Status[h] THEN A \cup {h} ELSE A
      BY <1>4
    <2>2. h \notin A
      BY <1>4
    <2> HIDE DEF A, B
    <2>3. Cardinality(A \cup {h}) = Cardinality(A) + 1
      BY <2>2, <1>1, FS_AddElement
    <2> QED BY <2>1, <2>3, <1>2, <1>3, <1>4
  <1>5. CASE thread[h] \in states <=> s \in states
    <2>1. B = A
      BY <1>5
    <2> HIDE DEF A, B
    <2> QED BY <2>1, <1>2, <1>3, <1>5
  <1> HIDE DEF A, B
  <1> QED BY <1>2, <1>3, <1>4, <1>5

\* Every step counts what it should.
LEMMA CountedStep ==
  ASSUME Counted, [ReportsNext]_reportsVars
  PROVE  Counted'
  <1>1. CASE UNCHANGED registry
    BY <1>1 DEF Counted, registry, Answered
  <1>2. ASSUME NEW h \in Threads, CountRequest(h) PROVE Counted'
    <2>1. /\ thread[h] = "serving" /\ thread' = [thread EXCEPT ![h] = "counted"]
          /\ requests' = [requests EXCEPT ![Status[h]] = @ + 1] /\ errors' = errors
      BY <1>2 DEF CountRequest
    <2>2. \A c \in Codes :
             /\ Answered(c, {"counted", "done"})' = IF c = Status[h]
                   THEN Answered(c, {"counted", "done"}) + 1 ELSE Answered(c, {"counted", "done"})
             /\ Answered(c, {"done"})' = Answered(c, {"done"})
      BY <2>1, OneMore DEF Counted
    <2>3. requests' = [c \in Codes |-> Answered(c, {"counted", "done"})']
      BY <2>1, <2>2 DEF Counted
    <2>4. errors' = [c \in Codes |-> IF c >= 400 THEN Answered(c, {"done"})' ELSE 0]
      BY <2>1, <2>2 DEF Counted
    <2>5. thread' \in [Threads -> {"serving", "counted", "done"}]
      BY <2>1 DEF Counted
    <2> QED BY <2>3, <2>4, <2>5 DEF Counted
  <1>3. ASSUME NEW h \in Threads, CountError(h) PROVE Counted'
    <2>1. /\ thread[h] = "counted" /\ thread' = [thread EXCEPT ![h] = "done"]
          /\ errors' = [errors EXCEPT ![Status[h]] = IF Status[h] >= 400 THEN @ + 1 ELSE @]
          /\ requests' = requests
      BY <1>3 DEF CountError
    <2>2. \A c \in Codes :
             /\ Answered(c, {"done"})' = IF c = Status[h]
                   THEN Answered(c, {"done"}) + 1 ELSE Answered(c, {"done"})
             /\ Answered(c, {"counted", "done"})' = Answered(c, {"counted", "done"})
      BY <2>1, OneMore DEF Counted
    <2>3. requests' = [c \in Codes |-> Answered(c, {"counted", "done"})']
      BY <2>1, <2>2 DEF Counted
    <2>4. errors' = [c \in Codes |-> IF c >= 400 THEN Answered(c, {"done"})' ELSE 0]
      BY <2>1, <2>2 DEF Counted
    <2>5. thread' \in [Threads -> {"serving", "counted", "done"}]
      BY <2>1 DEF Counted
    <2> QED BY <2>3, <2>4, <2>5 DEF Counted
  <1> QED BY <1>1, <1>2, <1>3
          DEF ReportsNext, Write, BeginReport, Ask, EndReport, reportsVars, registry

\* With the lock free, no answer is in one of the counters only.
LEMMA LockFree ==
  ASSUME Counted, LockIsFree, NEW c \in Codes
  PROVE  errors[c] = IF c >= 400 THEN requests[c] ELSE 0
  <1>1. {h \in Threads : Status[h] = c /\ thread[h] \in {"counted", "done"}}
          = {h \in Threads : Status[h] = c /\ thread[h] \in {"done"}}
    BY DEF LockIsFree
  <1> QED BY <1>1 DEF Counted, Answered

-----------------------------------------------------------------------------
(* Type correctness.                                                       *)

\* The counters count threads.
LEMMA CountersTyped ==
  ASSUME Counted
  PROVE  /\ requests \in [Codes -> 0..Cardinality(Threads)]
         /\ errors \in [Codes -> 0..Cardinality(Threads)]
  <1>1. ASSUME NEW c \in Codes, NEW states
        PROVE  Answered(c, states) \in 0..Cardinality(Threads)
    <2> DEFINE A == {h \in Threads : Status[h] = c /\ thread[h] \in states}
    <2>1. A \in SUBSET Threads
      OBVIOUS
    <2> HIDE DEF A
    <2>2. Cardinality(A) \in Nat /\ Cardinality(Threads) \in Nat
          /\ Cardinality(A) <= Cardinality(Threads)
      BY <2>1, ReportsAssumption, FS_Subset, FS_CardinalityType
    <2> QED BY <2>2 DEF Answered, A
  <1>2. 0 \in 0..Cardinality(Threads)
    BY ReportsAssumption, FS_CardinalityType
  <1> QED BY <1>1, <1>2 DEF Counted

\* The rows of the tables have their types.
TablesTyped ==
    /\ task \in [Tasks -> {"queued", "running", "succeeded", "failed", Nothing}]
    /\ payment \in [Payments -> {"pending", "succeeded", Nothing}]
    /\ redeemed \subseteq Users

\* Writers keep the types of the rows.
LEMMA TablesStep ==
  ASSUME TablesTyped, Write
  PROVE  TablesTyped'
  <1>1. ASSUME NEW t \in Tasks, CreateTask(t) \/ RunTask(t) \/ SucceedTask(t) \/ FailTask(t)
        PROVE  TablesTyped'
    BY <1>1 DEF CreateTask, RunTask, SucceedTask, FailTask, SetTask, TablesTyped
  <1>2. ASSUME NEW p \in Payments, CreatePayment(p) \/ ConfirmPayment(p)
        PROVE  TablesTyped'
    BY <1>2 DEF CreatePayment, ConfirmPayment, TablesTyped
  <1>3. ASSUME NEW u \in Users, Redeem(u) \/ OpenBalance(u)
        PROVE  TablesTyped'
    BY <1>3 DEF Redeem, OpenBalance, TablesTyped
  <1>4. ASSUME NEW r \in Adjustments, Adjust(r)
        PROVE  TablesTyped'
    BY <1>4 DEF Adjust, TablesTyped
  <1> QED BY <1>1, <1>2, <1>3, <1>4 DEF Write

\* The report under way has asked its first queries; without one there is
\* nothing.
ReportTyped ==
    /\ report \in DOMAIN Queries \cup {Nothing}
    /\ IF report = Nothing THEN got = <<>> ELSE \E n : Asked(n)

\* The type invariant is made of these parts.
LEMMA TypeParts ==
  /\ ReportsTypeOK => TablesTyped /\ ReportTyped
  /\ TablesTyped /\ ReportTyped /\ LedgerInv /\ Counted => ReportsTypeOK
  BY CountersTyped
     DEF ReportsTypeOK, TablesTyped, ReportTyped, LedgerInv, LedgerTyped, Counted, Asked

\* A report goes from query to query.
LEMMA ReportStep ==
  ASSUME ReportsTypeOK, [ReportsNext]_reportsVars
  PROVE  ReportTyped'
  <1>0. ReportTyped
    BY TypeParts
  <1>1. CASE UNCHANGED <<report, got>>
    BY <1>0, <1>1 DEF ReportTyped, Asked
  <1>2. ASSUME NEW kind \in DOMAIN Queries, BeginReport(kind) PROVE ReportTyped'
    <2>1. report' = kind /\ got' = <<>>
      BY <1>0, <1>2 DEF BeginReport, ReportTyped
    <2>2. DOMAIN <<>> = {Queries[kind][i] : i \in 1..0}
      OBVIOUS
    <2>3. Asked(0)'
      BY <2>1, <2>2, QueriesDistinct DEF Asked
    <2>4. kind # Nothing
      BY ReportsAssumption DEF Queries
    <2> QED BY <2>1, <2>3, <2>4 DEF ReportTyped
  <1>3. ASSUME Ask PROVE ReportTyped'
    <2>1. /\ report \in DOMAIN Queries /\ report' = report
          /\ \E n \in 1..Len(Queries[report]) :
                DOMAIN got' = {Queries[report][i] : i \in 1..n}
      BY <1>3, AskStep DEF Ask
    <2>2. report # Nothing /\ Len(Queries[report]) \in Nat
      BY <1>3, <2>1, QueriesDistinct DEF Ask
    <2>3. \E n : Asked(n)'
      BY <2>1, <2>2 DEF Asked
    <2> QED BY <2>1, <2>2, <2>3 DEF ReportTyped
  <1>4. ASSUME EndReport PROVE ReportTyped'
    BY <1>4 DEF EndReport, ReportTyped
  <1> QED BY <1>1, <1>2, <1>3, <1>4
          DEF ReportsNext, Write, CountRequest, CountError, reportsVars

\* What every theorem below starts from.
ReportsInv == ReportsTypeOK /\ LedgerInv /\ Counted

\* The invariant holds at first ...
LEMMA ReportsInitInv == ReportsInit => ReportsInv
  <1> SUFFICES ASSUME ReportsInit PROVE ReportsInv
    OBVIOUS
  <1> USE ReportsAssumption
  <1>1. TablesTyped /\ ReportTyped
    BY DEF ReportsInit, TablesTyped, ReportTyped
  <1>2. LedgerInv
    <2>0. \A u \in Users : ledger[u] = <<>> /\ Available(u) = 0
      BY DEF ReportsInit, LedgerInit, Available
    <2>1. \A u \in Users : ledger[u] = <<>> /\ DOMAIN ledger[u] = {} /\ Available(u) = 0
      <3>1. DOMAIN <<>> = {}
        OBVIOUS
      <3> QED BY <2>0, <3>1
    <2>2. LedgerTyped
      BY DEF ReportsInit, LedgerInit, LedgerTyped
    <2> QED BY <2>1, <2>2 DEF LedgerInv, RowsBacked, BalanceIsLatest, Latest, KeysPostedOnce
  <1>3. Counted
    <2>1. ASSUME NEW c, NEW states, states \subseteq {"counted", "done"}
          PROVE  Answered(c, states) = 0
      <3>1. {h \in Threads : Status[h] = c /\ thread[h] \in states} = {}
        BY <2>1 DEF ReportsInit
      <3> QED BY <3>1, FS_EmptySet DEF Answered
    <2> QED BY <2>1 DEF ReportsInit, Counted
  <1> QED BY <1>1, <1>2, <1>3, TypeParts DEF ReportsInv

\* ... and no step breaks it.
LEMMA ReportsStepInv == ReportsInv /\ [ReportsNext]_reportsVars => ReportsInv'
  <1> SUFFICES ASSUME ReportsInv, [ReportsNext]_reportsVars PROVE ReportsInv'
    OBVIOUS
  <1>1. LedgerInv' /\ Counted'
    BY LedgerStep, CountedStep DEF ReportsInv
  <1>2. ReportTyped'
    BY ReportStep DEF ReportsInv
  <1>3. TablesTyped'
    <2>1. TablesTyped
      BY TypeParts DEF ReportsInv
    <2> QED BY <2>1, TablesStep, OtherSteps DEF tables, TablesTyped
  <1> QED BY <1>1, <1>2, <1>3, TypeParts, PTL DEF ReportsInv

\* The tables, the registry and the report under way always fit together.
THEOREM ReportsInvariant == ReportsSpec => []ReportsInv
  <1> QED BY ReportsInitInv, ReportsStepInv, PTL DEF ReportsSpec

\* Rows, counters and figures have their types, whatever is read while others
\* write.
THEOREM ReportsTypeCorrect == ReportsSpec => []ReportsTypeOK
  <1>1. ReportsInv => ReportsTypeOK
    BY DEF ReportsInv
  <1> QED BY <1>1, ReportsInvariant, PTL

-----------------------------------------------------------------------------
(* Reports: each figure, once asked, is in a relation to the tables that   *)
(* no later step breaks.                                                   *)

\* Which figures a report asks for.
LEMMA Answers ==
  /\ report = "summary" => Answer = SummaryFigures
  /\ report = "predictions" => Answer = PredictionList
  /\ report = "detail" => Answer = UserDetail
  /\ report = "scrape" => Answer = Scrape
  /\ report = "page" => Answer = Page
  BY DEF Answer

\* A step leaves the report alone, begins or ends one, or asks a query.
LEMMA GotSteps ==
  ASSUME ReportsTypeOK, [ReportsNext]_reportsVars
  PROVE  \/ UNCHANGED <<report, got>>
         \/ DOMAIN got' = {}
         \/ Ask /\ UNCHANGED <<tables, registry, report>>
  <1>1. ASSUME NEW kind \in DOMAIN Queries, BeginReport(kind) PROVE DOMAIN got' = {}
    <2>1. got' = <<>> /\ DOMAIN <<>> = {}
      BY <1>1 DEF BeginReport, ReportsTypeOK
    <2> QED BY <2>1
  <1>2. ASSUME EndReport PROVE DOMAIN got' = {}
    <2>1. got' = <<>> /\ DOMAIN <<>> = {}
      BY <1>2 DEF EndReport
    <2> QED BY <2>1
  <1>3. ASSUME Ask PROVE UNCHANGED <<tables, registry, report>>
    BY <1>3 DEF Ask
  <1> QED BY <1>1, <1>2, <1>3
          DEF ReportsNext, Write, CountRequest, CountError, reportsVars

\* The counters that a scrape has copied agree.
ScrapeInv ==
    report = "scrape" /\ "http" \in DOMAIN got =>
        \A c \in Codes :
            got.http.errors[c] = IF c >= 400 THEN got.http.requests[c] ELSE 0

\* The lock is free when the counters are copied, so that they agree.
LEMMA ScrapeStep ==
  ASSUME ReportsInv, ScrapeInv, [ReportsNext]_reportsVars
  PROVE  ScrapeInv'
  <1>1. CASE UNCHANGED <<report, got>>
    BY <1>1 DEF ScrapeInv
  <1>2. CASE DOMAIN got' = {}
    BY <1>2 DEF ScrapeInv
  <1>3. CASE Ask /\ report' = report
    <2> SUFFICES ASSUME report = "scrape", "http" \in DOMAIN got'
                 PROVE  \A c \in Codes : got'["http"].errors[c] =
                            IF c >= 400 THEN got'["http"].requests[c] ELSE 0
      BY <1>3 DEF ScrapeInv
    <2>1. /\ DOMAIN got' = DOMAIN got \cup {NextQuery}
          /\ got'[NextQuery] = Answer[NextQuery]
          /\ \A q \in DOMAIN got : q # NextQuery /\ got'[q] = got[q]
      BY <1>3, AskStep DEF ReportsInv
    <2>2. CASE NextQuery = "http"
      <3>1. got'["http"] = [requests |-> requests, errors |-> errors]
        BY <2>1, <2>2, Answers DEF Scrape, HttpFigures
      <3>2. LockIsFree
        BY <1>3, <2>2 DEF Ask, MayAsk
      <3> QED BY <3>1, <3>2, LockFree DEF ReportsInv
    <2>3. CASE "http" \in DOMAIN got
      <3>1. got'["http"] = got["http"]
        BY <2>1, <2>3
      <3> QED BY <3>1, <2>3 DEF ScrapeInv
    <2> QED BY <2>1, <2>2, <2>3
  <1> QED BY <1>1, <1>2, <1>3, GotSteps DEF ReportsInv

\* A scrape sees every answer of the API in both counters or in none.
THEOREM ScrapeConsistent == ReportsSpec => []ScrapeIsConsistent
  <1>1. ReportsInit => ScrapeInv
    BY ReportsAssumption DEF ReportsInit, ScrapeInv
  <1>2. ReportsInv /\ ScrapeInv /\ [ReportsNext]_reportsVars => ScrapeInv'
    BY ScrapeStep
  <1>3. ReportsInv /\ ScrapeInv => ScrapeIsConsistent
    <2> SUFFICES ASSUME ReportsInv, ScrapeInv, Shown("scrape") PROVE ScrapeIsConsistent
      BY DEF ScrapeIsConsistent
    <2>1. "http" = Queries["scrape"][1] /\ 1 \in 1..Len(Queries["scrape"])
      BY DEF Queries, ScrapeQueries
    <2>2. "http" \in DOMAIN got
      BY <2>1, AllAsked DEF ReportsInv, Shown
    <2> QED BY <2>2 DEF ScrapeInv, ScrapeIsConsistent, Shown
  <1> QED BY <1>1, <1>2, <1>3, ReportsInvariant, PTL DEF ReportsSpec

\* What backs a row, by the type of the row.
LEMMA RowSources ==
  ASSUME NEW u, NEW x, BackedRow(u, x)
  PROVE  /\ x.type = "payment_credit" =>
               /\ x.source \in Payments /\ Owner[x.source] = u
               /\ payment[x.source] = "succeeded"
               /\ x.amount = Credits /\ x.key = Purchase(x.source).key
               /\ x.direction = "credit"
         /\ x.type = "prediction_debit" =>
               /\ x.source \in Tasks /\ Owner[x.source] = u
               /\ task[x.source] # Nothing
               /\ x.amount = Price /\ x.key = Charge(x.source).key
               /\ x.direction = "debit"
         /\ x.type = "promo_credit" =>
               /\ u \in redeemed
               /\ x.amount = Reward /\ x.key = Grant(u).key
               /\ x.direction = "credit"
  <1>1. PICK r \in Postable : Backed(r) /\ r.user = u /\ x = RowFor(r, x.after)
    BY DEF BackedRow
  <1>2. /\ x.type = r.type /\ x.source = r.source /\ x.amount = r.amount /\ x.key = r.key
        /\ x.direction = r.direction
    BY <1>1 DEF RowFor
  <1>3. CASE \E t \in Tasks : task[t] # Nothing /\ r = Charge(t)
    BY <1>1, <1>2, <1>3 DEF Charge
  <1>4. CASE \E p \in Payments : payment[p] = "succeeded" /\ r = Purchase(p)
    BY <1>1, <1>2, <1>4 DEF Purchase
  <1>5. CASE \E v \in redeemed : r = Grant(v)
    BY <1>1, <1>2, <1>5 DEF Grant
  <1>6. CASE r \in Adjustments
    BY <1>2, <1>6 DEF Adjustments
  <1> QED BY <1>1, <1>3, <1>4, <1>5, <1>6 DEF Backed

\* A figure has been asked for after those of the queries before it.
LEMMA AskedBefore ==
  ASSUME ReportsTypeOK, report \in DOMAIN Queries,
         NEW j \in 1..Len(Queries[report]), NEW i \in 1..j, Queries[report][j] \in DOMAIN got
  PROVE  Queries[report][i] \in DOMAIN got
  <1>1. PICK n : Asked(n)
    BY ReportsAssumption DEF ReportsTypeOK, Asked, Queries
  <1>2. PICK k \in 1..n : Queries[report][k] = Queries[report][j]
    BY <1>1 DEF Asked
  <1>3. n \in Nat /\ n <= Len(Queries[report]) /\ Len(Queries[report]) \in Nat
    BY <1>1, QueriesDistinct DEF Asked
  <1>4. k = j
    BY <1>2, <1>3, QueriesDistinct
  <1>5. i \in 1..n
    BY <1>4, <1>3
  <1> QED BY <1>1, <1>5 DEF Asked

RowsShown == {got.own_transactions[i] : i \in DOMAIN got.own_transactions}

BalanceFound ==
    got.own_balance \in {0} \cup {ledger[Viewer][i].after : i \in DOMAIN ledger[Viewer]}
RowsExplain ==
    /\ got.own_balance \in {0} \cup {x.after : x \in RowsShown}
    /\ \A x \in RowsShown : BackedRow(Viewer, x)
PaymentsExplain ==
    \A x \in RowsShown : x.type = "payment_credit" => got.own_payments[x.source] = "succeeded"
PredictionsExplain ==
    \A x \in RowsShown : x.type = "prediction_debit" => got.own_predictions[x.source] # Nothing
RedemptionsExplain ==
    \A x \in RowsShown : x.type = "promo_credit" => Viewer \in got.own_redemptions

\* The balance that a page has is explained by the ledger until the rows are
\* read, then by these rows; each row is backed by the tables until the payments,
\* predictions and redemptions are read, then by these.
PageInv ==
    report = "page" =>
        /\ "own_balance" \in DOMAIN got => BalanceFound
        /\ "own_transactions" \in DOMAIN got => RowsExplain
        /\ "own_payments" \in DOMAIN got => PaymentsExplain
        /\ "own_predictions" \in DOMAIN got => PredictionsExplain
        /\ "own_redemptions" \in DOMAIN got => RedemptionsExplain

\* The rows of the ledger stay and only get more.
LEMMA LedgerGrows ==
  ASSUME LedgerInv, ReportsTypeOK, [ReportsNext]_reportsVars, NEW u \in Users
  PROVE  /\ DOMAIN ledger[u] \subseteq DOMAIN ledger'[u]
         /\ \A i \in DOMAIN ledger[u] : ledger'[u][i] = ledger[u][i]
  <1>1. CASE UNCHANGED ledger
    BY <1>1
  <1>2. ASSUME NEW r \in Postable, Post(r)
        PROVE  /\ DOMAIN ledger[u] \subseteq DOMAIN ledger'[u]
               /\ \A i \in DOMAIN ledger[u] : ledger'[u][i] = ledger[u][i]
    <2>1. CASE u = r.user
      BY <1>2, <2>1, Posted1 DEF LedgerInv
    <2>2. CASE u # r.user
      BY <1>2, <2>2, Posted1 DEF LedgerInv
    <2> QED BY <2>1, <2>2
  <1>3. CASE Write
    BY <1>1, <1>2, <1>3, WriteSteps DEF ledgerVars, Open
  <1> QED BY <1>1, <1>3, OtherSteps DEF tables

\* Steps of others leave a page as explained as it is.
LEMMA PageKept ==
  ASSUME ReportsInv, PageInv, [ReportsNext]_reportsVars, UNCHANGED <<report, got>>
  PROVE  PageInv'
  <1>1. BalanceFound => BalanceFound'
    BY LedgerGrows, ReportsAssumption DEF BalanceFound, ReportsInv
  <1>2. RowsExplain => RowsExplain'
    <2>1. TablesGrow /\ RowsShown' = RowsShown
      BY LedgerStep DEF ReportsInv, RowsShown
    <2>2. \A x : BackedRow(Viewer, x) => BackedRow(Viewer, x)'
      BY <2>1, BackedRowKept
    <2> QED BY <2>1, <2>2 DEF RowsExplain
  <1> QED BY <1>1, <1>2
          DEF PageInv, PaymentsExplain, PredictionsExplain, RedemptionsExplain, RowsShown

\* The next request of a page finds what explains the ones before.
LEMMA PageAsks ==
  ASSUME ReportsInv, PageInv, Ask, UNCHANGED <<tables, report>>, report = "page"
  PROVE  PageInv'
  <1> USE ReportsAssumption
  <1>0. ReportsTypeOK /\ LedgerInv
    BY DEF ReportsInv
  <1>1. /\ DOMAIN got' = DOMAIN got \cup {NextQuery}
        /\ got'[NextQuery] = Page[NextQuery]
        /\ \A q \in DOMAIN got : q # NextQuery /\ got'[q] = got[q]
    BY <1>0, AskStep, Answers
  <1>2. /\ "own_transactions" \in DOMAIN got' => "own_balance" \in DOMAIN got
        /\ "own_payments" \in DOMAIN got' => "own_transactions" \in DOMAIN got
        /\ "own_predictions" \in DOMAIN got' => "own_transactions" \in DOMAIN got
        /\ "own_redemptions" \in DOMAIN got' => "own_transactions" \in DOMAIN got
    <2>1. Queries["page"] = PageQueries /\ Len(PageQueries) = 5
      BY DEF Queries, PageQueries
    <2>2. \E n \in 1..5 : /\ NextQuery = PageQueries[n]
                          /\ \A i \in 1..5 : PageQueries[i] \in DOMAIN got <=> i < n
      BY <1>0, <2>1, AskStep
    <2> QED BY <1>1, <2>2 DEF PageQueries
  <1>3. \A q \in DOMAIN got' : q = NextQuery \/ (q \in DOMAIN got /\ got'[q] = got[q])
    BY <1>1
  <1>4. "own_transactions" \in DOMAIN got =>
            RowsShown' = RowsShown /\ \A x \in RowsShown : BackedRow(Viewer, x)
    BY <1>1 DEF RowsShown, PageInv, RowsExplain
  <1>5. "own_balance" \in DOMAIN got' => BalanceFound'
    <2>1. CASE NextQuery = "own_balance"
      <3>1. got'["own_balance"] = Available(Viewer)
        BY <1>1, <2>1 DEF Page, OwnBalance
      <3>2. Available(Viewer) = Latest(Viewer) /\ ledger[Viewer] \in Seq(Row)
        BY <1>0 DEF LedgerInv, BalanceIsLatest, LedgerTyped
      <3>3. Latest(Viewer) \in {0} \cup {ledger[Viewer][i].after : i \in DOMAIN ledger[Viewer]}
        BY <3>2 DEF Latest
      <3> QED BY <3>1, <3>2, <3>3 DEF BalanceFound, tables
    <2>2. CASE "own_balance" \in DOMAIN got
      BY <1>1, <2>2 DEF PageInv, BalanceFound, tables
    <2> QED BY <1>3, <2>1, <2>2
  <1>6. "own_transactions" \in DOMAIN got' => RowsExplain'
    <2> SUFFICES ASSUME "own_transactions" \in DOMAIN got' PROVE RowsExplain'
      OBVIOUS
    <2>1. got'["own_balance"] = got["own_balance"] /\ "own_balance" \in DOMAIN got
      BY <1>1, <1>2
    <2>2. \A x : BackedRow(Viewer, x) => BackedRow(Viewer, x)'
      BY DEF BackedRow, Backed, tables
    <2>3. CASE NextQuery = "own_transactions"
      <3>1. got'["own_transactions"] = ledger[Viewer]
        BY <1>1, <2>3 DEF Page, OwnTransactions
      <3>2. RowsShown' = {ledger[Viewer][i] : i \in DOMAIN ledger[Viewer]}
        BY <3>1 DEF RowsShown
      <3>3. got'["own_balance"] \in {0} \cup {x.after : x \in RowsShown'}
        BY <2>1, <3>2 DEF PageInv, BalanceFound
      <3>4. \A x \in RowsShown' : BackedRow(Viewer, x)
        BY <1>0, <3>2 DEF LedgerInv, RowsBacked
      <3> QED BY <2>2, <3>3, <3>4 DEF RowsExplain
    <2>4. CASE "own_transactions" \in DOMAIN got
      <3>1. RowsShown' = RowsShown /\ RowsExplain
        BY <1>4, <2>4 DEF PageInv
      <3> QED BY <2>1, <2>2, <3>1 DEF RowsExplain
    <2> QED BY <1>3, <2>3, <2>4
  <1>7. "own_payments" \in DOMAIN got' => PaymentsExplain'
    <2> SUFFICES ASSUME "own_payments" \in DOMAIN got' PROVE PaymentsExplain'
      OBVIOUS
    <2>1. RowsShown' = RowsShown /\ \A x \in RowsShown : BackedRow(Viewer, x)
      BY <1>2, <1>4
    <2>2. CASE NextQuery = "own_payments"
      <3>1. got'["own_payments"] = OwnPayments
        BY <1>1, <2>2 DEF Page
      <3>2. \A x \in RowsShown : x.type = "payment_credit" => OwnPayments[x.source] = "succeeded"
        BY <2>1, RowSources DEF OwnPayments
      <3> QED BY <2>1, <3>1, <3>2 DEF PaymentsExplain
    <2>3. CASE "own_payments" \in DOMAIN got
      BY <1>1, <2>1, <2>3 DEF PageInv, PaymentsExplain
    <2> QED BY <1>3, <2>2, <2>3
  <1>8. "own_predictions" \in DOMAIN got' => PredictionsExplain'
    <2> SUFFICES ASSUME "own_predictions" \in DOMAIN got' PROVE PredictionsExplain'
      OBVIOUS
    <2>1. RowsShown' = RowsShown /\ \A x \in RowsShown : BackedRow(Viewer, x)
      BY <1>2, <1>4
    <2>2. CASE NextQuery = "own_predictions"
      <3>1. got'["own_predictions"] = OwnPredictions
        BY <1>1, <2>2 DEF Page
      <3>2. \A x \in RowsShown : x.type = "prediction_debit" => OwnPredictions[x.source] # Nothing
        BY <2>1, RowSources DEF OwnPredictions
      <3> QED BY <2>1, <3>1, <3>2 DEF PredictionsExplain
    <2>3. CASE "own_predictions" \in DOMAIN got
      BY <1>1, <2>1, <2>3 DEF PageInv, PredictionsExplain
    <2> QED BY <1>3, <2>2, <2>3
  <1>9. "own_redemptions" \in DOMAIN got' => RedemptionsExplain'
    <2> SUFFICES ASSUME "own_redemptions" \in DOMAIN got' PROVE RedemptionsExplain'
      OBVIOUS
    <2>1. RowsShown' = RowsShown /\ \A x \in RowsShown : BackedRow(Viewer, x)
      BY <1>2, <1>4
    <2>2. CASE NextQuery = "own_redemptions"
      <3>1. got'["own_redemptions"] = OwnRedemptions
        BY <1>1, <2>2 DEF Page
      <3>2. \A x \in RowsShown : x.type = "promo_credit" => Viewer \in OwnRedemptions
        BY <2>1, RowSources DEF OwnRedemptions
      <3> QED BY <2>1, <3>1, <3>2 DEF RedemptionsExplain
    <2>3. CASE "own_redemptions" \in DOMAIN got
      BY <1>1, <2>1, <2>3 DEF PageInv, RedemptionsExplain
    <2> QED BY <1>3, <2>2, <2>3
  <1> QED BY <1>5, <1>6, <1>7, <1>8, <1>9 DEF PageInv

\* No step leaves a page unexplained.
LEMMA PageStep ==
  ASSUME ReportsInv, PageInv, [ReportsNext]_reportsVars
  PROVE  PageInv'
  <1>1. CASE DOMAIN got' = {}
    BY <1>1 DEF PageInv
  <1>2. CASE Ask /\ UNCHANGED <<tables, registry, report>>
    BY <1>2, PageAsks DEF PageInv
  <1> QED BY <1>1, <1>2, PageKept, GotSteps DEF ReportsInv

\* A user's page explains itself, although its requests are answered at
\* different moments.
THEOREM PageExplains == ReportsSpec => []PageExplained
  <1>1. ReportsInit => PageInv
    BY ReportsAssumption DEF ReportsInit, PageInv
  <1>2. ReportsInv /\ PageInv /\ [ReportsNext]_reportsVars => PageInv'
    BY PageStep
  <1>3. ReportsInv /\ PageInv => PageExplained
    <2> SUFFICES ASSUME ReportsInv, PageInv, Shown("page") PROVE PageExplained
      BY DEF PageExplained
    <2>1. DOMAIN got = {Queries["page"][i] : i \in 1..Len(Queries["page"])}
      BY AllAsked DEF ReportsInv, Shown
    <2>2. Queries["page"] = PageQueries /\ Len(PageQueries) = 5
      BY DEF Queries, PageQueries
    <2>3. \A i \in 1..5 : PageQueries[i] \in DOMAIN got
      BY <2>1, <2>2
    <2>4. RowsExplain /\ PaymentsExplain /\ PredictionsExplain /\ RedemptionsExplain
      BY <2>3 DEF PageQueries, PageInv, Shown
    <2> QED BY <2>4 DEF PageExplained, RowsExplain, PaymentsExplain, PredictionsExplain,
                        RedemptionsExplain, RowsShown
  <1> QED BY <1>1, <1>2, <1>3, ReportsInvariant, PTL DEF ReportsSpec

-----------------------------------------------------------------------------
(* The rows of all ledgers, and what they add up to.                       *)

\* An id is a user and a position in the ledger of that user.
LEMMA RowIdsAre ==
  /\ \A id : id \in RowIds <=> \E u \in Users : \E i \in DOMAIN ledger[u] : id = <<u, i>>
  /\ \A id \in RowIds : id[1] \in Users /\ id[2] \in DOMAIN ledger[id[1]] /\ id = <<id[1], id[2]>>
  BY DEF RowIds

\* There are finitely many.
LEMMA RowIdsFinite ==
  ASSUME LedgerTyped
  PROVE  IsFiniteSet(RowIds)
  <1> DEFINE ids(u) == {<<u, i>> : i \in DOMAIN ledger[u]}
             all == {ids(u) : u \in Users}
             f == [u \in Users |-> ids(u)]
  <1>1. ASSUME NEW u \in Users PROVE IsFiniteSet(ids(u))
    <2> DEFINE n == Len(ledger[u])
               g == [i \in 1..n |-> <<u, i>>]
               S == ids(u)
    <2>1. n \in Nat /\ DOMAIN ledger[u] = 1..n
      BY DEF LedgerTyped
    <2>2. IsFiniteSet(1..n)
      BY <2>1, FS_Interval
    <2>3. g \in Surjection(1..n, S)
      BY <2>1 DEF Surjection
    <2> HIDE DEF n, g, S
    <2>4. IsFiniteSet(S)
      BY ONLY <2>2, <2>3, FS_Surjection
    <2> QED BY <2>4 DEF S
  <1>2. f \in Surjection(Users, all)
    BY DEF Surjection
  <1>3. IsFiniteSet(Users)
    BY ReportsAssumption
  <1>4. \A S \in all : IsFiniteSet(S)
    BY <1>1
  <1>5. RowIds = UNION all
    BY DEF RowIds
  <1> HIDE DEF f, all
  <1>6. IsFiniteSet(all)
    BY ONLY <1>2, <1>3, FS_Surjection
  <1>7. IsFiniteSet(UNION all)
    BY ONLY <1>4, <1>6, FS_UNION
  <1> QED BY <1>5, <1>7

Amounts == [id \in RowIds |-> RowAt(id).amount]

\* The rows have their types, and there are finitely many.
RowsTyped ==
    /\ IsFiniteSet(RowIds)
    /\ \A id \in RowIds : /\ RowAt(id) \in Row
                           /\ Amounts[id] = RowAt(id).amount /\ Amounts[id] \in Nat \ {0}

\* A typed ledger has typed rows.
LEMMA RowFacts == LedgerTyped => RowsTyped
  <1> SUFFICES ASSUME LedgerTyped, NEW id \in RowIds
               PROVE  /\ RowAt(id) \in Row
                      /\ Amounts[id] = RowAt(id).amount /\ Amounts[id] \in Nat \ {0}
    BY RowIdsFinite DEF RowsTyped
  <1>1. id[1] \in Users /\ id[2] \in DOMAIN ledger[id[1]]
    BY RowIdsAre
  <1>2. ledger[id[1]] \in Seq(Row)
    BY <1>1 DEF LedgerTyped
  <1>3. RowAt(id) \in Row
    BY <1>1, <1>2 DEF RowAt
  <1> QED BY <1>3 DEF Amounts, Row

\* Sums of amounts are natural numbers, and greater for more rows.
LEMMA AmountType ==
  ASSUME RowsTyped, NEW ids, ids \subseteq RowIds
  PROVE  /\ IsFiniteSet(ids) /\ Amount(ids) \in Nat
         /\ Amount(ids) = SumFunctionOnSet(Amounts, ids)
         /\ \A some \in SUBSET ids : Amount(some) <= Amount(ids)
  <1>1. IsFiniteSet(ids)
    BY FS_Subset DEF RowsTyped
  <1>2. \A id \in ids : Amounts[id] \in Nat /\ Amounts[id] \in Int
    BY DEF RowsTyped
  <1>3. Amount(ids) \in Nat
    <2>1. SumFunctionOnSet(Amounts, ids) \in Nat
      BY ONLY <1>1, <1>2, SumType
    <2> QED BY <2>1 DEF Amount, Amounts
  <1>4. \A some \in SUBSET ids : Amount(some) <= Amount(ids)
    <2> TAKE some \in SUBSET ids
    <2>1. SumFunctionOnSet(Amounts, some) <= SumFunctionOnSet(Amounts, ids)
      BY <1>1, <1>2, SumGrows
    <2> QED BY <2>1 DEF Amount, Amounts
  <1> QED BY <1>1, <1>3, <1>4 DEF Amount, Amounts

\* A row that has been written stays as it is.
LEMMA RowsKept ==
  ASSUME LedgerInv, ReportsTypeOK, [ReportsNext]_reportsVars
  PROVE  /\ RowsTyped /\ RowsTyped'
         /\ RowIds \subseteq RowIds'
         /\ \A id \in RowIds : ledger'[id[1]][id[2]] = ledger[id[1]][id[2]]
         /\ \A ids \in SUBSET RowIds :
               SumFunctionOnSet(Amounts', ids) = SumFunctionOnSet(Amounts, ids)
  <1>1. RowsTyped /\ RowsTyped'
    BY LedgerStep, RowFacts, PTL DEF LedgerInv
  <1>2. \A id \in RowIds : /\ id[1] \in Users /\ id[2] \in DOMAIN ledger'[id[1]]
                           /\ id = <<id[1], id[2]>>
                           /\ ledger'[id[1]][id[2]] = ledger[id[1]][id[2]]
    BY RowIdsAre, LedgerGrows
  <1>3. RowIds \subseteq RowIds'
    BY <1>2 DEF RowIds
  <1>4. \A id \in RowIds : Amounts[id] \in Int /\ Amounts'[id] = Amounts[id]
    BY <1>1, <1>2, <1>3 DEF RowsTyped, RowAt
  <1>5. \A ids \in SUBSET RowIds :
           SumFunctionOnSet(Amounts', ids) = SumFunctionOnSet(Amounts, ids)
    <2> TAKE ids \in SUBSET RowIds
    <2>1. IsFiniteSet(ids)
      BY <1>1, AmountType
    <2>2. \A id \in ids : Amounts[id] \in Int /\ Amounts'[id] = Amounts[id]
      BY <1>4
    <2> QED BY ONLY <2>1, <2>2, SumSame
  <1> QED BY <1>1, <1>2, <1>3, <1>5

\* So no figure of the ledger goes down.
LEMMA FiguresGrow ==
  ASSUME LedgerInv, ReportsTypeOK, [ReportsNext]_reportsVars, NEW column, NEW value
  PROVE  /\ RowsWith(column, value) \subseteq RowsWith(column, value)'
         /\ Amount(RowsWith(column, value)) <= Amount(RowsWith(column, value))'
         /\ IsFiniteSet(RowsWith(column, value)')
         /\ Cardinality(RowsWith(column, value)) <= Cardinality(RowsWith(column, value))'
  <1> DEFINE old == RowsWith(column, value)
             new == {id \in RowIds' : ledger'[id[1]][id[2]][column] = value}
  <1>0. new = RowsWith(column, value)'
    BY DEF RowsWith, RowAt
  <1>1. old \in SUBSET RowIds /\ old \in SUBSET new /\ new \in SUBSET RowIds'
    BY RowsKept DEF RowsWith, RowAt
  <1>2. IsFiniteSet(RowIds') /\ \A id \in RowIds' : Amounts'[id] \in Nat
    BY RowsKept DEF RowsTyped
  <1> HIDE DEF old, new
  <1>3. IsFiniteSet(new)
    BY <1>1, <1>2, FS_Subset
  <1>4. \A id \in new : Amounts'[id] \in Nat
    BY <1>1, <1>2
  <1>5. SumFunctionOnSet(Amounts', old) <= SumFunctionOnSet(Amounts', new)
    BY ONLY <1>1, <1>3, <1>4, SumGrows
  <1>6. SumFunctionOnSet(Amounts', old) = SumFunctionOnSet(Amounts, old)
    BY <1>1, RowsKept
  <1>7. Cardinality(old) <= Cardinality(new)
    BY <1>1, <1>3, FS_Subset
  <1>8. Amount(old) = SumFunctionOnSet(Amounts, old)
    BY DEF Amount, Amounts
  <1>9. Amount(RowsWith(column, value))' = SumFunctionOnSet(Amounts', new)
    BY <1>0 DEF Amount, Amounts
  <1> QED BY <1>0, <1>1, <1>3, <1>5, <1>6, <1>7, <1>8, <1>9 DEF old

-----------------------------------------------------------------------------
(* Every succeeded prediction has its debit.                               *)

\* No admin gives an adjustment the key of a prediction's debit.
DebitKeysReserved == \A r \in Adjustments, t \in Tasks : r.key # Charge(t).key

\* A succeeded prediction has been charged.
ChargesPosted == \A t \in Tasks : task[t] = "succeeded" => Posted(Charge(t).key)

\* A key that is posted stays so.
LEMMA PostedKept ==
  ASSUME LedgerInv, ReportsTypeOK, [ReportsNext]_reportsVars, NEW k, Posted(k)
  PROVE  Posted(k)'
  BY LedgerGrows DEF Posted

\* A prediction succeeds in the transaction that posts its debit.
LEMMA ChargesStep ==
  ASSUME LedgerInv, ReportsTypeOK, ChargesPosted, [ReportsNext]_reportsVars
  PROVE  ChargesPosted'
  <1> SUFFICES ASSUME NEW t \in Tasks, task'[t] = "succeeded"
               PROVE  Posted(Charge(t).key)'
    BY DEF ChargesPosted
  <1>1. CASE task[t] = "succeeded"
    BY <1>1, PostedKept DEF ChargesPosted
  <1>2. CASE task[t] # "succeeded"
    <2>1. SucceedTask(t)
      <3>1. Write
        BY <1>2, OtherSteps DEF tables
      <3>2. \A x \in Tasks : CreateTask(x) \/ RunTask(x) \/ FailTask(x) \/ (SucceedTask(x) /\ x # t)
                 => task'[t] # "succeeded"
        BY <1>2 DEF CreateTask, RunTask, FailTask, SucceedTask, SetTask, ReportsTypeOK
      <3> QED BY <1>2, <3>1, <3>2
              DEF Write, CreatePayment, ConfirmPayment, Redeem, OpenBalance, Adjust
    <2>2. CASE Posted(Charge(t).key)
      BY <2>2, PostedKept
    <2>3. CASE Post(Charge(t))
      <3>1. Charge(t) \in Postable
        BY DEF Postable
      <3> DEFINE u == Charge(t).user
                 n == Len(ledger[u]) + 1
      <3>2. u \in Users /\ n \in Nat /\ n >= 1 /\ DOMAIN ledger'[u] = 1..n
            /\ ledger'[u][n].key = Charge(t).key
        <4>1. LedgerTyped
          BY DEF LedgerInv
        <4>2. /\ u \in Users /\ n \in Nat /\ DOMAIN ledger'[u] = 1..n
              /\ ledger'[u][n] = RowFor(Charge(t), Available(u) + Effect(Charge(t)))
          BY <2>3, <3>1, <4>1, Posted1
        <4>3. Len(ledger[u]) \in Nat
          BY <4>1, <4>2 DEF LedgerTyped
        <4> QED BY <4>2, <4>3 DEF RowFor
      <3> HIDE DEF u, n
      <3>3. n \in DOMAIN ledger'[u]
        BY <3>2
      <3> QED BY <3>2, <3>3 DEF Posted
    <2> QED BY <2>1, <2>2, <2>3 DEF SucceedTask, PostOnce
  <1> QED BY <1>1, <1>2

\* The row that charges a prediction.
LEMMA ChargeRow ==
  ASSUME LedgerInv, DebitKeysReserved, NEW t \in Tasks, Posted(Charge(t).key)
  PROVE  \E id \in RowIds :
            /\ RowAt(id).type = "prediction_debit" /\ RowAt(id).direction = "debit"
            /\ RowAt(id).source = t /\ RowAt(id).amount = Price
            /\ RowAt(id).key = Charge(t).key
  <1>0. PICK u \in Users : \E i \in DOMAIN ledger[u] : ledger[u][i].key = Charge(t).key
    BY DEF Posted
  <1>1. PICK i \in DOMAIN ledger[u] : ledger[u][i].key = Charge(t).key
    BY <1>0
  <1>2. PICK r \in Postable : r.user = u /\ ledger[u][i] = RowFor(r, ledger[u][i].after)
    BY <1>1 DEF LedgerInv, RowsBacked, BackedRow
  <1> DEFINE x == ledger[u][i]
  <1>3. /\ x.type = r.type /\ x.direction = r.direction /\ x.source = r.source
        /\ x.amount = r.amount /\ x.key = r.key
    BY <1>2 DEF RowFor
  <1>4. r = Charge(t)
    <2>1. r.key = Charge(t).key
      BY <1>1, <1>3
    <2>2. CASE \E y \in Tasks : r = Charge(y)
      BY <2>1, <2>2 DEF Charge
    <2>3. CASE \E p \in Payments : r = Purchase(p)
      BY <2>1, <2>3 DEF Charge, Purchase
    <2>4. CASE \E v \in Users : r = Grant(v)
      BY <2>1, <2>4 DEF Charge, Grant
    <2>5. CASE r \in Adjustments
      BY <2>1, <2>5 DEF DebitKeysReserved
    <2> QED BY <2>2, <2>3, <2>4, <2>5 DEF Postable
  <1>5. <<u, i>> \in RowIds /\ RowAt(<<u, i>>) = x
    BY RowIdsAre DEF RowAt
  <1>6. /\ x.type = "prediction_debit" /\ x.direction = "debit" /\ x.source = t
        /\ x.amount = Price /\ x.key = Charge(t).key
    BY <1>1, <1>3, <1>4 DEF Charge
  <1> HIDE DEF x
  <1> QED BY <1>5, <1>6

\* No two rows charge the same prediction, so that its cost is the price.
LEMMA CostIsPrice ==
  ASSUME LedgerInv, DebitKeysReserved, NEW t \in Tasks, Posted(Charge(t).key)
  PROVE  Cost(t) = Price
  <1> DEFINE ids == RowsWith("type", "prediction_debit") \cap RowsWith("source", t)
  <1>1. PICK id \in RowIds :
            /\ RowAt(id).type = "prediction_debit" /\ RowAt(id).source = t
            /\ RowAt(id).amount = Price /\ RowAt(id).key = Charge(t).key
    BY ChargeRow
  <1>2. \A other \in ids : other = id
    <2> SUFFICES ASSUME NEW other \in ids PROVE other = id
      OBVIOUS
    <2>1. other \in RowIds /\ RowAt(other).type = "prediction_debit" /\ RowAt(other).source = t
      BY DEF RowsWith
    <2>2. /\ other[1] \in Users /\ other[2] \in DOMAIN ledger[other[1]]
          /\ other = <<other[1], other[2]>>
          /\ id[1] \in Users /\ id[2] \in DOMAIN ledger[id[1]] /\ id = <<id[1], id[2]>>
      BY <1>1, <2>1, RowIdsAre
    <2>3. BackedRow(other[1], RowAt(other))
      BY <2>2 DEF LedgerInv, RowsBacked, RowAt
    <2>4. RowAt(other).key = Charge(t).key
      BY <2>1, <2>3, RowSources
    <2>5. Charge(t).key # NoKey
      BY ReportsAssumption
    <2> QED BY <1>1, <2>2, <2>4, <2>5 DEF LedgerInv, KeysPostedOnce, RowAt
  <1>3. ids = {id}
    BY <1>1, <1>2 DEF RowsWith
  <1>4. RowsTyped /\ Amounts[id] = Price /\ Price \in Nat
    BY <1>1, RowFacts, ReportsAssumption DEF LedgerInv, RowsTyped
  <1>5. SumFunctionOnSet(Amounts, {id}) = Price
    <2>1. /\ IsFiniteSet({}) /\ id \notin {} /\ {} \cup {id} = {id}
          /\ \A y \in {} \cup {id} : Amounts[y] \in Int
      BY <1>4, FS_EmptySet
    <2>2. SumFunctionOnSet(Amounts, {} \cup {id}) = SumFunctionOnSet(Amounts, {}) + Amounts[id]
      BY ONLY <2>1, SumAdd
    <2> QED BY <1>4, <2>1, <2>2, SumEmpty
  <1> HIDE DEF ids
  <1> QED BY <1>3, <1>5 DEF Cost, Amount, Amounts, ids

\* A prediction that a list shows as succeeded has been charged; so it has its
\* cost when that is asked for.
CostInv ==
    report = "predictions" =>
        /\ "tasks" \in DOMAIN got =>
               \A t \in Tasks : got.tasks[t] = "succeeded" => Posted(Charge(t).key)
        /\ "costs" \in DOMAIN got =>
               \A t \in Tasks : got.tasks[t] = "succeeded" => got.costs[t] = Price

\* The costs are asked for after the statuses.
LEMMA CostStep ==
  ASSUME ReportsInv, DebitKeysReserved, ChargesPosted, CostInv, [ReportsNext]_reportsVars
  PROVE  CostInv'
  <1>0. LedgerInv /\ ReportsTypeOK
    BY DEF ReportsInv
  <1>1. CASE UNCHANGED <<report, got>>
    BY <1>0, <1>1, PostedKept DEF CostInv
  <1>2. CASE DOMAIN got' = {}
    BY <1>2 DEF CostInv
  <1>3. CASE Ask /\ UNCHANGED <<tables, registry, report>>
    <2> SUFFICES ASSUME report = "predictions" PROVE CostInv'
      BY <1>3 DEF CostInv
    <2>1. /\ DOMAIN got' = DOMAIN got \cup {NextQuery}
          /\ got'[NextQuery] = PredictionList[NextQuery]
          /\ \A q \in DOMAIN got : q # NextQuery /\ got'[q] = got[q]
      BY <1>0, <1>3, AskStep, Answers
    <2>2. "costs" \in DOMAIN got' => "tasks" \in DOMAIN got
      <3>1. Queries["predictions"] = PredictionListQueries /\ Len(PredictionListQueries) = 2
        BY DEF Queries, PredictionListQueries
      <3>2. \E n \in 1..2 : /\ NextQuery = PredictionListQueries[n]
                            /\ \A i \in 1..2 : PredictionListQueries[i] \in DOMAIN got <=> i < n
        BY <1>0, <1>3, <3>1, AskStep
      <3> QED BY <2>1, <3>2 DEF PredictionListQueries
    <2>3. \A k : Posted(k) => Posted(k)'
      BY <1>0, PostedKept
    <2>4. "tasks" \in DOMAIN got' =>
             \A t \in Tasks : got'["tasks"][t] = "succeeded" => Posted(Charge(t).key)
      <3>1. CASE NextQuery = "tasks"
        BY <2>1, <3>1 DEF PredictionList, ChargesPosted
      <3>2. CASE "tasks" \in DOMAIN got
        BY <2>1, <3>2 DEF CostInv
      <3> QED BY <2>1, <3>1, <3>2
    <2>5. "costs" \in DOMAIN got' =>
             \A t \in Tasks : got'["tasks"][t] = "succeeded" => got'["costs"][t] = Price
      <3> SUFFICES ASSUME "costs" \in DOMAIN got', NEW t \in Tasks, got'["tasks"][t] = "succeeded"
                   PROVE  got'["costs"][t] = Price
        OBVIOUS
      <3>1. "tasks" \in DOMAIN got /\ got["tasks"][t] = "succeeded"
        BY <2>1, <2>2
      <3>2. CASE NextQuery = "costs"
        <4>1. got'["costs"][t] = Cost(t)
          BY <2>1, <3>2 DEF PredictionList
        <4>2. Posted(Charge(t).key)
          BY <3>1 DEF CostInv
        <4> QED BY <1>0, <4>1, <4>2, CostIsPrice
      <3>3. CASE "costs" \in DOMAIN got
        BY <2>1, <3>1, <3>3 DEF CostInv
      <3> QED BY <2>1, <3>2, <3>3
    <2> QED BY <2>3, <2>4, <2>5 DEF CostInv
  <1> QED BY <1>0, <1>1, <1>2, <1>3, GotSteps

\* Tables, ledger and registry fit together, and what succeeded was charged.
LEMMA ChargesInvariant == ReportsSpec => []ChargesPosted
  <1>1. ReportsInit => ChargesPosted
    BY ReportsAssumption DEF ReportsInit, ChargesPosted
  <1>2. ReportsInv /\ ChargesPosted /\ [ReportsNext]_reportsVars => ChargesPosted'
    BY ChargesStep DEF ReportsInv
  <1> QED BY <1>1, <1>2, ReportsInvariant, PTL DEF ReportsSpec

\* The admin's list of predictions never shows a succeeded one as free, if no
\* adjustment takes the key of a prediction's debit.
THEOREM SucceededShownWithCost ==
  ASSUME DebitKeysReserved
  PROVE  ReportsSpec => []SucceededHasCost
  <1>1. ReportsInit => CostInv
    BY ReportsAssumption DEF ReportsInit, CostInv
  <1>2. ReportsInv /\ ChargesPosted /\ CostInv /\ [ReportsNext]_reportsVars => CostInv'
    BY CostStep
  <1>3. ReportsInv /\ CostInv => SucceededHasCost
    <2> SUFFICES ASSUME ReportsInv, CostInv, Shown("predictions") PROVE SucceededHasCost
      BY DEF SucceededHasCost
    <2>1. "costs" = Queries["predictions"][2] /\ Len(Queries["predictions"]) = 2
      BY DEF Queries, PredictionListQueries
    <2>2. "costs" \in DOMAIN got
      BY <2>1, AllAsked DEF ReportsInv, Shown
    <2> QED BY <2>2 DEF CostInv, SucceededHasCost, Shown
  <1> QED BY <1>1, <1>2, <1>3, ReportsInvariant, ChargesInvariant, PTL DEF ReportsSpec

-----------------------------------------------------------------------------
(* The numbers of rows.                                                    *)

\* A query sees no later query answered.
LEMMA AskedFirst ==
  ASSUME ReportsTypeOK, Ask, NEW j \in 1..Len(Queries[report]), NEW i \in 1..(j - 1),
         Queries[report][j] \in DOMAIN got'
  PROVE  Queries[report][i] \in DOMAIN got
  <1>1. PICK n \in 1..Len(Queries[report]) :
           /\ \A k \in 1..Len(Queries[report]) : Queries[report][k] \in DOMAIN got <=> k < n
           /\ DOMAIN got' = {Queries[report][k] : k \in 1..n}
    BY AskStep
  <1>2. /\ Len(Queries[report]) \in Nat
        /\ \A k, m \in 1..Len(Queries[report]) :
              Queries[report][k] = Queries[report][m] => k = m
    BY AskStep, QueriesDistinct
  <1>3. PICK k \in 1..n : Queries[report][k] = Queries[report][j]
    BY <1>1
  <1>4. k = j
    BY <1>2, <1>3
  <1> QED BY <1>1, <1>2, <1>4

\* A set is not larger than one that it can be mapped into without a collision.
LEMMA Smaller ==
  ASSUME NEW S, NEW T, IsFiniteSet(T), NEW f, \A x \in S : f[x] \in T,
         \A x, y \in S : f[x] = f[y] => x = y
  PROVE  IsFiniteSet(S) /\ Cardinality(S) <= Cardinality(T)
  <1> DEFINE g == [x \in S |-> f[x]]
  <1>1. g \in Injection(S, T)
    BY DEF Injection, IsInjective
  <1> HIDE DEF g
  <1> QED BY <1>1, FS_Injection

\* Rows of a column, tasks and payments of a status, and redemptions are finitely
\* many.
LEMMA CountTypes ==
  ASSUME LedgerInv, TablesTyped
  PROVE  /\ \A column, value : /\ IsFiniteSet(RowsWith(column, value))
                               /\ Cardinality(RowsWith(column, value)) \in Nat
         /\ \A s : TasksWith(s) \in Nat /\ PaymentsWith(s) \in Nat
         /\ \A s : IsFiniteSet({p \in Payments : payment[p] = s})
         /\ IsFiniteSet(redeemed) /\ Cardinality(redeemed) \in Nat
  <1>1. ASSUME NEW S, IsFiniteSet(S), NEW T \in SUBSET S
        PROVE  IsFiniteSet(T) /\ Cardinality(T) \in Nat
    BY <1>1, FS_Subset, FS_CardinalityType
  <1>2. IsFiniteSet(RowIds)
    BY RowFacts DEF LedgerInv, RowsTyped
  <1>3. ASSUME NEW column, NEW value
        PROVE  /\ IsFiniteSet(RowsWith(column, value))
               /\ Cardinality(RowsWith(column, value)) \in Nat
    BY <1>1, <1>2 DEF RowsWith
  <1>4. ASSUME NEW s
        PROVE  /\ TasksWith(s) \in Nat /\ PaymentsWith(s) \in Nat
               /\ IsFiniteSet({p \in Payments : payment[p] = s})
    BY <1>1, ReportsAssumption DEF TasksWith, PaymentsWith
  <1>5. IsFiniteSet(redeemed) /\ Cardinality(redeemed) \in Nat
    BY <1>1, ReportsAssumption DEF TablesTyped
  <1> QED BY <1>3, <1>4, <1>5

\* Row id of the ledger was posted for something, and its key is on it only.
LEMMA RowBacked ==
  ASSUME LedgerInv, NEW id \in RowIds
  PROVE  /\ id[1] \in Users /\ BackedRow(id[1], RowAt(id))
         /\ \A other \in RowIds :
               RowAt(other).key = RowAt(id).key /\ RowAt(id).key # NoKey => other = id
  <1>1. id[1] \in Users /\ id[2] \in DOMAIN ledger[id[1]] /\ id = <<id[1], id[2]>>
    BY RowIdsAre
  <1>2. BackedRow(id[1], RowAt(id))
    BY <1>1 DEF LedgerInv, RowsBacked, RowAt
  <1>3. ASSUME NEW other \in RowIds, RowAt(other).key = RowAt(id).key, RowAt(id).key # NoKey
        PROVE  other = id
    <2>1. /\ other[1] \in Users /\ other[2] \in DOMAIN ledger[other[1]]
          /\ other = <<other[1], other[2]>>
      BY RowIdsAre
    <2> QED BY <1>1, <1>3, <2>1 DEF LedgerInv, KeysPostedOnce, RowAt
  <1> QED BY <1>1, <1>2, <1>3

\* There is a debit for every succeeded prediction, and a payment or redemption
\* for every credit that is for one.
LEMMA CountFacts ==
  ASSUME LedgerInv, TablesTyped
  PROVE  /\ DebitKeysReserved /\ ChargesPosted =>
               TasksWith("succeeded") <= Cardinality(RowsWith("type", "prediction_debit"))
         /\ Cardinality(RowsWith("type", "payment_credit")) <= PaymentsWith("succeeded")
         /\ Cardinality(RowsWith("type", "promo_credit")) <= Cardinality(redeemed)
  <1> USE ReportsAssumption
  <1>1. ASSUME DebitKeysReserved, ChargesPosted
        PROVE  TasksWith("succeeded") <= Cardinality(RowsWith("type", "prediction_debit"))
    <2> DEFINE S == {t \in Tasks : task[t] = "succeeded"}
               T == RowsWith("type", "prediction_debit")
               f == [t \in S |-> CHOOSE id \in T : RowAt(id).source = t]
    <2>1. \A t \in S : \E id \in T : RowAt(id).source = t
      BY <1>1, ChargeRow DEF ChargesPosted, RowsWith
    <2>2. \A t \in S : f[t] \in T /\ RowAt(f[t]).source = t
      BY <2>1
    <2>3. IsFiniteSet(T)
      BY CountTypes
    <2> HIDE DEF S, T, f
    <2>4. \A x, y \in S : f[x] = f[y] => x = y
      BY <2>2
    <2>5. Cardinality(S) <= Cardinality(T)
      BY <2>2, <2>3, <2>4, Smaller
    <2> QED BY <2>5 DEF TasksWith, S, T
  <1>2. Cardinality(RowsWith("type", "payment_credit")) <= PaymentsWith("succeeded")
    <2> DEFINE S == RowsWith("type", "payment_credit")
               T == {p \in Payments : payment[p] = "succeeded"}
               f == [id \in S |-> RowAt(id).source]
    <2>1. \A id \in S : /\ id \in RowIds /\ f[id] \in T
                        /\ RowAt(id).key = Purchase(f[id]).key /\ RowAt(id).key # NoKey
      <3> TAKE id \in S
      <3>1. id \in RowIds /\ RowAt(id).type = "payment_credit" /\ f[id] = RowAt(id).source
        BY DEF RowsWith
      <3>2. BackedRow(id[1], RowAt(id))
        BY <3>1, RowBacked
      <3>3. f[id] \in Payments /\ payment[f[id]] = "succeeded" /\ RowAt(id).key = Purchase(f[id]).key
        BY <3>1, <3>2, RowSources
      <3> QED BY <3>1, <3>3
    <2>2. IsFiniteSet(T)
      BY CountTypes
    <2> HIDE DEF S, T, f
    <2>3. \A x, y \in S : f[x] = f[y] => x = y
      BY <2>1, RowBacked
    <2>4. Cardinality(S) <= Cardinality(T)
      BY <2>1, <2>2, <2>3, Smaller
    <2> QED BY <2>4 DEF PaymentsWith, S, T
  <1>3. Cardinality(RowsWith("type", "promo_credit")) <= Cardinality(redeemed)
    <2> DEFINE S == RowsWith("type", "promo_credit")
               f == [id \in S |-> id[1]]
    <2>1. \A id \in S : /\ id \in RowIds /\ f[id] \in redeemed
                        /\ RowAt(id).key = Grant(f[id]).key /\ RowAt(id).key # NoKey
      <3> TAKE id \in S
      <3>1. id \in RowIds /\ RowAt(id).type = "promo_credit" /\ f[id] = id[1]
        BY DEF RowsWith
      <3>2. f[id] \in Users /\ BackedRow(f[id], RowAt(id))
        BY <3>1, RowBacked
      <3>3. f[id] \in redeemed /\ RowAt(id).key = Grant(f[id]).key
        BY <3>1, <3>2, RowSources
      <3> QED BY <3>1, <3>2, <3>3
    <2>2. IsFiniteSet(redeemed)
      BY CountTypes
    <2> HIDE DEF S, f
    <2>3. \A x, y \in S : f[x] = f[y] => x = y
      BY <2>1, RowBacked
    <2>4. Cardinality(S) <= Cardinality(redeemed)
      BY <2>1, <2>2, <2>3, Smaller
    <2> QED BY <2>4 DEF S
  <1> QED BY <1>1, <1>2, <1>3

\* Payments and redemptions only get more.
LEMMA CountsGrow ==
  ASSUME ReportsInv, [ReportsNext]_reportsVars
  PROVE  /\ PaymentsWith("succeeded") <= PaymentsWith("succeeded")'
         /\ Cardinality(redeemed) <= Cardinality(redeemed')
  <1>1. TablesGrow /\ LedgerInv' /\ TablesTyped'
    BY LedgerStep, ReportsStepInv, TypeParts, PTL DEF ReportsInv
  <1> DEFINE S == {p \in Payments : payment[p] = "succeeded"}
             T == {p \in Payments : payment'[p] = "succeeded"}
  <1>2. IsFiniteSet(T) /\ S \in SUBSET T
    <2>1. T \in SUBSET Payments /\ S \in SUBSET T
      BY <1>1 DEF TablesGrow
    <2> HIDE DEF S, T
    <2> QED BY <2>1, FS_Subset, ReportsAssumption
  <1>3. IsFiniteSet(redeemed') /\ redeemed \in SUBSET (redeemed')
    BY <1>1, FS_Subset, ReportsAssumption DEF TablesGrow, TablesTyped
  <1>4. PaymentsWith("succeeded") = Cardinality(S) /\ PaymentsWith("succeeded")' = Cardinality(T)
    BY DEF PaymentsWith
  <1> HIDE DEF S, T
  <1>5. Cardinality(S) <= Cardinality(T)
    BY <1>2, FS_Subset
  <1>6. Cardinality(redeemed) <= Cardinality(redeemed')
    BY <1>3, FS_Subset
  <1> QED BY <1>4, <1>5, <1>6

\* A look at an account, the balance first: rows that explain it are there when
\* the rows are counted.
DetailInv ==
    report = "detail" =>
        /\ "user_available" \in DOMAIN got =>
               (got.user_available # 0 => Len(ledger[Viewer]) # 0)
        /\ "user_transactions" \in DOMAIN got =>
               (got.user_available # 0 => got.user_transactions # 0)

\* The rows are counted after the balance is read.
LEMMA DetailStep ==
  ASSUME ReportsInv, DetailInv, [ReportsNext]_reportsVars
  PROVE  DetailInv'
  <1>0. LedgerInv /\ ReportsTypeOK /\ Viewer \in Users
    BY ReportsAssumption DEF ReportsInv
  <1>1. Len(ledger[Viewer]) # 0 => Len(ledger'[Viewer]) # 0
    <2>1. ledger[Viewer] \in Seq(Row) /\ ledger'[Viewer] \in Seq(Row)
      BY <1>0, LedgerStep DEF LedgerInv, LedgerTyped
    <2>2. DOMAIN ledger[Viewer] \subseteq DOMAIN ledger'[Viewer]
      BY <1>0, LedgerGrows
    <2> QED BY <2>1, <2>2
  <1>2. CASE UNCHANGED <<report, got>>
    BY <1>1, <1>2 DEF DetailInv
  <1>3. CASE DOMAIN got' = {}
    BY <1>3 DEF DetailInv
  <1>4. CASE Ask /\ UNCHANGED <<tables, registry, report>>
    <2> SUFFICES ASSUME report = "detail" PROVE DetailInv'
      BY <1>4 DEF DetailInv
    <2>1. /\ DOMAIN got' = DOMAIN got \cup {NextQuery}
          /\ got'[NextQuery] = UserDetail[NextQuery]
          /\ \A q \in DOMAIN got : q # NextQuery /\ got'[q] = got[q]
      BY <1>0, <1>4, AskStep, Answers
    <2>2. "user_transactions" \in DOMAIN got' => "user_available" \in DOMAIN got
      <3>1. Queries["detail"] = UserDetailQueries /\ Len(UserDetailQueries) = 4
        BY DEF Queries, UserDetailQueries
      <3>2. /\ 4 \in 1..Len(Queries[report]) /\ 1 \in 1..3
            /\ Queries[report][4] = "user_transactions" /\ Queries[report][1] = "user_available"
        BY <3>1 DEF UserDetailQueries
      <3> QED BY <1>0, <1>4, <3>2, AskedFirst
    <2>3. "user_available" \in DOMAIN got' =>
              (got'["user_available"] # 0 => Len(ledger[Viewer]) # 0)
      <3>1. CASE NextQuery = "user_available"
        <4>1. got'["user_available"] = Available(Viewer)
          BY <2>1, <3>1 DEF UserDetail
        <4>2. Available(Viewer) = Latest(Viewer) /\ ledger[Viewer] \in Seq(Row)
          BY <1>0 DEF LedgerInv, BalanceIsLatest, LedgerTyped
        <4> QED BY <4>1, <4>2 DEF Latest
      <3>2. CASE "user_available" \in DOMAIN got
        BY <2>1, <3>2 DEF DetailInv
      <3> QED BY <2>1, <3>1, <3>2
    <2>4. "user_transactions" \in DOMAIN got' =>
              (got'["user_available"] # 0 => got'["user_transactions"] # 0)
      <3> SUFFICES ASSUME "user_transactions" \in DOMAIN got', got'["user_available"] # 0
                   PROVE  got'["user_transactions"] # 0
        OBVIOUS
      <3>1. "user_available" \in DOMAIN got /\ got["user_available"] # 0
        BY <2>1, <2>2
      <3>2. CASE NextQuery = "user_transactions"
        BY <2>1, <3>1, <3>2 DEF UserDetail, DetailInv
      <3>3. CASE "user_transactions" \in DOMAIN got
        BY <2>1, <3>1, <3>3 DEF DetailInv
      <3> QED BY <2>1, <3>2, <3>3
    <2> QED BY <1>4, <2>3, <2>4 DEF DetailInv, tables
  <1> QED BY <1>0, <1>2, <1>3, <1>4, GotSteps

ShownSucceeded == got.task_statuses["succeeded"]
ShownDebits == got.transactions["prediction_debit"]
ShownPayments == got.transactions["payment_credit"]
ShownGrants == got.transactions["promo_credit"]

\* A scrape: every figure is bounded by the tables until the figure that bounds
\* it is asked for.
ScrapeCounts ==
    report = "scrape" =>
        /\ "task_statuses" \in DOMAIN got =>
               /\ ShownSucceeded \in Nat
               /\ ShownSucceeded <= Cardinality(RowsWith("type", "prediction_debit"))
        /\ "transactions" \in DOMAIN got =>
               /\ ShownPayments \in Nat /\ ShownGrants \in Nat
               /\ ShownSucceeded <= ShownDebits
               /\ ShownPayments <= PaymentsWith("succeeded")
               /\ ShownGrants <= Cardinality(redeemed)
        /\ "payment_statuses" \in DOMAIN got =>
               ShownPayments <= got.payment_statuses["succeeded"]
        /\ "redemptions" \in DOMAIN got => ShownGrants <= got.redemptions

CountsNat ==
    /\ Cardinality(RowsWith("type", "prediction_debit")) \in Nat
    /\ PaymentsWith("succeeded") \in Nat /\ Cardinality(redeemed) \in Nat

\* The bounds of a scrape are numbers.
LEMMA CountsTyped == LedgerInv /\ TablesTyped => CountsNat
  BY CountTypes DEF CountsNat

\* Each figure of a scrape is asked for before what bounds it.
LEMMA ScrapeCountsStep ==
  ASSUME ReportsInv, DebitKeysReserved, ChargesPosted, ScrapeCounts,
         [ReportsNext]_reportsVars
  PROVE  ScrapeCounts'
  <1>0. LedgerInv /\ ReportsTypeOK /\ TablesTyped /\ LedgerInv' /\ TablesTyped'
    BY TypeParts, ReportsStepInv, PTL DEF ReportsInv
  <1>1. CASE UNCHANGED <<report, got>>
    <2> DEFINE debits == Cardinality(RowsWith("type", "prediction_debit"))
               paid == PaymentsWith("succeeded")
               grants == Cardinality(redeemed)
    <2>1. /\ debits <= debits' /\ paid <= paid' /\ grants <= grants'
      BY <1>0, FiguresGrow, CountsGrow
    <2>2. debits \in Nat /\ paid \in Nat /\ grants \in Nat
      BY <1>0, CountTypes
    <2>3. debits' \in Nat /\ paid' \in Nat /\ grants' \in Nat
      <3>1. CountsNat'
        BY <1>0, CountsTyped, PTL
      <3> QED BY <3>1 DEF CountsNat
    <2> HIDE DEF debits, paid, grants
    <2> SUFFICES ASSUME report = "scrape" PROVE ScrapeCounts'
      BY <1>1 DEF ScrapeCounts
    <2>4. UNCHANGED <<ShownSucceeded, ShownPayments, ShownGrants, ShownDebits>>
      BY <1>1 DEF ShownSucceeded, ShownPayments, ShownGrants, ShownDebits
    <2>5. "task_statuses" \in DOMAIN got =>
             ShownSucceeded' \in Nat /\ ShownSucceeded' <= debits'
      BY <2>1, <2>2, <2>3, <2>4 DEF ScrapeCounts, debits
    <2>6. "transactions" \in DOMAIN got =>
             /\ ShownPayments' \in Nat /\ ShownGrants' \in Nat
             /\ ShownSucceeded' <= ShownDebits'
             /\ ShownPayments' <= paid' /\ ShownGrants' <= grants'
      BY <2>1, <2>2, <2>3, <2>4 DEF ScrapeCounts, paid, grants
    <2> QED BY <1>1, <2>4, <2>5, <2>6 DEF ScrapeCounts, debits, paid, grants
  <1>2. CASE DOMAIN got' = {}
    BY <1>2 DEF ScrapeCounts
  <1>3. CASE Ask /\ UNCHANGED <<tables, registry, report>>
    <2> SUFFICES ASSUME report = "scrape" PROVE ScrapeCounts'
      BY <1>3 DEF ScrapeCounts
    <2>1. /\ DOMAIN got' = DOMAIN got \cup {NextQuery}
          /\ got'[NextQuery] = Scrape[NextQuery]
          /\ \A q \in DOMAIN got : q # NextQuery /\ got'[q] = got[q]
      BY <1>0, <1>3, AskStep, Answers
    <2>2. \A q \in DOMAIN got' : q = NextQuery \/ (q \in DOMAIN got /\ got'[q] = got[q])
      BY <2>1
    <2>3. /\ "transactions" \in DOMAIN got' => "task_statuses" \in DOMAIN got
          /\ "payment_statuses" \in DOMAIN got' => "transactions" \in DOMAIN got
          /\ "redemptions" \in DOMAIN got' => "transactions" \in DOMAIN got
      <3>1. Queries["scrape"] = ScrapeQueries /\ Len(ScrapeQueries) = 6
        BY DEF Queries, ScrapeQueries
      <3>2. \A j \in 1..6 : \A i \in 1..(j - 1) :
               ScrapeQueries[j] \in DOMAIN got' => ScrapeQueries[i] \in DOMAIN got
        BY <1>0, <1>3, <3>1, AskedFirst
      <3>3. /\ ScrapeQueries[2] = "task_statuses" /\ ScrapeQueries[4] = "transactions"
            /\ ScrapeQueries[5] = "payment_statuses" /\ ScrapeQueries[6] = "redemptions"
        BY DEF ScrapeQueries
      <3>4. /\ ScrapeQueries[4] \in DOMAIN got' => ScrapeQueries[2] \in DOMAIN got
            /\ ScrapeQueries[5] \in DOMAIN got' => ScrapeQueries[4] \in DOMAIN got
            /\ ScrapeQueries[6] \in DOMAIN got' => ScrapeQueries[4] \in DOMAIN got
        BY <3>2
      <3> QED BY <3>3, <3>4
    <2>4. \A c, v : RowsWith(c, v)' = RowsWith(c, v)
      BY <1>3 DEF RowsWith, RowIds, RowAt, tables
    <2>5. PaymentsWith("succeeded")' = PaymentsWith("succeeded") /\ redeemed' = redeemed
      BY <1>3 DEF PaymentsWith, tables
    <2>6. "task_statuses" \in DOMAIN got' =>
             /\ ShownSucceeded' \in Nat
             /\ ShownSucceeded' <= Cardinality(RowsWith("type", "prediction_debit"))
      <3>1. CASE NextQuery = "task_statuses"
        <4>1. ShownSucceeded' = TasksWith("succeeded")
          BY <2>1, <3>1 DEF ShownSucceeded, Scrape, TaskFigures
        <4> QED BY <1>0, <4>1, CountFacts, CountTypes
      <3>2. CASE "task_statuses" \in DOMAIN got
        BY <2>1, <3>2 DEF ScrapeCounts, ShownSucceeded
      <3> QED BY <2>2, <3>1, <3>2
    <2>7. "transactions" \in DOMAIN got' =>
             /\ ShownPayments' \in Nat /\ ShownGrants' \in Nat
             /\ ShownSucceeded' <= ShownDebits'
             /\ ShownPayments' <= PaymentsWith("succeeded")
             /\ ShownGrants' <= Cardinality(redeemed)
      <3> SUFFICES ASSUME "transactions" \in DOMAIN got'
                   PROVE  /\ ShownPayments' \in Nat /\ ShownGrants' \in Nat
                          /\ ShownSucceeded' <= ShownDebits'
                          /\ ShownPayments' <= PaymentsWith("succeeded")
                          /\ ShownGrants' <= Cardinality(redeemed)
        OBVIOUS
      <3>0. "task_statuses" \in DOMAIN got /\ ShownSucceeded' = ShownSucceeded
        BY <2>1, <2>3 DEF ShownSucceeded
      <3>1. CASE NextQuery = "transactions"
        <4>1. got'["transactions"] = [x \in Types |-> Cardinality(RowsWith("type", x))]
          BY <2>1, <3>1 DEF Scrape, BillingFigures
        <4>2. /\ ShownPayments' = Cardinality(RowsWith("type", "payment_credit"))
              /\ ShownGrants' = Cardinality(RowsWith("type", "promo_credit"))
              /\ ShownDebits' = Cardinality(RowsWith("type", "prediction_debit"))
          BY <4>1 DEF ShownPayments, ShownGrants, ShownDebits, Types
        <4>3. ShownSucceeded <= Cardinality(RowsWith("type", "prediction_debit"))
          BY <3>0 DEF ScrapeCounts
        <4> QED BY <1>0, <3>0, <4>2, <4>3, CountFacts, CountTypes
      <3>2. CASE "transactions" \in DOMAIN got
        BY <2>1, <3>0, <3>2 DEF ScrapeCounts, ShownSucceeded, ShownPayments, ShownGrants, ShownDebits
      <3> QED BY <2>2, <3>1, <3>2
    <2>8. /\ "payment_statuses" \in DOMAIN got' =>
                ShownPayments' <= got'["payment_statuses"]["succeeded"]
          /\ "redemptions" \in DOMAIN got' => ShownGrants' <= got'["redemptions"]
      <3>0. "transactions" \in DOMAIN got =>
               ShownPayments' = ShownPayments /\ ShownGrants' = ShownGrants
        BY <2>1 DEF ShownPayments, ShownGrants
      <3>1. NextQuery = "payment_statuses" =>
               got'["payment_statuses"]["succeeded"] = PaymentsWith("succeeded")
        BY <2>1 DEF Scrape, DomainFigures
      <3>2. NextQuery = "redemptions" => got'["redemptions"] = Cardinality(redeemed)
        BY <2>1 DEF Scrape, DomainFigures
      <3>3. "payment_statuses" \in DOMAIN got' =>
                ShownPayments' <= got'["payment_statuses"]["succeeded"]
        BY <2>2, <2>3, <3>0, <3>1 DEF ScrapeCounts
      <3>4. "redemptions" \in DOMAIN got' => ShownGrants' <= got'["redemptions"]
        BY <2>2, <2>3, <3>0, <3>2 DEF ScrapeCounts
      <3> QED BY <3>3, <3>4
    <2> QED BY <1>3, <2>4, <2>5, <2>6, <2>7, <2>8 DEF ScrapeCounts
  <1> QED BY <1>0, <1>1, <1>2, <1>3, GotSteps

\* The numbers in a scrape and in the admin's look at an account agree, though
\* the queries are answered at different moments, if no adjustment takes the key
\* of a prediction's debit.
THEOREM CountsAlwaysAgree ==
  ASSUME DebitKeysReserved
  PROVE  ReportsSpec => []CountsAgree
  <1>1. ReportsInit => DetailInv /\ ScrapeCounts
    BY ReportsAssumption DEF ReportsInit, DetailInv, ScrapeCounts
  <1>2. ReportsInv /\ ChargesPosted /\ DetailInv /\ ScrapeCounts /\ [ReportsNext]_reportsVars
            => (DetailInv /\ ScrapeCounts)'
    BY DetailStep, ScrapeCountsStep
  <1>3. ReportsInv /\ DetailInv /\ ScrapeCounts => CountsAgree
    <2> SUFFICES ASSUME ReportsInv, DetailInv, ScrapeCounts PROVE CountsAgree
      OBVIOUS
    <2>1. Complete => \A i \in 1..Len(Queries[report]) : Queries[report][i] \in DOMAIN got
      BY AllAsked DEF ReportsInv
    <2>2. ASSUME Shown("detail")
          PROVE  got.user_available # 0 => got.user_transactions # 0
      <3>1. 4 \in 1..Len(Queries["detail"]) /\ Queries["detail"][4] = "user_transactions"
        BY DEF Queries, UserDetailQueries
      <3>2. "user_transactions" \in DOMAIN got
        BY <2>1, <2>2, <3>1 DEF Shown
      <3> QED BY <2>2, <3>2 DEF DetailInv, Shown
    <2>3. ASSUME Shown("scrape")
          PROVE  /\ ShownSucceeded <= ShownDebits
                 /\ ShownPayments <= got.payment_statuses["succeeded"]
                 /\ ShownGrants <= got.redemptions
      <3>1. /\ Len(Queries["scrape"]) = 6 /\ Queries["scrape"][4] = "transactions"
            /\ Queries["scrape"][5] = "payment_statuses" /\ Queries["scrape"][6] = "redemptions"
        BY DEF Queries, ScrapeQueries
      <3>2. {"transactions", "payment_statuses", "redemptions"} \subseteq DOMAIN got
        BY <2>1, <2>3, <3>1 DEF Shown
      <3> QED BY <2>3, <3>2 DEF ScrapeCounts, Shown
    <2> QED BY <2>2, <2>3
            DEF CountsAgree, ShownSucceeded, ShownDebits, ShownPayments, ShownGrants
  <1> QED BY <1>1, <1>2, <1>3, ReportsInvariant, ChargesInvariant, PTL DEF ReportsSpec

-----------------------------------------------------------------------------
(* The sums of credits.                                                    *)

RowsOf(V, d) == {id \in RowsWith("direction", d) : id[1] \in V}
Holdings == [u \in Users |-> Available(u)]
Held(V) == SumFunctionOnSet(Holdings, V)

\* What a group of users has been credited is what they have been debited and
\* what they have.
Balanced ==
    \A V \in SUBSET Users :
        Amount(RowsOf(V, "credit")) = Amount(RowsOf(V, "debit")) + Held(V)

\* What a group of users has is a natural number.
LEMMA HeldType ==
  ASSUME LedgerTyped, NEW V \in SUBSET Users
  PROVE  /\ IsFiniteSet(V) /\ Held(V) \in Nat
         /\ \A u \in Users : Holdings[u] = Available(u) /\ Available(u) \in Nat
  <1>1. IsFiniteSet(V)
    BY ReportsAssumption, FS_Subset
  <1>2. \A u \in Users : Holdings[u] = Available(u) /\ Available(u) \in Nat
    <2> TAKE u \in Users
    <2>1. balance[u] \in 0..MaxCredits \/ balance[u] = NoRow
      BY DEF LedgerTyped
    <2>2. Available(u) \in Nat
      BY <2>1, ReportsAssumption DEF Available
    <2> QED BY <2>2 DEF Holdings
  <1>3. \A u \in V : Holdings[u] \in Nat /\ Holdings[u] \in Int
    <2> TAKE u \in V
    <2>1. Holdings[u] \in Nat
      BY <1>2
    <2> QED BY <2>1
  <1>4. SumFunctionOnSet(Holdings, V) \in Nat
    BY ONLY <1>1, <1>3, SumType
  <1> QED BY <1>1, <1>2, <1>4 DEF Held

\* In a group of users the debits are covered by the credits.
LEMMA Covered ==
  ASSUME LedgerTyped, Balanced, NEW V \in SUBSET Users
  PROVE  /\ Amount(RowsOf(V, "debit")) \in Nat /\ Amount(RowsOf(V, "credit")) \in Nat
         /\ Amount(RowsOf(V, "debit")) <= Amount(RowsOf(V, "credit"))
  <1>1. RowsTyped
    BY RowFacts
  <1>2. \A d : RowsOf(V, d) \subseteq RowIds
    BY DEF RowsOf, RowsWith
  <1>3. Amount(RowsOf(V, "debit")) \in Nat /\ Amount(RowsOf(V, "credit")) \in Nat
    BY <1>1, <1>2, AmountType
  <1> QED BY <1>3, HeldType DEF Balanced

\* A step that posts nothing changes no sum.
LEMMA BalancedKept ==
  ASSUME LedgerInv, Balanced, UNCHANGED ledger,
         UNCHANGED balance \/ \E u \in Users : Open(u)
  PROVE  Balanced'
  <1> USE ReportsAssumption
  <1>1. \A u \in Users : Available(u)' = Available(u)
    <2>1. CASE UNCHANGED balance
      BY <2>1 DEF Available
    <2>2. ASSUME NEW u \in Users, Open(u)
          PROVE  \A v \in Users : Available(v)' = Available(v)
      BY <2>2 DEF LedgerInv, LedgerTyped, Open, Available
    <2> QED BY <2>1, <2>2
  <1>2. Holdings' = Holdings
    BY <1>1 DEF Holdings
  <1> QED BY <1>2 DEF Balanced, Held, Amount, RowsOf, RowsWith, RowIds, RowAt

\* A posting changes one of the three sums by its amount and what the user has
\* by its effect.
LEMMA BalancedPosted ==
  ASSUME ReportsTypeOK, LedgerInv, Balanced, [ReportsNext]_reportsVars,
         NEW r \in Postable, Post(r)
  PROVE  Balanced'
  <1> DEFINE u == r.user
             n == Len(ledger[u]) + 1
             row == RowFor(r, Available(u) + Effect(r))
             new == <<u, n>>
  <1>1. LedgerTyped /\ LedgerTyped'
    BY LedgerStep DEF LedgerInv
  <1>2. /\ u \in Users /\ n \in Nat
        /\ balance' = [balance EXCEPT ![u] = row.after]
        /\ DOMAIN ledger[u] = 1..(n - 1) /\ DOMAIN ledger'[u] = 1..n
        /\ ledger'[u][n] = row
        /\ \A i \in DOMAIN ledger[u] : ledger'[u][i] = ledger[u][i]
        /\ \A v \in Users \ {u} : ledger'[v] = ledger[v]
    BY <1>1, Posted1
  <1>3. /\ row.amount = r.amount /\ row.direction = r.direction
        /\ row.after = Available(u) + Effect(r)
    BY DEF RowFor
  <1>4. r.amount \in Nat /\ r.direction \in {"credit", "debit"} /\ u \in Users
    BY PostableTyped, <1>2 DEF Directions
  <1>5. new \notin RowIds /\ new \in RowIds'
    BY <1>2 DEF RowIds
  <1>6. \A id \in RowIds' : id = new \/ id \in RowIds
    <2> SUFFICES ASSUME NEW v \in Users, NEW i \in DOMAIN ledger'[v], <<v, i>> # new
                 PROVE  i \in DOMAIN ledger[v]
      BY DEF RowIds
    <2>1. CASE v = u
      BY <1>2, <2>1
    <2>2. CASE v # u
      BY <1>2, <2>2
    <2> QED BY <2>1, <2>2
  <1>7. /\ RowIds \subseteq RowIds' /\ RowsTyped /\ RowsTyped'
        /\ \A id \in RowIds : ledger'[id[1]][id[2]] = ledger[id[1]][id[2]]
        /\ \A ids \in SUBSET RowIds :
              SumFunctionOnSet(Amounts', ids) = SumFunctionOnSet(Amounts, ids)
    BY RowsKept
  <1>8. ledger'[new[1]][new[2]] = row /\ Amounts'[new] = r.amount
    BY <1>2, <1>3, <1>5 DEF Amounts, RowAt
  <1> HIDE DEF row, new
  <1>9. ASSUME NEW V \in SUBSET Users, NEW d
        PROVE  /\ Amount(RowsOf(V, d)) \in Nat
               /\ Amount(RowsOf(V, d))' = Amount(RowsOf(V, d))
                     + (IF u \in V /\ d = r.direction THEN r.amount ELSE 0)
    <2> DEFINE old == RowsOf(V, d)
               now == {id \in RowIds' : ledger'[id[1]][id[2]].direction = d /\ id[1] \in V}
    <2>1. old \in SUBSET RowIds
      BY DEF RowsOf, RowsWith
    <2>2. IsFiniteSet(old) /\ Amount(old) \in Nat /\ Amount(old) = SumFunctionOnSet(Amounts, old)
      BY <1>7, <2>1, AmountType
    <2>3. Amount(RowsOf(V, d))' = SumFunctionOnSet(Amounts', now)
      BY DEF Amount, Amounts, RowsOf, RowsWith, RowAt
    <2>4. now = IF u \in V /\ d = r.direction THEN old \cup {new} ELSE old
      <3>1. new[1] = u
        BY DEF new
      <3>2. \A id \in RowIds : id \in now <=> id \in old
        BY <1>7 DEF RowsOf, RowsWith, RowAt
      <3>3. new \in now <=> u \in V /\ d = r.direction
        BY <1>3, <1>5, <1>8, <3>1
      <3>4. \A id \in now : id = new \/ id \in RowIds
        BY <1>6
      <3> HIDE DEF now, old
      <3> QED BY <2>1, <3>2, <3>3, <3>4
    <2>5. SumFunctionOnSet(Amounts', old) = Amount(old)
      BY <1>7, <2>1, <2>2
    <2>6. IsFiniteSet(old) /\ new \notin old /\ \A id \in old \cup {new} : Amounts'[id] \in Int
      <3>1. \A id \in RowIds' : Amounts'[id] \in Int
        BY <1>7 DEF RowsTyped
      <3> QED BY <1>5, <1>7, <2>1, <2>2, <3>1
    <2> HIDE DEF old, now, u, n
    <2>7. SumFunctionOnSet(Amounts', old \cup {new}) = SumFunctionOnSet(Amounts', old) + Amounts'[new]
      BY ONLY <2>6, SumAdd
    <2> QED BY <1>8, <2>2, <2>3, <2>4, <2>5, <2>7 DEF old
  <1>10. ASSUME NEW V \in SUBSET Users
         PROVE  Held(V) \in Nat /\ Held(V)' = Held(V) + (IF u \in V THEN Effect(r) ELSE 0)
    <2>1. /\ IsFiniteSet(V) /\ Held(V) \in Nat
          /\ \A v \in Users : Holdings[v] = Available(v) /\ Available(v) \in Nat
      BY <1>1, HeldType
    <2>2. \A v \in Users : Holdings'[v] = Available(v)'
      BY DEF Holdings
    <2>3. row.after \in Nat /\ Available(u)' = row.after
      <3>1. balance'[u] = row.after /\ row.after \in 0..MaxCredits
        BY <1>1, <1>2, <1>3 DEF LedgerTyped, Post
      <3> QED BY <3>1, ReportsAssumption DEF Available
    <2>4. \A v \in Users \ {u} : Available(v)' = Available(v)
      BY <1>1, <1>2 DEF LedgerTyped, Available
    <2>5. IsFiniteSet(V \ {u})
      BY <2>1, FS_RemoveElement
    <2>6. \A v \in V \ {u} : Holdings[v] \in Int /\ Holdings'[v] = Holdings[v]
      BY <2>1, <2>2, <2>4
    <2>7. SumFunctionOnSet(Holdings', V \ {u}) = SumFunctionOnSet(Holdings, V \ {u})
      BY ONLY <2>5, <2>6, SumSame
    <2>8. CASE u \in V
      <3>1. \A v \in V : Holdings[v] \in Int /\ Holdings'[v] \in Int
        BY <1>2, <2>1, <2>2, <2>3, <2>4
      <3> HIDE DEF u
      <3>2. SumFunctionOnSet(Holdings, V) = Holdings[u] + SumFunctionOnSet(Holdings, V \ {u})
        BY ONLY <2>1, <2>8, <3>1, SumTake
      <3>3. SumFunctionOnSet(Holdings', V) = Holdings'[u] + SumFunctionOnSet(Holdings', V \ {u})
        BY ONLY <2>1, <2>8, <3>1, SumTake
      <3>4. SumFunctionOnSet(Holdings, V \ {u}) \in Int
        BY ONLY <2>5, <2>6, SumType
      <3>5. Effect(r) \in Int /\ Available(u) \in Nat
        BY <1>2, <1>4, <2>1 DEF Effect
      <3>6. Holdings[u] = Available(u) /\ Holdings'[u] = Available(u) + Effect(r)
        BY <1>2, <1>3, <2>1, <2>2, <2>3
      <3> QED BY <2>1, <2>7, <2>8, <3>2, <3>3, <3>4, <3>5, <3>6 DEF Held
    <2>9. CASE u \notin V
      <3>1. V \ {u} = V
        BY <2>9
      <3> QED BY <2>1, <2>7, <2>9, <3>1 DEF Held
    <2> QED BY <2>8, <2>9
  <1> SUFFICES ASSUME NEW V \in SUBSET Users
               PROVE  Amount(RowsOf(V, "credit"))' = Amount(RowsOf(V, "debit"))' + Held(V)'
    BY DEF Balanced
  <1>11. Amount(RowsOf(V, "credit")) = Amount(RowsOf(V, "debit")) + Held(V)
    BY DEF Balanced
  <1> HIDE DEF u
  <1> QED BY <1>4, <1>9, <1>10, <1>11 DEF Effect

\* So every step keeps the sums balanced, ...
LEMMA BalancedStep ==
  ASSUME ReportsInv, Balanced, [ReportsNext]_reportsVars
  PROVE  Balanced'
  <1>0. LedgerInv /\ ReportsTypeOK
    BY DEF ReportsInv
  <1>1. CASE Write
    <2>1. UNCHANGED ledgerVars \/ (\E u \in Users : Open(u)) \/ (\E r \in Postable : Post(r))
      BY <1>0, <1>1, WriteSteps
    <2>2. CASE UNCHANGED ledgerVars \/ \E u \in Users : Open(u)
      BY <1>0, <2>2, BalancedKept DEF ledgerVars, Open
    <2>3. CASE \E r \in Postable : Post(r)
      BY <1>0, <2>3, BalancedPosted
    <2> QED BY <2>1, <2>2, <2>3
  <1>2. CASE ~Write
    BY <1>0, <1>2, OtherSteps, BalancedKept DEF tables
  <1> QED BY <1>1, <1>2

\* ... and they always are.
LEMMA BalancedInvariant == ReportsSpec => []Balanced
  <1>1. ReportsInit => Balanced
    <2> SUFFICES ASSUME ReportsInit, NEW V \in SUBSET Users
                 PROVE  Amount(RowsOf(V, "credit")) = Amount(RowsOf(V, "debit")) + Held(V)
      BY DEF Balanced
    <2>1. LedgerTyped /\ \A u \in Users : Available(u) = 0
      BY ReportsInitInv DEF ReportsInv, LedgerInv, ReportsInit, LedgerInit, Available
    <2>2. \A u \in Users : DOMAIN ledger[u] = {}
      <3>1. DOMAIN <<>> = {}
        OBVIOUS
      <3> QED BY <3>1 DEF ReportsInit, LedgerInit
    <2>3. RowIds = {}
      BY <2>2 DEF RowIds
    <2>4. \A d : RowsOf(V, d) = {}
      BY <2>3 DEF RowsOf, RowsWith
    <2>5. \A d : Amount(RowsOf(V, d)) = 0
      BY <2>4, SumEmpty DEF Amount
    <2>6. IsFiniteSet(V) /\ Held(V) \in Nat /\ \A u \in V : Holdings[u] \in Nat /\ Holdings[u] <= 0
      BY <2>1, HeldType
    <2>7. Held(V) <= 0 * Cardinality(V)
      BY <2>6, SumBounds DEF Held
    <2>8. Cardinality(V) \in Nat
      BY <2>6, FS_CardinalityType
    <2> QED BY <2>5, <2>6, <2>7, <2>8
  <1>2. ReportsInv /\ Balanced /\ [ReportsNext]_reportsVars => Balanced'
    BY BalancedStep
  <1> QED BY <1>1, <1>2, ReportsInvariant, PTL DEF ReportsSpec

\* In the summary, debits cover the succeeded predictions until they are asked
\* for, and then the credits cover the debits.
Due == Price * got.tasks_succeeded
SummaryInv ==
    report = "summary" =>
        /\ "tasks_succeeded" \in DOMAIN got =>
               Due \in Int /\ Due <= Amount(RowsWith("direction", "debit"))
        /\ "debited" \in DOMAIN got =>
               /\ Due <= got.debited
               /\ got.debited \in Int
               /\ got.debited <= Amount(RowsWith("direction", "credit"))
        /\ "credited" \in DOMAIN got => got.debited <= got.credited

\* At one moment the figures of the summary agree.
LEMMA SummaryFacts ==
  ASSUME ReportsInv, Balanced
  PROVE  /\ \A c, v : Amount(RowsWith(c, v)) \in Nat
         /\ Amount(RowsWith("direction", "debit")) <= Amount(RowsWith("direction", "credit"))
         /\ DebitKeysReserved /\ ChargesPosted =>
               /\ Price * TasksWith("succeeded") \in Int
               /\ Price * TasksWith("succeeded") <= Amount(RowsWith("direction", "debit"))
  <1>0. LedgerInv /\ LedgerTyped /\ TablesTyped /\ RowsTyped
    BY TypeParts, RowFacts DEF ReportsInv, LedgerInv
  <1>1. \A c, v : RowsWith(c, v) \subseteq RowIds
    BY DEF RowsWith
  <1>2. \A c, v : Amount(RowsWith(c, v)) \in Nat
    BY <1>0, <1>1, AmountType
  <1>3. Amount(RowsWith("direction", "debit")) <= Amount(RowsWith("direction", "credit"))
    <2>1. \A d : RowsOf(Users, d) = RowsWith("direction", d)
      BY RowIdsAre DEF RowsOf, RowsWith
    <2> QED BY <1>0, <2>1, Covered
  <1>4. ASSUME DebitKeysReserved, ChargesPosted
        PROVE  /\ Price * TasksWith("succeeded") \in Int
               /\ Price * TasksWith("succeeded") <= Amount(RowsWith("direction", "debit"))
    <2> DEFINE S == RowsWith("type", "prediction_debit")
               D == RowsWith("direction", "debit")
               k == TasksWith("succeeded")
               m == Cardinality(S)
    <2>1. k \in Nat /\ m \in Nat /\ k <= m /\ IsFiniteSet(S) /\ Price \in Nat
      BY <1>0, <1>4, CountFacts, CountTypes, ReportsAssumption
    <2>2. \A id \in S : /\ id \in RowIds /\ RowAt(id).amount = Price
                        /\ RowAt(id).direction = "debit"
      BY <1>0, RowBacked, RowSources DEF RowsWith
    <2>3. S \in SUBSET D /\ \A id \in S : Amounts[id] \in Nat /\ Price <= Amounts[id]
      BY <1>0, <2>1, <2>2 DEF RowsTyped, RowsWith
    <2> HIDE DEF S, D, k, m
    <2>4. Price * Cardinality(S) <= SumFunctionOnSet(Amounts, S)
      BY ONLY <2>1, <2>3, SumBounds
    <2>5. SumFunctionOnSet(Amounts, S) = Amount(S)
      BY DEF Amount, Amounts
    <2>6. Amount(S) <= Amount(D) /\ Amount(S) \in Nat /\ Amount(D) \in Nat
      BY <1>0, <1>1, <2>3, AmountType DEF S, D
    <2>7. Price * k \in Nat /\ Price * m \in Nat /\ Price * k <= Price * m
      BY ONLY <2>1
    <2> QED BY <2>4, <2>5, <2>6, <2>7 DEF k, m, D
  <1> QED BY <1>2, <1>3, <1>4

SumsNat ==
    /\ Amount(RowsWith("direction", "debit")) \in Nat
    /\ Amount(RowsWith("direction", "credit")) \in Nat

\* The sums of the summary are numbers.
LEMMA SumsTyped == ReportsInv /\ Balanced => SumsNat
  BY SummaryFacts DEF SumsNat

\* Each figure of the summary is asked for before what bounds it.
LEMMA SummaryStep ==
  ASSUME ReportsInv, DebitKeysReserved, ChargesPosted, Balanced, SummaryInv,
         [ReportsNext]_reportsVars
  PROVE  SummaryInv'
  <1> DEFINE debits == Amount(RowsWith("direction", "debit"))
             credits == Amount(RowsWith("direction", "credit"))
  <1>0. LedgerInv /\ ReportsTypeOK
    BY DEF ReportsInv
  <1>1. debits \in Nat /\ credits \in Nat /\ debits <= credits
    BY SummaryFacts
  <1>2. debits' \in Nat /\ credits' \in Nat
    <2>1. ReportsInv' /\ Balanced'
      BY ReportsStepInv, BalancedStep
    <2>2. SumsNat'
      BY <2>1, SumsTyped, PTL
    <2> QED BY <2>2 DEF SumsNat
  <1>3. debits <= debits' /\ credits <= credits'
    BY <1>0, FiguresGrow
  <1>4. CASE UNCHANGED <<report, got>>
    <2> HIDE DEF debits, credits
    <2>1. Due' = Due
      BY <1>4 DEF Due
    <2> QED BY <1>1, <1>2, <1>3, <1>4, <2>1 DEF SummaryInv, debits, credits
  <1>5. CASE DOMAIN got' = {}
    BY <1>5 DEF SummaryInv
  <1>6. CASE Ask /\ UNCHANGED <<tables, registry, report>>
    <2> SUFFICES ASSUME report = "summary" PROVE SummaryInv'
      BY <1>6 DEF SummaryInv
    <2>1. /\ DOMAIN got' = DOMAIN got \cup {NextQuery}
          /\ got'[NextQuery] = SummaryFigures[NextQuery]
          /\ \A q \in DOMAIN got : q # NextQuery /\ got'[q] = got[q]
      BY <1>0, <1>6, AskStep, Answers
    <2>2. \A q \in DOMAIN got' : q = NextQuery \/ (q \in DOMAIN got /\ got'[q] = got[q])
      BY <2>1
    <2>3. /\ "debited" \in DOMAIN got' => "tasks_succeeded" \in DOMAIN got
          /\ "credited" \in DOMAIN got' => "debited" \in DOMAIN got
      <3>1. Queries["summary"] = SummaryQueries /\ Len(SummaryQueries) = 9
        BY DEF Queries, SummaryQueries
      <3>2. \A j \in 1..9 : \A i \in 1..(j - 1) :
               SummaryQueries[j] \in DOMAIN got' => SummaryQueries[i] \in DOMAIN got
        BY <1>0, <1>6, <3>1, AskedFirst
      <3>3. /\ SummaryQueries[4] \in DOMAIN got' => SummaryQueries[2] \in DOMAIN got
            /\ SummaryQueries[5] \in DOMAIN got' => SummaryQueries[4] \in DOMAIN got
        BY <3>2
      <3> QED BY <3>3 DEF SummaryQueries
    <2>4. debits' = debits /\ credits' = credits
      BY <1>6 DEF Amount, RowsWith, RowIds, RowAt, tables
    <2> HIDE DEF debits, credits
    <2>5. "tasks_succeeded" \in DOMAIN got' => Due' \in Int /\ Due' <= debits
      <3>1. CASE NextQuery = "tasks_succeeded"
        <4>1. Due' = Price * TasksWith("succeeded")
          BY <2>1, <3>1 DEF Due, SummaryFigures
        <4> QED BY <4>1, SummaryFacts DEF debits
      <3>2. CASE "tasks_succeeded" \in DOMAIN got
        BY <2>1, <3>2 DEF SummaryInv, Due, debits
      <3> QED BY <2>2, <3>1, <3>2
    <2>6. "debited" \in DOMAIN got' =>
             /\ Due' <= got'["debited"] /\ got'["debited"] \in Int
             /\ got'["debited"] <= credits
      <3> SUFFICES ASSUME "debited" \in DOMAIN got'
                   PROVE  /\ Due' <= got'["debited"] /\ got'["debited"] \in Int
                          /\ got'["debited"] <= credits
        OBVIOUS
      <3>0. "tasks_succeeded" \in DOMAIN got /\ Due' = Due
        BY <2>1, <2>3 DEF Due
      <3>1. CASE NextQuery = "debited"
        <4>1. got'["debited"] = debits
          BY <2>1, <3>1 DEF SummaryFigures, debits
        <4> QED BY <1>1, <3>0, <4>1 DEF SummaryInv, debits
      <3>2. CASE "debited" \in DOMAIN got
        BY <2>1, <3>0, <3>2 DEF SummaryInv, credits
      <3> QED BY <2>2, <3>1, <3>2
    <2>7. "credited" \in DOMAIN got' => got'["debited"] <= got'["credited"]
      <3> SUFFICES ASSUME "credited" \in DOMAIN got' PROVE got'["debited"] <= got'["credited"]
        OBVIOUS
      <3>0. "debited" \in DOMAIN got /\ got'["debited"] = got["debited"]
        BY <2>1, <2>3
      <3>1. CASE NextQuery = "credited"
        <4>1. got'["credited"] = credits
          BY <2>1, <3>1 DEF SummaryFigures, credits
        <4> QED BY <3>0, <4>1 DEF SummaryInv, credits
      <3>2. CASE "credited" \in DOMAIN got
        BY <2>1, <3>0, <3>2 DEF SummaryInv
      <3> QED BY <2>2, <3>1, <3>2
    <2> QED BY <1>6, <2>4, <2>5, <2>6, <2>7 DEF SummaryInv, debits, credits
  <1> QED BY <1>0, <1>4, <1>5, <1>6, GotSteps

\* The user's own rows, numbered as on the page, add up to what their ids do.
OwnAmount(d) ==
    SumFunctionOnSet([i \in DOMAIN ledger[Viewer] |-> ledger[Viewer][i].amount],
                     {i \in DOMAIN ledger[Viewer] : ledger[Viewer][i]["direction"] = d})

\* The rows of a user have the same sum by their positions and by their ids.
LEMMA OwnRenamed ==
  ASSUME LedgerTyped, NEW d
  PROVE  OwnAmount(d) = Amount(RowsOf({Viewer}, d))
  <1> DEFINE rows == ledger[Viewer]
             S == {i \in DOMAIN rows : rows[i]["direction"] = d}
             f == [i \in DOMAIN rows |-> rows[i].amount]
             b == [i \in S |-> <<Viewer, i>>]
             ids == {b[i] : i \in S}
  <1>1. /\ Viewer \in Users /\ rows \in Seq(Row) /\ RowsTyped
        /\ DOMAIN rows = 1..Len(rows) /\ Len(rows) \in Nat
    BY RowFacts, ReportsAssumption DEF LedgerTyped
  <1>2. IsFiniteSet(S)
    <2>1. IsFiniteSet(DOMAIN rows)
      BY <1>1, FS_Interval
    <2>2. S \in SUBSET DOMAIN rows
      OBVIOUS
    <2> HIDE DEF S, rows
    <2> QED BY <2>1, <2>2, FS_Subset
  <1>3. \A i \in S : /\ <<Viewer, i>> \in RowIds /\ RowAt(<<Viewer, i>>) = rows[i]
                     /\ f[i] = rows[i].amount /\ b[i] = <<Viewer, i>>
    BY <1>1, RowIdsAre DEF RowAt
  <1>4. \A i \in S : f[i] \in Int /\ Amounts[b[i]] = f[i]
    <2> TAKE i \in S
    <2> DEFINE id == <<Viewer, i>>
    <2>1. id \in RowIds /\ RowAt(id) = rows[i] /\ f[i] = rows[i].amount /\ b[i] = id
      BY <1>3
    <2> HIDE DEF id, f, b, rows
    <2>2. Amounts[id] = RowAt(id).amount /\ Amounts[id] \in Nat
      BY <1>1, <2>1 DEF RowsTyped
    <2> QED BY <2>1, <2>2
  <1>5. \A i, j \in S : b[i] = b[j] => i = j
    BY <1>3
  <1>6. ids = RowsOf({Viewer}, d)
    <2>1. ASSUME NEW id \in RowsOf({Viewer}, d) PROVE id \in ids
      <3>1. id \in RowIds /\ RowAt(id)["direction"] = d /\ id[1] = Viewer
        BY DEF RowsOf, RowsWith
      <3>2. id = <<Viewer, id[2]>> /\ id[2] \in DOMAIN rows /\ rows[id[2]] = RowAt(id)
        BY <3>1, RowIdsAre DEF RowAt
      <3>3. id[2] \in S
        BY <3>1, <3>2
      <3> QED BY <3>2, <3>3
    <2>2. ASSUME NEW i \in S PROVE b[i] \in RowsOf({Viewer}, d)
      BY <1>3 DEF RowsOf, RowsWith
    <2> QED BY <2>1, <2>2
  <1>7. OwnAmount(d) = SumFunctionOnSet(f, S)
    BY DEF OwnAmount
  <1> HIDE DEF S, f, b
  <1>8. SumFunctionOnSet(Amounts, {b[i] : i \in S}) = SumFunctionOnSet(f, S)
    BY ONLY <1>2, <1>4, <1>5, SumRenamed
  <1> QED BY <1>6, <1>7, <1>8 DEF Amount, Amounts

OwnCovered == OwnAmount("debit") <= OwnAmount("credit")

\* A user's debits are covered by the user's credits.
LEMMA OwnSums == LedgerTyped /\ Balanced => OwnCovered
  <1> SUFFICES ASSUME LedgerTyped, Balanced PROVE OwnCovered
    OBVIOUS
  <1>1. {Viewer} \in SUBSET Users
    BY ReportsAssumption
  <1>2. Amount(RowsOf({Viewer}, "debit")) <= Amount(RowsOf({Viewer}, "credit"))
    BY <1>1, Covered
  <1> QED BY <1>2, OwnRenamed DEF OwnCovered

\* The rows of a page are those of one moment, and its payments and redemptions
\* are the user's own.
CardsInv ==
    report = "page" =>
        /\ "own_transactions" \in DOMAIN got =>
               /\ got.own_transactions \in Seq(Row)
               /\ \A i, j \in DOMAIN got.own_transactions :
                      /\ got.own_transactions[i].key # NoKey
                      /\ got.own_transactions[i].key = got.own_transactions[j].key
                      => i = j
               /\ PageFigures.credits_spent <= PageFigures.credits_added
        /\ "own_payments" \in DOMAIN got =>
               DOMAIN got.own_payments = {p \in Payments : Owner[p] = Viewer}
        /\ "own_redemptions" \in DOMAIN got => got.own_redemptions \subseteq {Viewer}

\* The cards of a page are made from rows of one moment.
LEMMA CardsStep ==
  ASSUME ReportsInv, Balanced, CardsInv, [ReportsNext]_reportsVars
  PROVE  CardsInv'
  <1>0. LedgerInv /\ LedgerTyped /\ ReportsTypeOK /\ Viewer \in Users
    BY ReportsAssumption DEF ReportsInv, LedgerInv
  <1> DEFINE Spent == PageFigures.credits_spent
             Added == PageFigures.credits_added
  <1>a. /\ Spent = ShownAmount(ShownRows("direction", "debit"))
        /\ Added = ShownAmount(ShownRows("direction", "credit"))
    BY DEF PageFigures
  <1>1. CASE UNCHANGED <<report, got>>
    BY <1>1 DEF CardsInv, PageFigures, ShownAmount, ShownRows
  <1>2. CASE DOMAIN got' = {}
    BY <1>2 DEF CardsInv
  <1>3. CASE Ask /\ UNCHANGED <<tables, registry, report>>
    <2> SUFFICES ASSUME report = "page" PROVE CardsInv'
      BY <1>3 DEF CardsInv
    <2>1. /\ DOMAIN got' = DOMAIN got \cup {NextQuery}
          /\ got'[NextQuery] = Page[NextQuery]
          /\ \A q \in DOMAIN got : q # NextQuery /\ got'[q] = got[q]
      BY <1>0, <1>3, AskStep, Answers
    <2>2. \A q \in DOMAIN got' : q = NextQuery \/ (q \in DOMAIN got /\ got'[q] = got[q])
      BY <2>1
    <2>3. "own_transactions" \in DOMAIN got' =>
             /\ got'["own_transactions"] \in Seq(Row)
             /\ \A i, j \in DOMAIN got'["own_transactions"] :
                    /\ got'["own_transactions"][i].key # NoKey
                    /\ got'["own_transactions"][i].key = got'["own_transactions"][j].key
                    => i = j
             /\ Spent' <= Added'
      <3> DEFINE Rows(d) == {i \in DOMAIN got'["own_transactions"] :
                                got'["own_transactions"][i]["direction"] = d}
                 f == [i \in DOMAIN got'["own_transactions"] |->
                          got'["own_transactions"][i].amount]
      <3>0. /\ Spent' = SumFunctionOnSet(f, Rows("debit"))
            /\ Added' = SumFunctionOnSet(f, Rows("credit"))
        BY DEF PageFigures, ShownAmount, ShownRows
      <3>1. CASE NextQuery = "own_transactions"
        <4>1. got'["own_transactions"] = ledger[Viewer]
          BY <2>1, <3>1 DEF Page, OwnTransactions
        <4>2. Spent' = OwnAmount("debit") /\ Added' = OwnAmount("credit")
          BY <3>0, <4>1 DEF OwnAmount
        <4>3. Spent' <= Added'
          BY <1>0, <4>2, OwnSums DEF OwnCovered
        <4> HIDE DEF Spent, Added
        <4> QED BY <1>0, <4>1, <4>3 DEF LedgerInv, LedgerTyped, KeysPostedOnce
      <3>2. CASE "own_transactions" \in DOMAIN got
        <4>1. got'["own_transactions"] = got["own_transactions"]
          BY <2>1, <3>2
        <4>2. Spent' = Spent /\ Added' = Added
          BY <4>1, <3>0, <1>a DEF ShownAmount, ShownRows
        <4> QED BY <3>2, <4>1, <4>2 DEF CardsInv
      <3> QED BY <2>2, <3>1, <3>2
    <2>4. "own_payments" \in DOMAIN got' =>
             DOMAIN got'["own_payments"] = {p \in Payments : Owner[p] = Viewer}
      <3>1. CASE NextQuery = "own_payments"
        <4>1. got'["own_payments"] = OwnPayments
          BY <2>1, <3>1 DEF Page
        <4> QED BY <4>1 DEF OwnPayments
      <3>2. CASE "own_payments" \in DOMAIN got
        BY <2>1, <3>2 DEF CardsInv
      <3> QED BY <2>2, <3>1, <3>2
    <2>5. "own_redemptions" \in DOMAIN got' => got'["own_redemptions"] \subseteq {Viewer}
      <3>1. CASE NextQuery = "own_redemptions"
        <4>1. got'["own_redemptions"] = OwnRedemptions
          BY <2>1, <3>1 DEF Page
        <4> QED BY <4>1 DEF OwnRedemptions
      <3>2. CASE "own_redemptions" \in DOMAIN got
        BY <2>1, <3>2 DEF CardsInv
      <3> QED BY <2>2, <3>1, <3>2
    <2> QED BY <2>3, <2>4, <2>5 DEF CardsInv
  <1> QED BY <1>0, <1>1, <1>2, <1>3, GotSteps

\* Rows of one type on a page add up to their number times their credits at
\* most.
LEMMA ShownBounds ==
  ASSUME got.own_transactions \in Seq(Row), NEW value, NEW c \in Nat,
         NEW T, IsFiniteSet(T), NEW f,
         \A i \in ShownRows("type", value) : /\ got.own_transactions[i].amount = c
                                             /\ f[i] \in T,
         \A i, j \in ShownRows("type", value) : f[i] = f[j] => i = j
  PROVE  ShownAmount(ShownRows("type", value)) <= c * Cardinality(T)
  <1> DEFINE S == ShownRows("type", value)
             g == [i \in DOMAIN got.own_transactions |-> got.own_transactions[i].amount]
  <1>1. IsFiniteSet(S) /\ Cardinality(S) <= Cardinality(T)
    <2> HIDE DEF S
    <2>1. \A i \in S : f[i] \in T
      BY DEF S
    <2>2. \A i, j \in S : f[i] = f[j] => i = j
      BY DEF S
    <2> QED BY ONLY <2>1, <2>2, IsFiniteSet(T), Smaller
  <1>2. \A i \in S : g[i] \in Nat /\ g[i] <= c
    BY DEF ShownRows
  <1>3. ShownAmount(S) = SumFunctionOnSet(g, S)
    BY DEF ShownAmount
  <1> HIDE DEF S, g
  <1>4. SumFunctionOnSet(g, S) <= c * Cardinality(S)
    BY ONLY <1>1, <1>2, c \in Nat, SumBounds
  <1>5. SumFunctionOnSet(g, S) \in Nat
    <2>1. \A i \in S : g[i] \in Int
      BY <1>2
    <2> QED BY ONLY <1>1, <1>2, <2>1, SumType
  <1>6. Cardinality(S) \in Nat /\ Cardinality(T) \in Nat
    BY <1>1, FS_CardinalityType
  <1>7. c * Cardinality(S) <= c * Cardinality(T) /\ c * Cardinality(S) \in Nat
        /\ c * Cardinality(T) \in Nat
    BY ONLY <1>1, <1>6, c \in Nat
  <1> QED BY <1>3, <1>4, <1>5, <1>7 DEF S

\* The cards of a complete page.
LEMMA CardsAgree ==
  ASSUME ReportsInv, PageInv, CardsInv, Shown("page")
  PROVE  /\ PageFigures.payment_credits <= Credits * PageFigures.successful_payments
         /\ PageFigures.promo_credits <= Reward * PageFigures.promo_redemptions
         /\ PageFigures.credits_spent <= PageFigures.credits_added
  <1> DEFINE rows == got.own_transactions
  <1>1. Queries["page"] = PageQueries /\ Len(PageQueries) = 5
    BY DEF Queries, PageQueries
  <1>2. \A i \in 1..5 : PageQueries[i] \in DOMAIN got
    BY <1>1, AllAsked DEF ReportsInv, Shown
  <1>3. {"own_transactions", "own_payments", "own_redemptions"} \subseteq DOMAIN got
    BY <1>2 DEF PageQueries
  <1>4. /\ rows \in Seq(Row)
        /\ \A i, j \in DOMAIN rows : rows[i].key # NoKey /\ rows[i].key = rows[j].key => i = j
        /\ PageFigures.credits_spent <= PageFigures.credits_added
        /\ DOMAIN got.own_payments = {p \in Payments : Owner[p] = Viewer}
        /\ got.own_redemptions \subseteq {Viewer}
    BY <1>3 DEF CardsInv, Shown
  <1>5. /\ \A i \in DOMAIN rows : BackedRow(Viewer, rows[i])
        /\ \A i \in DOMAIN rows :
              /\ rows[i].type = "payment_credit" => got.own_payments[rows[i].source] = "succeeded"
              /\ rows[i].type = "promo_credit" => Viewer \in got.own_redemptions
    BY <1>3 DEF PageInv, Shown, RowsExplain, PaymentsExplain, RedemptionsExplain, RowsShown
  <1>6. PageFigures.payment_credits <= Credits * PageFigures.successful_payments
    <2> DEFINE S == ShownRows("type", "payment_credit")
               T == {p \in DOMAIN got.own_payments : got.own_payments[p] = "succeeded"}
               f == [i \in S |-> rows[i].source]
    <2>1. IsFiniteSet(T)
      <3>1. T \in SUBSET Payments
        BY <1>4
      <3> HIDE DEF T
      <3> QED BY <3>1, ReportsAssumption, FS_Subset
    <2>2. \A i \in S : /\ i \in DOMAIN rows /\ rows[i].amount = Credits /\ f[i] \in T
                       /\ rows[i].key = Purchase(f[i]).key /\ rows[i].key # NoKey
      <3> TAKE i \in S
      <3>1. i \in DOMAIN rows /\ rows[i].type = "payment_credit" /\ f[i] = rows[i].source
        BY DEF ShownRows
      <3>2. /\ rows[i].source \in Payments /\ Owner[rows[i].source] = Viewer
            /\ rows[i].amount = Credits /\ rows[i].key = Purchase(rows[i].source).key
        BY <1>5, <3>1, RowSources
      <3> QED BY <1>4, <1>5, <3>1, <3>2, ReportsAssumption
    <2> HIDE DEF T, f
    <2>3. \A i, j \in S : f[i] = f[j] => i = j
      BY <1>4, <2>2
    <2>4. ShownAmount(S) <= Credits * Cardinality(T)
      <3>1. Credits \in Nat
        BY ReportsAssumption
      <3> QED BY <1>4, <2>1, <2>2, <2>3, <3>1, ShownBounds
    <2> QED BY <2>4 DEF PageFigures, T
  <1>7. PageFigures.promo_credits <= Reward * PageFigures.promo_redemptions
    <2> DEFINE S == ShownRows("type", "promo_credit")
               T == got.own_redemptions
               f == [i \in S |-> Viewer]
    <2>1. IsFiniteSet(T)
      <3>1. T \in SUBSET {Viewer}
        BY <1>4
      <3> HIDE DEF T
      <3> QED BY <3>1, FS_Singleton, FS_Subset
    <2>2. \A i \in S : /\ i \in DOMAIN rows /\ rows[i].amount = Reward /\ f[i] \in T
                       /\ rows[i].key = Grant(Viewer).key /\ rows[i].key # NoKey
      <3> TAKE i \in S
      <3>1. i \in DOMAIN rows /\ rows[i].type = "promo_credit"
        BY DEF ShownRows
      <3>2. rows[i].amount = Reward /\ rows[i].key = Grant(Viewer).key
        BY <1>5, <3>1, RowSources
      <3> QED BY <1>5, <3>1, <3>2, ReportsAssumption
    <2> HIDE DEF T, f
    <2>3. \A i, j \in S : f[i] = f[j] => i = j
      BY <1>4, <2>2
    <2>4. ShownAmount(S) <= Reward * Cardinality(T)
      <3>1. Reward \in Nat
        BY ReportsAssumption
      <3> QED BY <1>4, <2>1, <2>2, <2>3, <3>1, ShownBounds
    <2> QED BY <2>4 DEF PageFigures, T
  <1> QED BY <1>4, <1>6, <1>7

\* The sums of credits in the admin's summary and on the cards of a user's page
\* agree, though the queries are answered at different moments, if no adjustment
\* takes the key of a prediction's debit.
THEOREM SumsAlwaysAgree ==
  ASSUME DebitKeysReserved
  PROVE  ReportsSpec => []SumsAgree
  <1>1. ReportsInit => SummaryInv /\ PageInv /\ CardsInv
    BY ReportsAssumption DEF ReportsInit, SummaryInv, PageInv, CardsInv
  <1>2. /\ ReportsInv /\ ChargesPosted /\ Balanced /\ SummaryInv /\ PageInv /\ CardsInv
        /\ [ReportsNext]_reportsVars
        => (SummaryInv /\ PageInv /\ CardsInv)'
    BY SummaryStep, PageStep, CardsStep
  <1>3. ReportsInv /\ SummaryInv /\ PageInv /\ CardsInv => SumsAgree
    <2> SUFFICES ASSUME ReportsInv, SummaryInv, PageInv, CardsInv PROVE SumsAgree
      OBVIOUS
    <2>1. ASSUME Shown("summary")
          PROVE  Due <= got.debited /\ got.debited <= got.credited
      <3>1. Len(Queries["summary"]) = 9 /\ Queries["summary"][4] = "debited"
            /\ Queries["summary"][5] = "credited"
        BY DEF Queries, SummaryQueries
      <3>2. {"debited", "credited"} \subseteq DOMAIN got
        BY <2>1, <3>1, AllAsked DEF ReportsInv, Shown
      <3> QED BY <2>1, <3>2 DEF SummaryInv, Shown
    <2> QED BY <2>1, CardsAgree DEF SumsAgree, Due
  <1> QED BY <1>1, <1>2, <1>3, ReportsInvariant, ChargesInvariant, BalancedInvariant, PTL
          DEF ReportsSpec

\* The figures of a complete report agree, whatever was committed between its
\* queries.
THEOREM FiguresAlwaysAgree ==
  ASSUME DebitKeysReserved
  PROVE  ReportsSpec => []FiguresAgree
  <1>1. CountsAgree /\ SumsAgree => FiguresAgree
    BY DEF FiguresAgree
  <1> QED
    BY <1>1, CountsAlwaysAgree, SumsAlwaysAgree, PTL

=============================================================================
