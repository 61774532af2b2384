----------------------------- MODULE BudgetProofs -----------------------------
(***************************************************************************)
(* What the host may come to hold, for every store graph and all sizes:    *)
(* walks over the graph (graph.py), the plan of what to keep (retention)   *)
(* and the checks before a bundle comes in (importer, SizeGuard).  All of  *)
(* them weigh sets of paths, so first what sums over finite sets are: the  *)
(* fold of FiniteSetsExt is unfolded once, by choice of a smallest set     *)
(* where it would fail, and the rest is finite induction said of sets of   *)
(* sets, that needs no operator as a parameter.                            *)
(***************************************************************************)
EXTENDS GraphWalk, Retention, Admission, StoreGraphProofs, FiniteSetTheorems,
        WellFoundedInduction

\* The element the fold takes next, and the function it computes on subsets.
Pick(s) == CHOOSE x \in s : TRUE
Unfolds(F, S, g) ==
    g = [s \in SUBSET S |-> IF s = {} THEN 0 ELSE F[Pick(s)] + g[s \ {Pick(s)}]]

\* SumOf is the value on S of the function the fold defines on the subsets of S.
LEMMA SumIs == ASSUME NEW F, NEW S
    PROVE SumOf(F, S) = (CHOOSE g : Unfolds(F, S, g))[S]
  BY Zenon DEF SumOf, MapThenSumSet, MapThenFoldSet, Unfolds, Pick

\* Subsets without a property have a smallest one.
LEMMA Smallest ==
    ASSUME NEW S, IsFiniteSet(S), NEW T \in SUBSET (SUBSET S), T # {}
    PROVE  \E x \in T : \A y \in T : y \subseteq x => y = x
  <1>1. SUBSET S = FiniteSubsetsOf(S)
    BY FS_FiniteSubsetsOfFinite
  <1>2. IsWellFoundedOn(StrictSubsetOrdering(S), FiniteSubsetsOf(S))
    BY FS_StrictSubsetOrderingWellFounded
  <1>3. PICK x \in T : \A y \in T : ~ (<<y, x>> \in StrictSubsetOrdering(S))
    <2>1. T \subseteq FiniteSubsetsOf(S)
      BY <1>1
    <2> QED
      BY <1>2, <2>1, WFMin
  <1>4. ASSUME NEW y \in T, y \subseteq x
        PROVE  y = x
    <2>1. x \in SUBSET S /\ y \in SUBSET S
      OBVIOUS
    <2> DEFINE e == <<y, x>>
    <2>2. e \in (SUBSET S) \X (SUBSET S) /\ e[1] = y /\ e[2] = x
      BY <2>1
    <2>3. e \notin StrictSubsetOrdering(S)
      BY <1>3
    <2> QED
      BY <1>4, <2>2, <2>3 DEF StrictSubsetOrdering
  <1> QED
    BY <1>4

\* There is one such function, whatever larger set it is defined on ...
LEMMA UnfoldsTwice ==
    ASSUME NEW F, NEW S, IsFiniteSet(S), NEW R \in SUBSET S, NEW g, NEW h,
           Unfolds(F, S, g), Unfolds(F, R, h)
    PROVE  \A s \in SUBSET R : g[s] = h[s]
  <1> DEFINE T == {s \in SUBSET R : g[s] # h[s]}
  <1> SUFFICES ASSUME T # {} PROVE FALSE
    OBVIOUS
  <1>1. IsFiniteSet(R)
    BY FS_Subset
  <1>2. PICK s \in T : \A y \in T : y \subseteq s => y = s
    <2>1. T \in SUBSET (SUBSET R)
      OBVIOUS
    <2> HIDE DEF T
    <2> QED
      BY <1>1, <2>1, Smallest
  <1>3. s # {}
    BY DEF Unfolds
  <1>4. Pick(s) \in s
    BY <1>3 DEF Pick
  <1>5. g[s \ {Pick(s)}] = h[s \ {Pick(s)}]
    BY <1>2, <1>4
  <1>6. g[s] = F[Pick(s)] + g[s \ {Pick(s)}] /\ h[s] = F[Pick(s)] + h[s \ {Pick(s)}]
    BY <1>3 DEF Unfolds
  <1> QED
    BY <1>5, <1>6

\* ... and there is one for every finite set.
LEMMA Unfolded ==
    ASSUME NEW F, NEW S, IsFiniteSet(S)
    PROVE  \E g : Unfolds(F, S, g)
  <1> DEFINE T == {s \in SUBSET S : ~ \E g : Unfolds(F, s, g)}
             G(t) == CHOOSE g : Unfolds(F, t, g)
             Rest(t) == t \ {Pick(t)}
             V(t) == IF t = {} THEN 0 ELSE F[Pick(t)] + G(Rest(t))[Rest(t)]
  <1>1. SUFFICES ASSUME T # {} PROVE FALSE
    OBVIOUS
  <1>2. PICK s \in T : \A y \in T : y \subseteq s => y = s
    <2>1. T \in SUBSET (SUBSET S)
      OBVIOUS
    <2> HIDE DEF T
    <2> QED
      BY <1>1, <2>1, Smallest
  <1>3. ASSUME NEW t \in SUBSET s, t # s
        PROVE  Unfolds(F, t, G(t))
    <2>1. \E g : Unfolds(F, t, g)
      BY <1>2, <1>3
    <2> QED
      BY <2>1
  <1>4. ASSUME NEW t \in SUBSET s, t # {}
        PROVE  Rest(t) \in SUBSET s /\ Rest(t) # s /\ Rest(t) \subseteq t
    BY <1>4 DEF Pick
  <1>5. ASSUME NEW t \in SUBSET s, t # s
        PROVE  G(t)[t] = V(t)
    <2>1. CASE t = {}
      <3>1. Unfolds(F, t, G(t)) /\ t \in SUBSET t
        BY <1>3, <1>5
      <3>2. G(t)[t] = 0
        <4> HIDE DEF G
        <4> QED
          BY <2>1, <3>1 DEF Unfolds
      <3> QED
        BY <2>1, <3>2
    <2>2. CASE t # {}
      <3>1. Unfolds(F, t, G(t)) /\ Unfolds(F, Rest(t), G(Rest(t)))
        BY <1>3, <1>4, <1>5, <2>2
      <3>2. IsFiniteSet(t)
        BY <1>2, FS_Subset
      <3>3. Rest(t) \in SUBSET t /\ Rest(t) \in SUBSET (Rest(t))
        BY <1>4, <2>2
      <3>4. G(t)[Rest(t)] = G(Rest(t))[Rest(t)]
        <4> HIDE DEF G, Rest
        <4> QED
          BY <3>1, <3>2, <3>3, UnfoldsTwice
      <3>5. G(t)[t] = F[Pick(t)] + G(t)[Rest(t)]
        <4> HIDE DEF G
        <4> QED
          BY <3>1, <2>2 DEF Unfolds
      <3> QED
        BY <2>2, <3>4, <3>5
    <2> QED
      BY <2>1, <2>2
  <1> DEFINE g == [t \in SUBSET s |-> V(t)]
  <1>6. ASSUME NEW t \in SUBSET s
        PROVE  g[t] = IF t = {} THEN 0 ELSE F[Pick(t)] + g[t \ {Pick(t)}]
    <2>1. CASE t = {}
      BY <2>1
    <2>2. CASE t # {}
      <3>1. g[Rest(t)] = V(Rest(t))
        BY <1>4, <2>2
      <3>2. G(Rest(t))[Rest(t)] = V(Rest(t))
        BY <1>4, <1>5, <2>2
      <3>3. g[t] = F[Pick(t)] + G(Rest(t))[Rest(t)]
        BY <2>2
      <3> QED
        BY <2>2, <3>1, <3>2, <3>3
    <2> QED
      BY <2>1, <2>2
  <1>7. Unfolds(F, s, g)
    <2> HIDE DEF V
    <2> QED
      BY <1>6 DEF Unfolds
  <1> QED
    BY <1>2, <1>7

\* A sum taken apart as the fold does it.
LEMMA SumStep ==
    ASSUME NEW F, NEW S, IsFiniteSet(S)
    PROVE  SumOf(F, S) = IF S = {} THEN 0 ELSE F[Pick(S)] + SumOf(F, S \ {Pick(S)})
  <1> DEFINE G(t) == CHOOSE g : Unfolds(F, t, g)
             R == S \ {Pick(S)}
  <1>1. Unfolds(F, S, G(S))
    BY Unfolded
  <1>2. CASE S = {}
    BY <1>1, <1>2, SumIs DEF Unfolds
  <1>3. CASE S # {}
    <2>1. R \in SUBSET S /\ R \in SUBSET R /\ IsFiniteSet(R)
      BY FS_Subset
    <2>2. Unfolds(F, R, G(R))
      BY <2>1, Unfolded
    <2>3. G(S)[R] = G(R)[R]
      <3> HIDE DEF G, R
      <3> QED
        BY <1>1, <2>1, <2>2, UnfoldsTwice
    <2>4. G(S)[S] = F[Pick(S)] + G(S)[R]
      <3> HIDE DEF G
      <3> QED
        BY <1>1, <1>3 DEF Unfolds
    <2>5. SumOf(F, S) = G(S)[S] /\ SumOf(F, R) = G(R)[R]
      BY SumIs
    <2> QED
      BY <1>3, <2>3, <2>4, <2>5
  <1> QED
    BY <1>2, <1>3

\* Finite induction, said of a set of sets: what holds of {} and lasts when an
\* element is added holds of every subset.
LEMMA Rise ==
    ASSUME NEW U, IsFiniteSet(U), NEW Good, {} \in Good,
           \A A \in SUBSET U : \A x \in U \ A : A \in Good => A \cup {x} \in Good
    PROVE  SUBSET U \subseteq Good
<1> DEFINE Bad == {A \in SUBSET U : A \notin Good}
<1>1. SUFFICES ASSUME Bad # {} PROVE FALSE
  OBVIOUS
<1>2. PICK A \in Bad : \A B \in Bad : B \subseteq A => B = A
  <2>1. Bad \in SUBSET (SUBSET U)
    OBVIOUS
  <2> HIDE DEF Bad
  <2> QED BY <1>1, <2>1, Smallest
<1>3. PICK x \in A : TRUE
  BY <1>2
<1>4. A \ {x} \in Good /\ A = (A \ {x}) \cup {x} /\ A \ {x} \in SUBSET U /\ x \in U \ (A \ {x})
  BY <1>2, <1>3
<1>5. QED
  BY <1>2, <1>4

\* Sums of numbers are numbers.
LEMMA SumIsNat ==
    ASSUME NEW F, NEW U, IsFiniteSet(U), \A x \in U : F[x] \in Nat
    PROVE  \A S \in SUBSET U : SumOf(F, S) \in Nat
<1> DEFINE Bad == {S \in SUBSET U : SumOf(F, S) \notin Nat}
<1>1. SUFFICES ASSUME Bad # {} PROVE FALSE
  OBVIOUS
<1>2. PICK S \in Bad : \A B \in Bad : B \subseteq S => B = S
  <2>1. Bad \in SUBSET (SUBSET U)
    OBVIOUS
  <2> HIDE DEF Bad
  <2> QED BY <1>1, <2>1, Smallest
<1>3. IsFiniteSet(S)
  BY <1>2, FS_Subset
<1>4. CASE S = {}
  <2>1. SumOf(F, S) = 0
    BY <1>3, <1>4, SumStep
  <2>2. QED
    BY <1>2, <2>1
<1>5. CASE S # {}
  <2>1. Pick(S) \in S
    BY <1>5 DEF Pick
  <2>2. SumOf(F, S \ {Pick(S)}) \in Nat
    BY <1>2, <2>1
  <2>3. SumOf(F, S) = F[Pick(S)] + SumOf(F, S \ {Pick(S)})
    BY <1>3, <1>5, SumStep
  <2>4. QED
    BY <1>2, <2>1, <2>2, <2>3
<1>6. QED
  BY <1>4, <1>5

\* Any element may be the one taken apart.
LEMMA SumWithout ==
    ASSUME NEW F, NEW U, IsFiniteSet(U), \A x \in U : F[x] \in Nat
    PROVE  \A S \in SUBSET U : \A x \in S : SumOf(F, S) = F[x] + SumOf(F, S \ {x})
<1> DEFINE Off(S) == \A x \in S : SumOf(F, S) = F[x] + SumOf(F, S \ {x})
           Bad == {S \in SUBSET U : ~ Off(S)}
<1>1. SUFFICES ASSUME Bad # {} PROVE FALSE
  OBVIOUS
<1>2. PICK S \in Bad : \A B \in Bad : B \subseteq S => B = S
  <2>1. Bad \in SUBSET (SUBSET U)
    OBVIOUS
  <2> HIDE DEF Bad
  <2> QED BY <1>1, <2>1, Smallest
<1>3. PICK x \in S : SumOf(F, S) # F[x] + SumOf(F, S \ {x})
  BY <1>2
<1> DEFINE c == Pick(S)
<1>4. IsFiniteSet(S) /\ S # {} /\ S \in SUBSET U /\ c \in S
  BY <1>2, <1>3, FS_Subset DEF Pick
<1>5. SumOf(F, S) = F[c] + SumOf(F, S \ {c})
  BY <1>4, SumStep
<1>6. x # c
  BY <1>3, <1>5
<1> HIDE DEF c
<1>7. /\ S \ {c} \in SUBSET U /\ S \ {x} \in SUBSET U
      /\ S \ {c} # S /\ S \ {x} # S /\ x \in S \ {c} /\ c \in S \ {x}
      /\ (S \ {c}) \ {x} = (S \ {x}) \ {c}
  BY <1>3, <1>4, <1>6
<1>8. Off(S \ {c}) /\ Off(S \ {x})
  <2> HIDE DEF Off
  <2> QED BY <1>2, <1>7
<1>9. /\ SumOf(F, S \ {c}) = F[x] + SumOf(F, (S \ {c}) \ {x})
      /\ SumOf(F, S \ {x}) = F[c] + SumOf(F, (S \ {x}) \ {c})
  BY <1>7, <1>8
<1>10. F[x] \in Nat /\ F[c] \in Nat /\ SumOf(F, (S \ {x}) \ {c}) \in Nat
  <2>1. (S \ {x}) \ {c} \in SUBSET U
    BY <1>7
  <2>2. QED
    BY <1>3, <1>4, <2>1, SumIsNat
<1>11. QED
  <2> DEFINE r == SumOf(F, (S \ {x}) \ {c})
  <2>1. SumOf(F, S \ {c}) = F[x] + r /\ SumOf(F, S \ {x}) = F[c] + r
    BY <1>7, <1>9
  <2>2. r \in Nat
    BY <1>10
  <2> HIDE DEF r
  <2>3. F[c] + (F[x] + r) = F[x] + (F[c] + r)
    BY <1>10, <2>2
  <2>4. QED
    BY <1>3, <1>5, <2>1, <2>3

\* The facts to cite.
LEMMA SumAdds ==
    ASSUME NEW F, NEW U, IsFiniteSet(U), \A x \in U : F[x] \in Nat
    PROVE  /\ SumOf(F, {}) = 0
           /\ \A S \in SUBSET U : SumOf(F, S) \in Nat
           /\ \A S \in SUBSET U : \A x \in U \ S : SumOf(F, S \cup {x}) = SumOf(F, S) + F[x]
<1>1. SumOf(F, {}) = 0
  BY SumStep, FS_EmptySet
<1>2. \A S \in SUBSET U : SumOf(F, S) \in Nat
  BY SumIsNat
<1>3. ASSUME NEW S \in SUBSET U, NEW x \in U \ S
      PROVE  SumOf(F, S \cup {x}) = SumOf(F, S) + F[x]
  <2>1. S \cup {x} \in SUBSET U /\ x \in S \cup {x} /\ (S \cup {x}) \ {x} = S
    OBVIOUS
  <2>2. SumOf(F, S \cup {x}) = F[x] + SumOf(F, (S \cup {x}) \ {x})
    BY <2>1, SumWithout
  <2>3. SumOf(F, S) \in Nat /\ F[x] \in Nat
    BY <1>2
  <2>4. QED
    BY <2>1, <2>2, <2>3
<1>4. QED
  BY <1>1, <1>2, <1>3

\* Sums of disjoint sets add up.
LEMMA SumDisjoint ==
    ASSUME NEW F, NEW U, IsFiniteSet(U), \A x \in U : F[x] \in Nat,
           NEW S \in SUBSET U, NEW T \in SUBSET U, S \cap T = {}
    PROVE  SumOf(F, S \cup T) = SumOf(F, S) + SumOf(F, T)
<1> DEFINE Good == {A \in SUBSET U : A \cap S = {} => SumOf(F, S \cup A) = SumOf(F, S) + SumOf(F, A)}
<1>1. \A A \in SUBSET U : SumOf(F, A) \in Nat
  BY SumAdds
<1>2. {} \in Good
  <2>1. S \cup {} = S /\ SumOf(F, {}) = 0 /\ SumOf(F, S) \in Nat
    BY <1>1, SumAdds
  <2>2. QED
    BY <2>1
<1>3. ASSUME NEW A \in SUBSET U, NEW x \in U \ A, A \in Good
      PROVE  A \cup {x} \in Good
  <2>1. SUFFICES ASSUME (A \cup {x}) \cap S = {}
                 PROVE  SumOf(F, S \cup (A \cup {x})) = SumOf(F, S) + SumOf(F, A \cup {x})
    OBVIOUS
  <2>2. SumOf(F, S \cup A) = SumOf(F, S) + SumOf(F, A)
    BY <1>3, <2>1
  <2>3. S \cup A \in SUBSET U /\ x \in U \ (S \cup A) /\ S \cup (A \cup {x}) = (S \cup A) \cup {x}
    BY <2>1
  <2>4. \A B \in SUBSET U : \A y \in U \ B : SumOf(F, B \cup {y}) = SumOf(F, B) + F[y]
    BY SumAdds
  <2>5. SumOf(F, (S \cup A) \cup {x}) = SumOf(F, S \cup A) + F[x]
    BY <2>3, <2>4
  <2>6. SumOf(F, A \cup {x}) = SumOf(F, A) + F[x]
    BY <2>4
  <2>7. SumOf(F, S) \in Nat /\ SumOf(F, A) \in Nat /\ F[x] \in Nat
    BY <1>1
  <2>8. (SumOf(F, S) + SumOf(F, A)) + F[x] = SumOf(F, S) + (SumOf(F, A) + F[x])
    BY <2>7
  <2>9. QED
    BY <2>2, <2>3, <2>5, <2>6, <2>8
<1>4. SUBSET U \subseteq Good
  <2> HIDE DEF Good
  <2> QED BY <1>2, <1>3, Rise
<1>5. QED
  BY <1>4

\* A part sums up to no more than the whole.
LEMMA SumMonotone ==
    ASSUME NEW F, NEW U, IsFiniteSet(U), \A x \in U : F[x] \in Nat,
           NEW T \in SUBSET U, NEW S \in SUBSET T
    PROVE  SumOf(F, S) <= SumOf(F, T)
<1>1. S \in SUBSET U /\ T \ S \in SUBSET U /\ S \cap (T \ S) = {} /\ S \cup (T \ S) = T
  OBVIOUS
<1>2. SumOf(F, T) = SumOf(F, S) + SumOf(F, T \ S)
  BY <1>1, SumDisjoint
<1>3. SumOf(F, S) \in Nat /\ SumOf(F, T \ S) \in Nat
  BY <1>1, SumAdds
<1>4. QED
  BY <1>2, <1>3

\* Larger summands make a larger sum.
LEMMA SumPointwise ==
    ASSUME NEW F, NEW G, NEW U, IsFiniteSet(U),
           \A x \in U : F[x] \in Nat /\ G[x] \in Nat /\ F[x] <= G[x]
    PROVE  SumOf(F, U) <= SumOf(G, U)
<1> DEFINE Good == {A \in SUBSET U : SumOf(F, A) <= SumOf(G, A)}
<1>1. /\ SumOf(F, {}) = 0 /\ SumOf(G, {}) = 0
      /\ \A A \in SUBSET U : SumOf(F, A) \in Nat /\ SumOf(G, A) \in Nat
  BY SumAdds
<1>2. {} \in Good
  BY <1>1
<1>3. ASSUME NEW A \in SUBSET U, NEW x \in U \ A, A \in Good
      PROVE  A \cup {x} \in Good
  <2>1. SumOf(F, A \cup {x}) = SumOf(F, A) + F[x]
    BY SumAdds
  <2>2. SumOf(G, A \cup {x}) = SumOf(G, A) + G[x]
    BY SumAdds
  <2>3. SumOf(F, A) \in Nat /\ SumOf(G, A) \in Nat /\ SumOf(F, A) <= SumOf(G, A)
    BY <1>1, <1>3
  <2>4. F[x] \in Nat /\ G[x] \in Nat /\ F[x] <= G[x]
    OBVIOUS
  <2>5. SumOf(F, A) + F[x] <= SumOf(G, A) + G[x]
    BY <2>3, <2>4
  <2>6. A \cup {x} \in SUBSET U
    OBVIOUS
  <2>7. QED
    BY <2>1, <2>2, <2>5, <2>6
<1>4. SUBSET U \subseteq Good
  <2> HIDE DEF Good
  <2> QED BY <1>2, <1>3, Rise
<1>5. QED
  BY <1>4

\* Equal summands make equal sums.
LEMMA SumSame ==
    ASSUME NEW F, NEW G, NEW U, IsFiniteSet(U), \A x \in U : F[x] \in Nat /\ G[x] = F[x]
    PROVE  SumOf(F, U) = SumOf(G, U)
<1>1. SumOf(F, U) <= SumOf(G, U)
  BY SumPointwise
<1>2. SumOf(G, U) <= SumOf(F, U)
  BY SumPointwise
<1>3. SumOf(F, U) \in Nat /\ SumOf(G, U) \in Nat
  BY SumAdds
<1>4. QED
  BY <1>1, <1>2, <1>3

\* What sets cover sums up to no more than they do one by one.
LEMMA SumCovered ==
    ASSUME NEW F, NEW U, IsFiniteSet(U), \A x \in U : F[x] \in Nat,
           NEW I, IsFiniteSet(I), NEW D \in [I -> SUBSET U], NEW G,
           \A c \in I : G[c] \in Nat /\ SumOf(F, D[c]) <= G[c]
    PROVE  SumOf(F, UNION {D[c] : c \in I}) <= SumOf(G, I)
<1> DEFINE Cover(J) == UNION {D[c] : c \in J}
           Good == {J \in SUBSET I : SumOf(F, Cover(J)) <= SumOf(G, J)}
<1>1. \A J \in SUBSET I : SumOf(G, J) \in Nat
  BY SumAdds
<1>2. \A A \in SUBSET U : SumOf(F, A) \in Nat
  BY SumAdds
<1>3. {} \in Good
  <2>1. Cover({}) = {}
    OBVIOUS
  <2>2. SumOf(F, {}) = 0 /\ SumOf(G, {}) = 0
    BY SumAdds
  <2>3. QED
    BY <2>1, <2>2
<1>4. ASSUME NEW J \in SUBSET I, NEW c \in I \ J, J \in Good
      PROVE  J \cup {c} \in Good
  <2> DEFINE New == D[c] \ Cover(J)
  <2>1. Cover(J \cup {c}) = Cover(J) \cup New /\ Cover(J) \cap New = {}
    OBVIOUS
  <2>2. Cover(J) \in SUBSET U /\ New \in SUBSET U /\ D[c] \in SUBSET U /\ New \in SUBSET (D[c])
    OBVIOUS
  <2>3. SumOf(F, Cover(J)) <= SumOf(G, J)
    BY <1>4
  <2> HIDE DEF Cover, New
  <2>4. SumOf(F, Cover(J) \cup New) = SumOf(F, Cover(J)) + SumOf(F, New)
    BY <2>1, <2>2, SumDisjoint
  <2>5. SumOf(F, New) <= SumOf(F, D[c])
    BY <2>2, SumMonotone
  <2>6. SumOf(G, J \cup {c}) = SumOf(G, J) + G[c]
    BY SumAdds
  <2>7. /\ SumOf(F, Cover(J)) \in Nat /\ SumOf(F, New) \in Nat /\ SumOf(F, D[c]) \in Nat
        /\ SumOf(G, J) \in Nat /\ G[c] \in Nat /\ SumOf(F, D[c]) <= G[c]
    BY <1>1, <1>2, <2>2
  <2>8. SumOf(F, Cover(J)) + SumOf(F, New) <= SumOf(G, J) + G[c]
    BY <2>3, <2>5, <2>7
  <2>9. SumOf(F, Cover(J \cup {c})) <= SumOf(G, J \cup {c})
    BY <2>1, <2>4, <2>6, <2>8
  <2>10. QED
    BY <2>9
<1>5. SUBSET I \subseteq Good
  <2> HIDE DEF Good
  <2> QED BY <1>3, <1>4, Rise
<1>6. QED
  BY <1>5

\* What a set is cut into sums up, piece by piece, to no less than the whole.
LEMMA SumCut ==
    ASSUME NEW F, NEW U, IsFiniteSet(U), \A x \in U : F[x] \in Nat,
           NEW P \in SUBSET (SUBSET U), \A C, D \in P : C = D \/ C \cap D = {},
           NEW G, \A C \in P : G[C] \in Nat /\ G[C] <= SumOf(F, C)
    PROVE  SumOf(G, P) <= SumOf(F, UNION P)
<1> DEFINE Good == {Q \in SUBSET P : SumOf(G, Q) <= SumOf(F, UNION Q)}
<1>1. IsFiniteSet(P)
  BY FS_SUBSET, FS_Subset
<1>2. \A Q \in SUBSET P : SumOf(G, Q) \in Nat
  BY <1>1, SumAdds
<1>3. \A A \in SUBSET U : SumOf(F, A) \in Nat
  BY SumAdds
<1>4. {} \in Good
  <2>1. UNION {} = {}
    OBVIOUS
  <2>2. SumOf(F, {}) = 0 /\ SumOf(G, {}) = 0
    BY <1>1, SumAdds
  <2>3. QED
    BY <2>1, <2>2
<1>5. ASSUME NEW Q \in SUBSET P, NEW C \in P \ Q, Q \in Good
      PROVE  Q \cup {C} \in Good
  <2>1. UNION (Q \cup {C}) = (UNION Q) \cup C /\ (UNION Q) \cap C = {}
    OBVIOUS
  <2>2. UNION Q \in SUBSET U /\ C \in SUBSET U
    OBVIOUS
  <2>3. SumOf(F, (UNION Q) \cup C) = SumOf(F, UNION Q) + SumOf(F, C)
    BY <2>1, <2>2, SumDisjoint
  <2>4. SumOf(G, Q \cup {C}) = SumOf(G, Q) + G[C]
    BY <1>1, SumAdds
  <2>5. /\ SumOf(F, UNION Q) \in Nat /\ SumOf(F, C) \in Nat /\ SumOf(G, Q) \in Nat
        /\ G[C] \in Nat /\ G[C] <= SumOf(F, C) /\ SumOf(G, Q) <= SumOf(F, UNION Q)
    BY <1>2, <1>3, <1>5, <2>2
  <2>6. SumOf(G, Q) + G[C] <= SumOf(F, UNION Q) + SumOf(F, C)
    BY <2>5
  <2>7. SumOf(G, Q \cup {C}) <= SumOf(F, UNION (Q \cup {C}))
    BY <2>1, <2>3, <2>4, <2>6
  <2>8. QED
    BY <2>7
<1>6. SUBSET P \subseteq Good
  <2> HIDE DEF Good
  <2> QED BY <1>1, <1>4, <1>5, Rise
<1>7. QED
  BY <1>6


-----------------------------------------------------------------------------
(* graph.py: the worklist loops compute Walk, and over a store Closure.     *)
(* Why: a path is never dropped before its references are on the stack or   *)
(* seen, so when the stack is empty `seen` is closed; and only reachable    *)
(* paths ever get on the stack.                                             *)

Reach == Walk(roots, graph, exclude)

WalkInv ==
    /\ WalkTypeOK
    /\ stack \cup seen \subseteq Reach
    /\ (roots \cap graph) \ exclude \subseteq stack \cup seen
    /\ \A p \in seen :
        \/ marking = "push" /\ p \in stack
        \/ (Refs[p] \cap graph) \ exclude \subseteq stack \cup seen
    /\ marking = "push" => stack \subseteq seen

\* Where a walk starts, and what a reachable path leads to, is reachable.
LEMMA WalkStarts ==
    ASSUME NEW S \in SUBSET Paths, NEW G \in SUBSET Paths, NEW X
    PROVE  (S \cap G) \ X \subseteq Walk(S, G, X)
BY DEF Walk

LEMMA WalkGoesOn ==
    ASSUME NEW S, NEW G, NEW X, NEW p \in Walk(S, G, X)
    PROVE  (Refs[p] \cap G) \ X \subseteq Walk(S, G, X)
<1>1. SUFFICES ASSUME NEW r \in (Refs[p] \cap G) \ X
               PROVE  r \in Walk(S, G, X)
  OBVIOUS
<1>2. p \in Paths /\ r \in Paths
  BY RefsAssumption DEF Walk
<1>3. ASSUME NEW C \in SUBSET Paths, (S \cap G) \ X \subseteq C, WalkClosed(C, G, X)
      PROVE  r \in C
  <2>1. p \in C
    BY <1>3 DEF Walk
  <2>2. QED
    BY <1>1, <1>3, <2>1 DEF WalkClosed
<1>4. QED
  BY <1>2, <1>3 DEF Walk

LEMMA WalkInvInit == WalkInit => WalkInv
<1> SUFFICES ASSUME WalkInit PROVE WalkInv
  OBVIOUS
<1>1. graph \in SUBSET Paths /\ roots \in SUBSET Paths /\ exclude \in SUBSET Paths
  BY DEF WalkInit
<1>2. (roots \cap graph) \ exclude \subseteq Reach
  BY <1>1, WalkStarts DEF Reach
<1>3. CASE StartClosure
  BY <1>1, <1>2, <1>3 DEF StartClosure, WalkInv, WalkTypeOK
<1>4. CASE StartExcluding
  BY <1>1, <1>2, <1>4 DEF StartExcluding, WalkInv, WalkTypeOK
<1>5. QED
  BY <1>3, <1>4 DEF WalkInit

LEMMA WalkInvStep == WalkInv /\ [WalkNext]_walkVars => WalkInv'
<1> SUFFICES ASSUME WalkInv, [WalkNext]_walkVars PROVE WalkInv'
  OBVIOUS
<1>1. CASE UNCHANGED walkVars
  BY <1>1 DEF walkVars, WalkInv, WalkTypeOK, Reach, Walk, WalkClosed
<1>2. ASSUME NEW p \in stack, UNCHANGED <<graph, roots, exclude, marking>>,
             PopAndMark(p) \/ PopAndPush(p)
      PROVE  WalkInv'
  <2>1. p \in Paths /\ p \in Reach /\ Refs[p] \subseteq Paths
    BY RefsAssumption DEF WalkInv, WalkTypeOK
  <2>2. (Refs[p] \cap graph) \ exclude \subseteq Reach
    BY <2>1, WalkGoesOn DEF Reach
  <2>3. Reach' = Reach
    BY <1>2 DEF Reach, Walk, WalkClosed
  <2>4. CASE PopAndMark(p)
    <3>1. exclude = {} /\ marking = "pop"
      BY <2>4 DEF PopAndMark, WalkInv, WalkTypeOK
    <3>2. CASE p \in seen
      BY <1>2, <2>1, <2>2, <2>3, <2>4, <3>1, <3>2 DEF PopAndMark, WalkInv, WalkTypeOK
    <3>3. CASE p \notin seen
      BY <1>2, <2>1, <2>2, <2>3, <2>4, <3>1, <3>3 DEF PopAndMark, WalkInv, WalkTypeOK
    <3>4. QED
      BY <3>2, <3>3
  <2>5. CASE PopAndPush(p)
    BY <1>2, <2>1, <2>2, <2>3, <2>5 DEF PopAndPush, WalkInv, WalkTypeOK
  <2>6. QED
    BY <1>2, <2>4, <2>5
<1>3. QED
  BY <1>1, <1>2 DEF WalkNext

LEMMA WalkInvHolds == WalkSpec => []WalkInv
BY WalkInvInit, WalkInvStep, PTL DEF WalkSpec

\* Type correctness of the worklists (closure, closure_excluding).
THEOREM WalkTypes == WalkSpec => []WalkTypeOK
<1>1. WalkInv => WalkTypeOK
  BY DEF WalkInv
<1>2. QED
  BY <1>1, WalkInvHolds, PTL

\* Both loops return exactly the reachable paths, in every graph.
THEOREM WalkIsCorrect == WalkSpec => []WalkCorrect
<1>1. WalkInv => WalkCorrect
  <2>1. SUFFICES ASSUME WalkInv, stack = {} PROVE seen = Reach
    BY DEF WalkCorrect, Reach
  <2>2. WalkClosed(seen, graph, exclude) /\ seen \in SUBSET Paths
    BY <2>1 DEF WalkInv, WalkTypeOK, WalkClosed
  <2>3. Reach \subseteq seen
    BY <2>1, <2>2 DEF WalkInv, Reach, Walk
  <2>4. QED
    BY <2>1, <2>3 DEF WalkInv
<1>2. QED
  BY <1>1, WalkInvHolds, PTL

\* Over a whole store and around a closed keep set they return what the pruner
\* and the planner are modelled with.
THEOREM WalkGivesClosure == WalkSpec => []WalkIsClosure
<1>1. WalkInv /\ WalkCorrect => WalkIsClosure
  <2>1. SUFFICES ASSUME WalkInv, WalkCorrect, stack = {}, Closed(graph), Closed(exclude)
                 PROVE  seen = Closure(roots \cap graph) \ exclude
    BY DEF WalkIsClosure
  <2>2. /\ graph \in ClosedSets /\ exclude \in ClosedSets
        /\ roots \cap graph \in SUBSET Paths /\ roots \cap graph \subseteq graph
    BY <2>1 DEF WalkInv, WalkTypeOK, ClosedSets
  <2>3. seen = Walk(roots, graph, exclude)
    BY <2>1 DEF WalkCorrect
  <2>4. Walk(roots, graph, exclude) = Walk(roots \cap graph, graph, exclude)
    BY DEF Walk
  <2>5. QED
    BY <2>2, <2>3, <2>4, WalkAroundClosed
<1>2. QED
  BY <1>1, WalkInvHolds, WalkIsCorrect, PTL

-----------------------------------------------------------------------------
(* retention.py: a candidate's `extra` is disjoint from the keep set and    *)
(* completes it to a closed set, so sizes add up; and what is looked at     *)
(* later is less valuable, so what was in the way of an evicted candidate   *)
(* when its turn came was more valuable than it.                            *)

\* What the planner assumes of Charge holds of every sum of sizes that leaves the
\* host's own paths out, and so of retention._charge.
THEOREM SumsAreCharges ==
    ASSUME NEW Nars \in [Paths -> Nat], NEW system \in SUBSET Paths, IsFiniteSet(Paths)
    PROVE  LET charge == [S \in SUBSET Paths |-> SumOf(Nars, S \ system)] IN
           /\ charge \in [SUBSET Paths -> Nat]
           /\ \A S, T \in SUBSET Paths :
                S \cap T = {} => charge[S \cup T] = charge[S] + charge[T]
<1> DEFINE charge == [S \in SUBSET Paths |-> SumOf(Nars, S \ system)]
<1>1. \A S \in SUBSET Paths : S \ system \in SUBSET Paths /\ SumOf(Nars, S \ system) \in Nat
  <2>1. \A S \in SUBSET Paths : SumOf(Nars, S) \in Nat
    BY SumAdds
  <2>2. QED
    BY <2>1
<1>2. ASSUME NEW S \in SUBSET Paths, NEW T \in SUBSET Paths, S \cap T = {}
      PROVE  charge[S \cup T] = charge[S] + charge[T]
  <2>1. /\ (S \cup T) \ system = (S \ system) \cup (T \ system)
        /\ (S \ system) \cap (T \ system) = {}
    BY <1>2
  <2>2. SumOf(Nars, (S \ system) \cup (T \ system)) =
            SumOf(Nars, S \ system) + SumOf(Nars, T \ system)
    BY <1>1, <2>1, SumDisjoint
  <2>3. S \cup T \in SUBSET Paths
    OBVIOUS
  <2>4. QED
    BY <2>1, <2>2, <2>3
<1>3. QED
  BY <1>1, <1>2

\* More paths never cost less.
LEMMA ChargeMonotone ==
    ASSUME NEW S \in SUBSET Paths, NEW T \in SUBSET Paths, S \subseteq T
    PROVE  Charge[S] <= Charge[T]
<1>1. T = S \cup (T \ S) /\ S \cap (T \ S) = {} /\ T \ S \in SUBSET Paths
  OBVIOUS
<1>2. Charge[T] = Charge[S] + Charge[T \ S]
  BY <1>1, ChargeAssumption
<1>3. Charge[S] \in Nat /\ Charge[T \ S] \in Nat
  BY <1>1, ChargeAssumption
<1>4. QED
  BY <1>2, <1>3

\* Taking a candidate in: what it adds to a closed keep set.
LEMMA ExtraCompletes ==
    ASSUME NEW p \in Paths, NEW K \in ClosedSets
    PROVE  LET extra == Walk({p}, Paths, K) IN
           /\ extra \in SUBSET Paths
           /\ extra \cap K = {}
           /\ K \cup extra = K \cup Closure({p})
           /\ K \cup extra \in ClosedSets
           /\ Charge[K \cup extra] = Charge[K] + Charge[extra]
<1> DEFINE extra == Walk({p}, Paths, K)
<1>1. Paths \in ClosedSets
  BY RefsAssumption DEF ClosedSets, Closed
<1>2. extra = Closure({p}) \ K
  BY <1>1, WalkAroundClosed
<1>3. Closure({p}) \in ClosedSets
  BY ClosureIsClosed
<1>4. K \cup extra = K \cup Closure({p})
  BY <1>2
<1>5. K \cup extra \in ClosedSets
  BY <1>3, <1>4, ClosedUnion
<1>6. extra \in SUBSET Paths /\ K \in SUBSET Paths /\ K \cap extra = {}
  BY <1>2, <1>3 DEF ClosedSets
<1>7. Charge[K \cup extra] = Charge[K] + Charge[extra]
  BY <1>6, ChargeAssumption
<1>8. QED
  BY <1>4, <1>5, <1>6, <1>7

-----------------------------------------------------------------------------
(* The invariant *)

\* Candidates that have had their turn.
Seen == Closure(pool) \ (Closure(core) \cup queue)

\* Paths at least as good a reason to be kept as p.
Better(p) == {q \in keep : q \in Closure(pool) /\ Value[q] > Value[p]}

PlanInv ==
    /\ PlanTypeOK /\ KeepIsPlan /\ UsedIsCharge /\ WithinBudget
    /\ queue \subseteq Closure(pool)
    /\ over => queue = {}
    /\ keep \subseteq Closure(core \cup (keep \cap Seen))
    /\ \A q \in Seen, r \in queue : Value[q] > Value[r]
    /\ EvictedDidNotFit

LEMMA PlanInvInit == PlanInit => PlanInv
<1> SUFFICES ASSUME PlanInit PROVE PlanInv
  OBVIOUS
<1>1. keep = Closure(core) /\ core \in SUBSET Paths /\ pool \in SUBSET Paths
  BY DEF PlanInit
<1>2. keep \in ClosedSets /\ Closure(pool) \in ClosedSets
  BY <1>1, ClosureIsClosed
<1>3. PlanTypeOK
  BY <1>1, <1>2, ChargeAssumption, BudgetsAssumption DEF PlanInit, PlanTypeOK, ClosedSets
<1>4. KeepIsPlan
  <2>1. core \subseteq core \cup pool
    OBVIOUS
  <2>2. QED
    BY <1>1, <1>2, <2>1, ClosureMonotone DEF KeepIsPlan, IsPlanFor
<1>5. UsedIsCharge /\ WithinBudget
  <2>1. used = Charge[keep] /\ used \in Nat /\ budget \in Nat
    BY <1>3 DEF PlanInit, PlanTypeOK
  <2>2. ASSUME ~ over PROVE ~ (used > budget)
    BY <2>2, Zenon DEF PlanInit
  <2>3. QED
    BY <1>1, <2>1, <2>2 DEF UsedIsCharge, WithinBudget
<1>6. queue \subseteq Closure(pool) /\ (over => queue = {})
  BY DEF PlanInit
<1>7. keep \subseteq Closure(core \cup (keep \cap Seen))
  <2>1. core \subseteq core \cup (keep \cap Seen)
    OBVIOUS
  <2>2. QED
    BY <1>1, <2>1, ClosureMonotone
<1>8. over \/ Seen = {}
  BY <1>1 DEF PlanInit, Seen
<1>9. EvictedDidNotFit
  BY <1>1, <1>8 DEF PlanInit, EvictedDidNotFit
<1>10. QED
  BY <1>3, <1>4, <1>5, <1>6, <1>7, <1>8, <1>9 DEF PlanInv

\* One round, the candidate taken or skipped.
LEMMA ConsiderKeeps ==
    ASSUME PlanInv, NEW p \in queue, Consider(p)
    PROVE  PlanInv'
<1> DEFINE extra == Walk({p}, Paths, keep)
           fits == p \notin keep /\ used + Charge[extra] <= budget
<1>1. /\ keep \in ClosedSets /\ keep \subseteq Paths /\ queue \subseteq Paths
      /\ p \in Paths /\ p \in Closure(pool) /\ ~ over
      /\ core \subseteq Paths /\ pool \subseteq Paths /\ budget \in Nat
      /\ used = Charge[keep] /\ used \in Nat
  BY DEF PlanInv, PlanTypeOK, KeepIsPlan, IsPlanFor, UsedIsCharge, ClosedSets
<1>2. /\ extra \in SUBSET Paths /\ keep \cup extra = keep \cup Closure({p})
      /\ keep \cup extra \in ClosedSets /\ Charge[extra] \in Nat
      /\ Charge[keep \cup extra] = Charge[keep] + Charge[extra]
  BY <1>1, ExtraCompletes, ChargeAssumption
<1>3. /\ queue' = queue \ {p}
      /\ core' = core /\ pool' = pool /\ budget' = budget /\ over' = over
      /\ \A q \in queue : Value[q] <= Value[p]
      /\ keep' = IF fits THEN keep \cup extra ELSE keep
      /\ used' = IF fits THEN used + Charge[extra] ELSE used
  BY DEF Consider, KeepIt, PassOver, Fits, Extra, inputs
<1> HIDE DEF extra
<1>4. /\ keep' \in ClosedSets /\ keep' \subseteq Paths /\ keep \subseteq keep'
      /\ used' \in Nat /\ used' = Charge[keep'] /\ keep' \subseteq keep \cup Closure({p})
      /\ used' <= budget
  <2>1. used <= budget
    BY <1>1 DEF PlanInv, WithinBudget
  <2>2. CASE fits
    <3>1. keep' = keep \cup extra /\ used' = used + Charge[extra]
      BY <1>3, <2>2
    <3>2. used + Charge[extra] <= budget
      BY <2>2
    <3>3. used' \in Nat /\ used' = Charge[keep'] /\ used' <= budget
      BY <1>1, <1>2, <3>1, <3>2
    <3>4. keep' \in ClosedSets /\ keep' \subseteq Paths
      BY <1>2, <3>1 DEF ClosedSets
    <3>5. keep \subseteq keep' /\ keep' \subseteq keep \cup Closure({p})
      BY <1>2, <3>1
    <3>6. QED
      BY <3>3, <3>4, <3>5
  <2>3. CASE ~ fits
    <3>1. keep' = keep /\ used' = used
      BY <1>3, <2>3
    <3>2. QED
      BY <1>1, <2>1, <3>1
  <2>4. QED
    BY <2>2, <2>3
<1>5. PlanTypeOK'
  BY <1>1, <1>3, <1>4 DEF PlanInv, PlanTypeOK
<1>6. KeepIsPlan'
  <2>1. Closure({p}) \subseteq Closure(core \cup pool)
    <3>1. pool \subseteq core \cup pool
      OBVIOUS
    <3>2. {p} \subseteq Closure(core \cup pool)
      BY <1>1, <3>1, ClosureMonotone
    <3>3. QED
      BY <3>2, ClosureIsClosed, ClosureIsLeast
  <2>2. QED
    BY <1>3, <1>4, <2>1 DEF PlanInv, KeepIsPlan, IsPlanFor
<1>7. UsedIsCharge' /\ WithinBudget'
  BY <1>1, <1>3, <1>4 DEF UsedIsCharge, WithinBudget
<1>8. /\ Seen \subseteq Seen' /\ Seen' \subseteq Seen \cup {p}
      /\ queue' \subseteq Closure(pool') /\ (over' => queue' = {})
      /\ p \in Closure(core) => p \in keep
  BY <1>1, <1>3 DEF PlanInv, Seen, KeepIsPlan, IsPlanFor
<1>9. keep' \subseteq Closure(core' \cup (keep' \cap Seen'))
  <2> DEFINE Now == core \cup (keep \cap Seen)
             Then == core \cup (keep' \cap Seen')
  <2>1. Now \subseteq Then /\ Then \subseteq Paths
    BY <1>1, <1>4, <1>8
  <2>2. keep \subseteq Closure(Then)
    <3>1. keep \subseteq Closure(Now)
      BY DEF PlanInv
    <3>2. Closure(Now) \subseteq Closure(Then)
      BY <2>1, ClosureMonotone
    <3>3. QED
      BY <3>1, <3>2
  <2>3. CASE fits
    <3>1. p \in Closure({p})
      BY <1>1, ClosureContains
    <3>2. p \in keep' \cap Seen'
      BY <1>1, <1>2, <1>3, <1>8, <2>3, <3>1 DEF Seen, PlanInv, KeepIsPlan, IsPlanFor
    <3>3. {p} \subseteq Then
      BY <3>2
    <3>4. Closure({p}) \subseteq Closure(Then)
      BY <3>3, ClosureMonotone
    <3>5. QED
      BY <1>3, <1>4, <2>2, <3>4
  <2>4. CASE ~ fits
    BY <1>3, <2>2, <2>4
  <2>5. QED
    BY <2>3, <2>4
<1>10. \A q \in Seen', r \in queue' : Value[q] > Value[r]
  <2>1. SUFFICES ASSUME NEW q \in Seen', NEW r \in queue' PROVE Value[q] > Value[r]
    OBVIOUS
  <2>2. CASE q \in Seen
    BY <1>3, <2>2 DEF PlanInv
  <2>3. CASE q = p
    <3>1. r \in Paths /\ r # p /\ Value[r] <= Value[p]
      BY <1>1, <1>3
    <3>2. Value[r] \in Nat /\ Value[p] \in Nat /\ Value[r] # Value[p]
      BY <1>1, <3>1, ValueAssumption
    <3>3. QED
      BY <2>3, <3>1, <3>2
  <2>4. QED
    BY <1>8, <2>2, <2>3
<1>11. EvictedDidNotFit'
  <2> DEFINE Beside(q) == Closure(core \cup Better(q)) \cup Closure({q})
             BesideThen(q) == Closure(core \cup Better(q)') \cup Closure({q})
  <2>1. ASSUME NEW q \in Closure(pool) \ (keep' \cup queue')
        PROVE  Charge[BesideThen(q)] > budget
    <3>1. q \in Paths /\ Better(q) \subseteq Better(q)' /\ Better(q)' \subseteq Paths
      BY <1>3, <1>4, <2>1 DEF Better, Closure
    <3>2. /\ core \cup Better(q) \subseteq core \cup Better(q)'
      BY <3>1
    <3>3. Beside(q) \subseteq BesideThen(q)
      BY <3>2, ClosureMonotone
    <3>4. Beside(q) \in SUBSET Paths /\ BesideThen(q) \in SUBSET Paths
      BY ClosureIsClosed DEF ClosedSets
    <3>5. Charge[Beside(q)] <= Charge[BesideThen(q)]
      BY <3>3, <3>4, ChargeMonotone
    <3>6. Charge[Beside(q)] > budget
      <4>1. CASE q # p
        <5>1. q \in Closure(pool) \ (keep \cup queue)
          BY <1>3, <1>4, <2>1, <4>1
        <5>2. QED
          BY <1>1, <5>1 DEF PlanInv, EvictedDidNotFit, Better
      <4>2. CASE q = p
        <5>1. ~ fits /\ p \notin keep
          <6>1. p \in Closure({p}) /\ p \notin keep'
            BY <1>1, <2>1, <4>2, ClosureContains
          <6>2. QED
            BY <1>2, <1>3, <6>1
        <5>2. used + Charge[extra] > budget
          BY <1>1, <1>2, <5>1
        <5>3. keep \cap Seen \subseteq Better(p)
          BY <1>1 DEF PlanInv, Seen, Better
        <5>4. core \cup (keep \cap Seen) \subseteq core \cup Better(p)
          BY <5>3
        <5>5. keep \subseteq Closure(core \cup Better(p))
          BY <5>4, ClosureMonotone DEF PlanInv
        <5>6. keep \cup extra \subseteq Beside(p)
          BY <1>2, <5>5
        <5>7. keep \cup extra \in SUBSET Paths /\ Beside(p) \in SUBSET Paths
          BY <1>1, <1>2, <3>4, <4>2
        <5>8. Charge[keep \cup extra] <= Charge[Beside(p)]
          BY <5>6, <5>7, ChargeMonotone
        <5>9. Charge[Beside(p)] \in Nat
          BY <5>7, ChargeAssumption
        <5>10. QED
          BY <1>1, <1>2, <4>2, <5>2, <5>8, <5>9
      <4>3. QED
        BY <4>1, <4>2
    <3>7. Charge[Beside(q)] \in Nat /\ Charge[BesideThen(q)] \in Nat
      BY <3>4, ChargeAssumption
    <3>8. QED
      BY <1>1, <3>5, <3>6, <3>7
  <2>2. QED
    BY <1>3, <2>1 DEF EvictedDidNotFit, Better
<1>12. QED
  BY <1>5, <1>6, <1>7, <1>8, <1>9, <1>10, <1>11 DEF PlanInv

LEMMA PlanInvHolds == PlanSpec => []PlanInv
<1>1. PlanInv /\ [PlanNext]_planVars => PlanInv'
  <2> SUFFICES ASSUME PlanInv, [PlanNext]_planVars PROVE PlanInv'
    OBVIOUS
  <2>1. CASE UNCHANGED planVars
    BY <2>1 DEF planVars, inputs, PlanInv, PlanTypeOK, KeepIsPlan, UsedIsCharge,
                WithinBudget, EvictedDidNotFit, Seen
  <2>2. CASE PlanNext
    BY <2>2, ConsiderKeeps DEF PlanNext
  <2>3. QED
    BY <2>1, <2>2
<1>2. QED
  BY <1>1, PlanInvInit, PTL DEF PlanSpec

-----------------------------------------------------------------------------
\* A plan is closed, holds the whole core, and nothing beyond core and pool: the
\* promise module Pruner acts on.
THEOREM PlanIsSound == PlanSpec => []KeepIsPlan
BY PlanInvHolds, PTL DEF PlanInv

\* Type correctness of the budget loop (plan_retention).
THEOREM PlanTypes == PlanSpec => []PlanTypeOK
BY PlanInvHolds, PTL DEF PlanInv

\* kept_bytes is the cost of the keep set, shared paths counted once.
THEOREM KeptBytesExact == PlanSpec => []UsedIsCharge
BY PlanInvHolds, PTL DEF PlanInv

\* The keep set fits the budget, or is the core alone.
THEOREM BudgetRespected == PlanSpec => []WithinBudget
BY PlanInvHolds, PTL DEF PlanInv

\* Eviction follows value: what was evicted did not fit beside its betters.
THEOREM EvictionByValue == PlanSpec => []EvictedDidNotFit
BY PlanInvHolds, PTL DEF PlanInv

-----------------------------------------------------------------------------
(* importer.py, extract.py: each check adds its part of Sound, the counters *)
(* say what was read, and what may come is bounded before any of it does.   *)

\* What \div and rounding half up leave over.
LEMMA DivBounds ==
    ASSUME NEW a \in Nat, NEW b \in Nat \ {0}
    PROVE  /\ a \div b \in Nat
           /\ b * (a \div b) <= a
           /\ a < b * (a \div b) + b
  OBVIOUS

LEMMA HalfBounds ==
    ASSUME NEW m \in Nat
    PROVE  Halves(m) \in Nat /\ m <= 2 * Halves(m) /\ 2 * Halves(m) <= m + 1
  BY DEF Halves

\* Read back, a printed size is never below the real one, and never more than a
\* tenth of the unit above it: the bound in Margin (nixcli.estimate_fetch).
LEMMA Rounds ==
    ASSUME NEW n \in Nat
    PROVE  /\ SizeUp(Shown(n)) \in Nat
           /\ n <= SizeUp(Shown(n))
           /\ SizeUp(Shown(n)) <= n + Tenth
<1> DEFINE t == Shown(n)
           m == (2 * t + 1) * Tenth
           k == (2 * Tenth) * t
<1>1. Tenth \in Nat \ {0} /\ 2 * n + Tenth \in Nat /\ 2 * Tenth \in Nat \ {0}
  BY LimitsAssumption
<1>2. /\ t \in Nat /\ k <= 2 * n + Tenth
      /\ 2 * n + Tenth < k + 2 * Tenth
  BY <1>1, DivBounds DEF Shown
<1>3. k \in Nat /\ m = k + Tenth
  BY <1>1, <1>2
<1>4. m \in Nat
  BY <1>1, <1>3
<1>5. Halves(m) \in Nat /\ m <= 2 * Halves(m) /\ 2 * Halves(m) <= m + 1
  BY <1>4, HalfBounds
<1>6. SizeUp(t) = Halves(m)
  BY DEF SizeUp
<1> HIDE DEF t, m, k
<1>7. QED
  BY <1>1, <1>2, <1>3, <1>4, <1>5, <1>6 DEF t
\* How far a bundle has come, from the store backwards.
Storing == {"fetch", "copy", "still", "pinned", "broken"}
Rooted == Storing \cup {"growth"}
Checked == Rooted \cup {"roots"}
Claimed == Checked \cup {"contents"}
Loaded == Claimed \cup {"claims"}
Packed == Loaded \cup {"manifest"}
Reading == Packed \cup {"unpack"}

\* How it ends before that.
Ended == {"refused", "unread", "failed"}

FileBytes == [i \in FileAt |-> Member(i).bytes]
StreamBytes == [i \in DOMAIN bundle.members |-> Member(i).head + Member(i).bytes]
FilesRead == FileAt \cap (1 .. pos)

\* What the bundle needs beside itself, and all that may come by it.
Needed == (UNION {Refs[p] : p \in bundle.paths}) \ (bundle.paths \cup host.valid)
Coming == bundle.paths \cup Closure(Needed)

AdmTypes ==
    /\ bundle \in Uploads /\ host \in Hosts
    /\ at \in Reading \cup Ended \cup {"cap"}
    /\ pos \in 0 .. Len(bundle.members) /\ {total, raw, claimed, others} \subseteq Nat
    /\ free \in Int /\ valid \in SUBSET Paths

\* The counters say what the members read so far come to.
ReadSoFar ==
    /\ names = {Name(Member(i)) : i \in FilesRead}
    /\ total = SumOf(FileBytes, FilesRead)
    /\ raw = SumOf(StreamBytes, 1 .. pos)

\* Every member read so far was fit to be taken.
FitSoFar ==
    /\ bundle.bytes <= Cap
    /\ pos <= MaxMembers
    /\ \A i \in 1 .. pos :
        \/ i \in FileAt /\ Member(i).what \in FileKinds
        \/ Member(i).kind = "dir" /\ Member(i).what \in {"top", "nar dir"}
    /\ \A i, j \in FilesRead : Name(Member(i)) = Name(Member(j)) => i = j
    /\ total <= MaxUnpacked /\ raw <= MaxUnpacked + Slack

\* The conjuncts of Sound that unpacking decides, those the manifest does,
\* and the rest.
WellPacked ==
    /\ bundle.bytes <= Cap /\ bundle.whole
    /\ Len(bundle.members) <= MaxMembers
    /\ \A i \in DOMAIN bundle.members :
        \/ i \in FileAt /\ Member(i).what \in FileKinds
        \/ Member(i).kind = "dir" /\ Member(i).what \in {"top", "nar dir"}
    /\ \A i, j \in FileAt : Name(Member(i)) = Name(Member(j)) => i = j
    /\ Ships("cache-info") # {} /\ Ships("manifest") # {}
    /\ SumOf(FileBytes, FileAt) <= MaxUnpacked
    /\ SumOf(StreamBytes, DOMAIN bundle.members) <= MaxUnpacked + Slack
WellDescribed ==
    /\ bundle.parses /\ bundle.described /\ bundle.allowed
    /\ Cardinality(bundle.roots) <= MaxRoots
    /\ Ships("narinfo") = bundle.paths /\ bundle.paths \subseteq Ships("nar")
    /\ bundle.paths \subseteq bundle.named
TrueToClaims == KeysBound /\ NarSizesTrue

\* What may come fits, or is there already.
HasRoom ==
    \/ Coming \subseteq host.valid
    \/ /\ host.valid # {}
       /\ Size(host.core) + Size(Coming \ host.valid) <= host.budget
       /\ Floor + Size(Coming \ host.valid) <= host.free

\* Each check that was passed still holds.
Passed ==
    /\ at = "cap" => pos = 0
    /\ at \in Reading => FitSoFar
    /\ at \in Packed => pos = Len(bundle.members) /\ WellPacked
    /\ at \in Loaded => WellDescribed
    /\ at \in Claimed => claimed = SumOf(bundle.claim, bundle.paths \ host.valid)
    /\ at \in Checked => TrueToClaims
    /\ at \in Rooted => bundle.roots \subseteq bundle.paths \cup host.valid
    /\ at \in Storing => Closure(Needed) \subseteq host.valid \cup Upstream /\ HasRoom

\* The store takes in nothing before the checks, and then what they were about.
Stored ==
    /\ host.valid \subseteq valid /\ valid \subseteq host.valid \cup Coming
    /\ at \notin Storing \ {"fetch"} => valid = host.valid
    /\ at = "copy" => Closure(Needed) \subseteq valid
    /\ at \in {"still", "pinned"} => bundle.paths \subseteq valid
    /\ free + others + Size(valid \ host.valid) = host.free

AdmInv == AdmTypes /\ ReadSoFar /\ Passed /\ Stored /\ RefusedForCause

-----------------------------------------------------------------------------
(* Facts about the operators *)

\* Constants, one by one.
LEMMA Limits ==
    /\ {Cap, MaxRoots, MaxUnpacked, Slack, MaxMembers, Floor, MaxOthers} \subseteq Nat
    /\ IsFiniteSet(Paths) /\ \A p \in Paths : Bytes[p] \in Nat /\ Bytes[p] # 0
  BY LimitsAssumption, SizesAssumption

\* Sizes add up, and only nothing takes up nothing.
LEMMA Sizes ==
    /\ Size({}) = 0
    /\ \A S \in SUBSET Paths : Size(S) \in Nat
    /\ \A S \in SUBSET Paths : Size(S) = 0 => S = {}
    /\ \A S, T \in SUBSET Paths : S \subseteq T => Size(S) <= Size(T)
    /\ \A S, T \in SUBSET Paths : S \cap T = {} => Size(S \cup T) = Size(S) + Size(T)
    /\ \A S, T \in SUBSET Paths : Size(S \cup T) <= Size(S) + Size(T)
<1>1. IsFiniteSet(Paths) /\ \A p \in Paths : Bytes[p] \in Nat
  BY Limits
<1>2. Size({}) = 0 /\ \A S \in SUBSET Paths : Size(S) \in Nat
  BY <1>1, SumAdds DEF Size
<1>3. ASSUME NEW S \in SUBSET Paths, NEW T \in SUBSET Paths, S \subseteq T
      PROVE  Size(S) <= Size(T)
  BY <1>1, <1>3, SumMonotone DEF Size
<1>4. ASSUME NEW S \in SUBSET Paths, NEW T \in SUBSET Paths, S \cap T = {}
      PROVE  Size(S \cup T) = Size(S) + Size(T)
  BY <1>1, <1>4, SumDisjoint DEF Size
<1>5. ASSUME NEW S \in SUBSET Paths, NEW T \in SUBSET Paths
      PROVE  Size(S \cup T) <= Size(S) + Size(T)
  <2>1. T \ S \in SUBSET Paths /\ S \cap (T \ S) = {} /\ S \cup (T \ S) = S \cup T
    OBVIOUS
  <2>2. Size(S \cup T) = Size(S) + Size(T \ S)
    BY <1>4, <2>1
  <2>3. Size(T \ S) <= Size(T)
    BY <1>3, <2>1
  <2>4. Size(S) \in Nat /\ Size(T) \in Nat /\ Size(T \ S) \in Nat
    BY <1>2, <2>1
  <2>5. QED
    BY <2>2, <2>3, <2>4
<1>6. ASSUME NEW S \in SUBSET Paths, Size(S) = 0, S # {}
      PROVE  FALSE
  <2>1. PICK p \in S : TRUE
    BY <1>6
  <2>2. S \ {p} \in SUBSET Paths /\ p \in Paths /\ p \in Paths \ (S \ {p}) /\ (S \ {p}) \cup {p} = S
    BY <2>1
  <2>3. Size((S \ {p}) \cup {p}) = Size(S \ {p}) + Bytes[p]
    <3>1. \A A \in SUBSET Paths : \A x \in Paths \ A :
            SumOf(Bytes, A \cup {x}) = SumOf(Bytes, A) + Bytes[x]
      BY <1>1, SumAdds
    <3>2. QED
      BY <2>2, <3>1 DEF Size
  <2>4. Size(S \ {p}) \in Nat /\ Bytes[p] \in Nat /\ Bytes[p] # 0
    BY <1>2, <2>2, Limits
  <2>5. QED
    BY <1>6, <2>2, <2>3, <2>4
<1>7. QED
  BY <1>2, <1>3, <1>4, <1>5, <1>6

\* What the pieces need, one by one, is what they need together.
LEMMA ClosureOfPieces ==
    ASSUME NEW P \in SUBSET (SUBSET Paths)
    PROVE  /\ \A C \in P : Closure(C) \subseteq Closure(UNION P)
           /\ Closure(UNION P) \subseteq UNION {Closure(C) : C \in P}
<1>1. \A C \in P : C \subseteq Closure(C) /\ Closure(C) \in ClosedSets
  BY ClosureContains, ClosureIsClosed
<1>2. UNION {Closure(C) : C \in P} \in ClosedSets
  BY <1>1 DEF ClosedSets, Closed
<1>3. UNION P \subseteq UNION {Closure(C) : C \in P}
  BY <1>1
<1>4. Closure(UNION P) \subseteq UNION {Closure(C) : C \in P}
  BY <1>2, <1>3, ClosureIsLeast
<1>5. \A C \in P : C \subseteq UNION P
  OBVIOUS
<1>6. \A C \in P : Closure(C) \subseteq Closure(UNION P)
  BY <1>5, ClosureMonotone
<1>7. QED
  BY <1>4, <1>6

\* Types of the bundle at hand and of the host it meets.
LEMMA UploadFacts ==
    ASSUME AdmTypes
    PROVE  /\ bundle.roots \in SUBSET Paths /\ bundle.paths \in SUBSET Paths
           /\ bundle.claim \in [Paths -> Nat]
           /\ Len(bundle.members) \in Nat /\ DOMAIN bundle.members = 1 .. Len(bundle.members)
           /\ \A i \in 1 .. Len(bundle.members) : Member(i).head \in Nat /\ Member(i).bytes \in Nat
  BY UploadsAssumption DEF AdmTypes, Member

LEMMA HostFacts ==
    ASSUME AdmTypes
    PROVE  /\ host.valid \in SUBSET Paths /\ host.valid \in ClosedSets
           /\ host.core \in SUBSET Paths
           /\ host.free \in Int /\ host.budget \in Int
  BY HostsAssumption DEF AdmTypes, ClosedSets

\* What the bundle needs is part of what its paths reach.
LEMMA NeededFacts ==
    ASSUME AdmTypes
    PROVE  /\ Needed \in SUBSET Paths /\ Needed \cap host.valid = {}
           /\ Needed \subseteq Closure(Needed) /\ Closure(Needed) \in SUBSET Paths
           /\ Closure(Needed) \in ClosedSets
           /\ Coming \in SUBSET Paths
           /\ Needed \subseteq Closure(bundle.paths)
           /\ Closure(Needed) \subseteq Closure(bundle.paths)
<1>1. bundle.paths \in SUBSET Paths
  BY UploadFacts
<1>2. Needed \in SUBSET Paths /\ Needed \cap host.valid = {}
  <2>1. \A p \in bundle.paths : Refs[p] \in SUBSET Paths
    BY <1>1, RefsAssumption
  <2>2. ASSUME NEW q \in Needed
        PROVE  q \in Paths /\ q \notin host.valid
    <3>1. PICK p \in bundle.paths : q \in Refs[p]
      BY DEF Needed
    <3>2. QED
      BY <2>1, <3>1 DEF Needed
  <2>3. QED
    BY <2>2
<1>3. Needed \subseteq Closure(Needed) /\ Closure(Needed) \in ClosedSets
  BY <1>2, ClosureContains, ClosureIsClosed
<1>4. bundle.paths \subseteq Closure(bundle.paths) /\ Closure(bundle.paths) \in ClosedSets
  BY <1>1, ClosureContains, ClosureIsClosed
<1>5. Needed \subseteq Closure(bundle.paths)
  BY <1>4 DEF Needed, ClosedSets, Closed
<1>6. Closure(Needed) \subseteq Closure(bundle.paths)
  BY <1>4, <1>5, ClosureIsLeast
<1>7. Closure(Needed) \in SUBSET Paths
  BY DEF Closure
<1>8. QED
  BY <1>1, <1>2, <1>3, <1>5, <1>6, <1>7 DEF Coming

\* A bundle is sound when every check accepts it.
LEMMA SoundIs == Sound <=> WellPacked /\ WellDescribed /\ TrueToClaims
<1>1. /\ SumOf([i \in FileAt |-> Member(i).bytes], FileAt) = SumOf(FileBytes, FileAt)
      /\ SumOf([i \in DOMAIN bundle.members |-> Member(i).head + Member(i).bytes],
               DOMAIN bundle.members) = SumOf(StreamBytes, DOMAIN bundle.members)
  BY DEF FileBytes, StreamBytes
<1> HIDE DEF Member
<1>2. QED
  BY <1>1 DEF Sound, WellPacked, WellDescribed, TrueToClaims, KeysBound, NarSizesTrue

\* What is said of the bundle and of the host before it lasts as long as they do.
LEMMA Lasting ==
    ASSUME bundle' = bundle, host' = host
    PROVE  /\ WellPacked' = WellPacked /\ WellDescribed' = WellDescribed
           /\ TrueToClaims' = TrueToClaims /\ Sound' = Sound
           /\ Needed' = Needed /\ Coming' = Coming /\ HasRoom' = HasRoom
           /\ FileAt' = FileAt /\ FileBytes' = FileBytes /\ StreamBytes' = StreamBytes
           /\ \A i : Member(i)' = Member(i)
<1>1. FileAt' = FileAt /\ FileBytes' = FileBytes /\ StreamBytes' = StreamBytes
      /\ \A i : Member(i)' = Member(i)
  BY DEF FileAt, FileBytes, StreamBytes, Member
<1>2. Ships("cache-info")' = Ships("cache-info") /\ Ships("manifest")' = Ships("manifest")
      /\ Ships("narinfo")' = Ships("narinfo") /\ Ships("nar")' = Ships("nar")
  BY <1>1 DEF Ships
<1>3. WellPacked' = WellPacked
  BY <1>1, <1>2 DEF WellPacked, Name
<1>4. WellDescribed' = WellDescribed
  BY <1>2 DEF WellDescribed
<1>5. TrueToClaims' = TrueToClaims
  BY DEF TrueToClaims, KeysBound, NarSizesTrue
<1>6. Sound' = Sound
  BY <1>1, <1>2 DEF Sound, Name
<1>7. Needed' = Needed /\ Coming' = Coming /\ HasRoom' = HasRoom
  BY DEF Needed, Coming, HasRoom
<1>8. QED
  BY <1>1, <1>3, <1>4, <1>5, <1>6, <1>7

\* The reasons RefusedForCause allows, of the bundle and of the guard.
Unfit ==
    \/ ~ Sound
    \/ ~ (bundle.roots \subseteq bundle.paths \cup host.valid)
    \/ ~ (Closure(bundle.paths) \subseteq bundle.paths \cup host.valid \cup Upstream)
Cause ==
    \/ Unfit
    \/ /\ Growth # 0
       /\ \/ host.valid = {}
          \/ Size(host.core) + Growth + Margin > host.budget
          \/ free - Growth - Margin < Floor

\* What RefusedForCause says of each of the two ends.
Justified ==
    /\ at = "refused" => Cause
    /\ at = "unread" => Unfit \/ Growth # 0

LEMMA TwoCauses ==
    RefusedForCause = Justified /\ RefusedForCause' = Justified'
  BY DEF RefusedForCause, Justified, Cause, Unfit

\* A refusal stays justified.
LEMMA CauseLasts ==
    ASSUME UNCHANGED <<bundle, host, valid, free>>
    PROVE  (Cause => Cause') /\ Growth' = Growth /\ Unfit' = Unfit
<1>1. Missing' = Missing
  BY DEF Missing
<1>2. Growth' = Growth /\ Margin' = Margin
  BY <1>1 DEF Growth, Margin
<1>3. Sound' = Sound
  BY Lasting
<1>4. Unfit' = Unfit
  BY <1>3 DEF Unfit
<1>5. QED
  BY <1>2, <1>4 DEF Cause

\* While the host has only what it had, what is missing is what was needed.
LEMMA Beforehand ==
    ASSUME AdmTypes, valid = host.valid
    PROVE  /\ Missing = Needed
           /\ Growth = Size(Coming \ host.valid) /\ Growth \in Nat
           /\ Growth = 0 => Coming \subseteq host.valid
           /\ Size(bundle.paths \ host.valid) <= Growth
           /\ Margin \in Nat
<1>1. Missing = Needed
  BY DEF Missing, Needed
<1>2. Growth = Size(Coming \ host.valid)
  BY <1>1 DEF Growth, Coming
<1>3. Coming \ host.valid \in SUBSET Paths /\ bundle.paths \ host.valid \in SUBSET Paths
      /\ bundle.paths \ host.valid \subseteq Coming \ host.valid
  BY NeededFacts, UploadFacts DEF Coming
<1>4. Growth \in Nat /\ Size(bundle.paths \ host.valid) <= Growth
  BY <1>2, <1>3, Sizes
<1>5. Growth = 0 => Coming \subseteq host.valid
  BY <1>2, <1>3, Sizes
<1>6. Margin \in Nat
  <2> DEFINE F == [p \in Missing |-> Tenth + Size(Closure({p}) \ host.valid)]
  <2>1. Missing \in SUBSET Paths
    BY <1>1, NeededFacts
  <2>2. IsFiniteSet(Missing)
    BY <2>1, Limits, FS_Subset
  <2>3. ASSUME NEW p \in Missing
        PROVE  F[p] \in Nat
    <3>1. Closure({p}) \ host.valid \in SUBSET Paths
      BY DEF Closure
    <3>2. Size(Closure({p}) \ host.valid) \in Nat /\ Tenth \in Nat
      BY <3>1, Sizes, LimitsAssumption
    <3>3. QED
      BY <3>2
  <2>4. Margin = SumOf(F, Missing)
    BY DEF Margin
  <2> HIDE DEF F
  <2>5. QED
    BY <2>2, <2>3, <2>4, SumAdds
<1>7. QED
  BY <1>1, <1>2, <1>4, <1>5, <1>6

-----------------------------------------------------------------------------
(* The guard's estimate *)

\* What nix is asked about in pieces is never estimated below what comes, nor
\* above it by more than Margin.
LEMMA EstimateBounds ==
    ASSUME AdmTypes, valid = host.valid, NEW P \in Pieces(Missing)
    PROVE  /\ Estimate(P) \in Nat
           /\ Size(Closure(Missing) \ valid) <= Estimate(P)
           /\ Estimate(P) <= Margin
           /\ Missing = {} => Estimate(P) = 0
<1> DEFINE D == [C \in P |-> Closure(C) \ valid]
           G == [C \in P |-> SizeUp(Shown(Size(Closure(C) \ valid)))]
           F == [p \in Missing |-> Tenth + Size(Closure({p}) \ host.valid)]
<1>1. Missing \in SUBSET Paths /\ IsFiniteSet(Paths) /\ IsFiniteSet(Missing)
  BY Beforehand, NeededFacts, Limits, FS_Subset
<1>2. /\ P \in SUBSET (SUBSET Missing) /\ UNION P = Missing
      /\ \A C \in P : C # {}
      /\ \A C, E \in P : C = E \/ C \cap E = {}
  <2>1. P \in SUBSET ((SUBSET Missing) \ {{}}) /\ UNION P = Missing
    BY Zenon DEF Pieces
  <2>2. \A C, E \in P : C = E \/ C \cap E = {}
    BY Zenon DEF Pieces
  <2>3. QED
    BY <2>1, <2>2
<1>3. IsFiniteSet(P)
  BY <1>1, <1>2, FS_SUBSET, FS_Subset
<1>4. \A C : Closure(C) \ valid \in SUBSET Paths /\ Size(Closure(C) \ valid) \in Nat
  <2>1. \A C : Closure(C) \ valid \in SUBSET Paths
    BY DEF Closure
  <2>2. QED
    BY <2>1, Sizes
<1>5. ASSUME NEW C \in P
      PROVE  /\ G[C] \in Nat /\ Size(D[C]) <= G[C] /\ G[C] <= Size(D[C]) + Tenth
  BY <1>4, Rounds
<1>6. Estimate(P) = SumOf(G, P)
  BY DEF Estimate
<1>7. Margin = SumOf(F, Missing)
  BY DEF Margin
<1>8. Tenth \in Nat
  BY LimitsAssumption
<1>9. \A p \in Missing : F[p] \in Nat
  BY <1>4, <1>8
<1>10. SumOf(G, P) \in Nat
  <2> HIDE DEF G
  <2> QED
    BY <1>3, <1>5, SumAdds
<1>11. Size(Closure(Missing) \ valid) <= SumOf(G, P)
  <2>1. D \in [P -> SUBSET Paths]
    BY <1>4
  <2>2. Closure(UNION P) \subseteq UNION {Closure(C) : C \in P}
    BY <1>1, <1>2, ClosureOfPieces
  <2>3. Closure(Missing) \ valid \subseteq UNION {D[C] : C \in P}
    BY <1>2, <2>2
  <2>4. UNION {D[C] : C \in P} \in SUBSET Paths
    BY <2>1
  <2>5. \A C \in P : G[C] \in Nat /\ SumOf(Bytes, D[C]) <= G[C]
    BY <1>5 DEF Size
  <2>6. \A x \in Paths : Bytes[x] \in Nat
    BY Limits
  <2>7. SumOf(Bytes, UNION {D[C] : C \in P}) <= SumOf(G, P)
    <3> HIDE DEF D, G
    <3> QED
      BY <1>1, <1>3, <2>1, <2>5, <2>6, SumCovered
  <2>8. Size(Closure(Missing) \ valid) <= Size(UNION {D[C] : C \in P})
    BY <1>4, <2>3, <2>4, Sizes
  <2>9. Size(Closure(Missing) \ valid) \in Nat /\ Size(UNION {D[C] : C \in P}) \in Nat
    BY <1>4, <2>4, Sizes
  <2> HIDE DEF D, G
  <2>10. QED
    BY <1>10, <2>7, <2>8, <2>9 DEF Size
<1>12. SumOf(G, P) <= SumOf(F, Missing)
  <2>1. ASSUME NEW C \in P
        PROVE  G[C] <= SumOf(F, C)
    <3> DEFINE E == [p \in C |-> Closure({p}) \ valid]
               H == [p \in C |-> Size(Closure({p}) \ valid)]
    <3>1. C \in SUBSET Missing /\ C # {} /\ IsFiniteSet(C) /\ C \in SUBSET Paths
      BY <1>1, <1>2, FS_Subset
    <3>2. PICK c \in C : TRUE
      BY <3>1
    <3>3. Size(D[C]) <= SumOf(H, C)
      <4>1. {{p} : p \in C} \in SUBSET (SUBSET Paths) /\ UNION {{p} : p \in C} = C
        BY <3>1
      <4>2. Closure(C) \subseteq UNION {Closure(X) : X \in {{p} : p \in C}}
        BY <4>1, ClosureOfPieces
      <4>3. ASSUME NEW q \in Closure(C) \ valid
            PROVE  q \in UNION {E[p] : p \in C}
        <5>1. PICK X \in {{p} : p \in C} : q \in Closure(X)
          BY <4>2
        <5>2. PICK p \in C : X = {p}
          BY <5>1
        <5>3. q \in E[p]
          BY <5>1, <5>2
        <5>4. QED
          BY <5>3
      <4>4. E \in [C -> SUBSET Paths] /\ UNION {E[p] : p \in C} \in SUBSET Paths
        BY <1>4
      <4>5. \A p \in C : H[p] \in Nat /\ SumOf(Bytes, E[p]) <= H[p]
        BY <1>4 DEF Size
      <4>6. \A x \in Paths : Bytes[x] \in Nat
        BY Limits
      <4>7. SumOf(Bytes, UNION {E[p] : p \in C}) <= SumOf(H, C)
        <5> HIDE DEF E, H
        <5> QED
          BY <1>1, <3>1, <4>4, <4>5, <4>6, SumCovered
      <4>8. Size(D[C]) <= Size(UNION {E[p] : p \in C})
        BY <1>4, <4>3, <4>4, Sizes
      <4>9. Size(D[C]) \in Nat /\ Size(UNION {E[p] : p \in C}) \in Nat
        BY <1>4, <4>4, Sizes
      <4>10. SumOf(H, C) \in Nat
        <5> HIDE DEF H
        <5> QED
          BY <3>1, <4>5, SumAdds
      <4> HIDE DEF D, E, H
      <4>11. QED
        BY <4>7, <4>8, <4>9, <4>10 DEF Size
    <3>4. SumOf(F, C) >= SumOf(H, C) + Tenth
      <4>1. \A p \in C : F[p] = H[p] + Tenth /\ H[p] \in Nat /\ F[p] \in Nat
        BY <1>4, <1>8, <3>1
      <4>2. C \ {c} \in SUBSET C /\ c \in C \ (C \ {c}) /\ (C \ {c}) \cup {c} = C
            /\ IsFiniteSet(C \ {c})
        BY <3>1, <3>2, FS_Subset
      <4> HIDE DEF F, H
      <4>3. SumOf(H, C \ {c}) <= SumOf(F, C \ {c})
        <5>1. \A p \in C \ {c} : H[p] \in Nat /\ F[p] \in Nat /\ H[p] <= F[p]
          BY <1>8, <4>1
        <5>2. QED
          BY <4>2, <5>1, SumPointwise
      <4>4. SumOf(F, C) = SumOf(F, C \ {c}) + F[c]
        <5>1. \A x \in C : F[x] \in Nat
          BY <4>1
        <5>2. \A S \in SUBSET C : \A x \in C \ S : SumOf(F, S \cup {x}) = SumOf(F, S) + F[x]
          BY <3>1, <5>1, SumAdds
        <5>3. QED
          BY <4>2, <5>2
      <4>5. SumOf(H, C) = SumOf(H, C \ {c}) + H[c]
        <5>1. \A x \in C : H[x] \in Nat
          BY <4>1
        <5>2. \A S \in SUBSET C : \A x \in C \ S : SumOf(H, S \cup {x}) = SumOf(H, S) + H[x]
          BY <3>1, <5>1, SumAdds
        <5>3. QED
          BY <4>2, <5>2
      <4>6. SumOf(H, C \ {c}) \in Nat /\ SumOf(F, C \ {c}) \in Nat
        <5>1. \A x \in C : H[x] \in Nat /\ F[x] \in Nat
          BY <4>1
        <5>2. QED
          BY <3>1, <4>2, <5>1, SumAdds
      <4>7. QED
        BY <1>8, <3>2, <4>1, <4>3, <4>4, <4>5, <4>6
    <3>5. SumOf(H, C) \in Nat /\ SumOf(F, C) \in Nat
      <4>1. \A p \in C : H[p] \in Nat /\ F[p] \in Nat
        BY <1>4, <1>9, <3>1
      <4> HIDE DEF F, H
      <4>2. QED
        BY <3>1, <4>1, SumAdds
    <3>6. G[C] \in Nat /\ Size(D[C]) \in Nat /\ G[C] <= Size(D[C]) + Tenth
      BY <1>4, <1>5
    <3> HIDE DEF D, E, F, G, H
    <3>7. QED
      BY <1>8, <3>3, <3>4, <3>5, <3>6
  <2>2. \A C \in P : G[C] \in Nat /\ G[C] <= SumOf(F, C)
    BY <1>5, <2>1
  <2> HIDE DEF F, G
  <2>3. SumOf(G, P) <= SumOf(F, UNION P)
    BY <1>1, <1>2, <1>9, <2>2, SumCut
  <2>4. QED
    BY <1>2, <2>3
<1>13. Missing = {} => Estimate(P) = 0
  <2>1. Missing = {} => P = {}
    BY <1>2
  <2>2. SumOf(G, {}) = 0
    BY SumStep, FS_EmptySet
  <2>3. QED
    BY <1>6, <2>1, <2>2
<1>14. QED
  BY <1>6, <1>7, <1>10, <1>11, <1>12, <1>13

-----------------------------------------------------------------------------
(* Unpacking *)

\* One member more: what is counted and what is known of it.
LEMMA OneMore ==
    ASSUME AdmTypes, ReadSoFar, pos < Len(bundle.members)
    PROVE  LET i == pos + 1
               m == bundle.members[i] IN
           /\ i \in 1 .. Len(bundle.members) /\ m = Member(i)
           /\ m.head \in Nat /\ m.bytes \in Nat
           /\ raw + m.head + m.bytes = SumOf(StreamBytes, 1 .. i)
           /\ m.kind = "file" =>
                /\ i \in FileAt /\ FileAt \cap (1 .. i) = FilesRead \cup {i}
                /\ total + m.bytes = SumOf(FileBytes, FilesRead \cup {i})
           /\ m.kind # "file" => i \notin FileAt /\ FileAt \cap (1 .. i) = FilesRead
<1> DEFINE i == pos + 1
           n == Len(bundle.members)
           m == bundle.members[i]
<1>1. /\ pos \in Nat /\ n \in Nat /\ i \in 1 .. n /\ m = Member(i)
      /\ 1 .. i = (1 .. pos) \cup {i} /\ i \notin 1 .. pos
      /\ DOMAIN bundle.members = 1 .. n
  BY UploadFacts DEF AdmTypes, Member
<1>2. /\ \A k \in 1 .. n : Member(k).head \in Nat /\ Member(k).bytes \in Nat
      /\ IsFiniteSet(1 .. n)
  <2>1. \A k \in 1 .. n : Member(k).head \in Nat /\ Member(k).bytes \in Nat
    BY UploadFacts
  <2>2. IsFiniteSet(1 .. n)
    BY <1>1, FS_Interval
  <2>3. QED
    BY <2>1, <2>2
<1>3. \A k \in 1 .. n : StreamBytes[k] = Member(k).head + Member(k).bytes
  BY <1>1 DEF StreamBytes
<1>4. \A k \in FileAt : FileBytes[k] = Member(k).bytes
  BY DEF FileBytes
<1>5. FileAt \in SUBSET (1 .. n) /\ FilesRead \in SUBSET FileAt /\ IsFiniteSet(FileAt)
  BY <1>1, <1>2, FS_Subset DEF FileAt, FilesRead
<1>6. SumOf(StreamBytes, (1 .. pos) \cup {i}) = raw + (m.head + m.bytes)
  <2>1. \A k \in 1 .. n : StreamBytes[k] \in Nat
    BY <1>2, <1>3
  <2>2. 1 .. pos \in SUBSET (1 .. n) /\ i \in (1 .. n) \ (1 .. pos)
    BY <1>1
  <2>3. SumOf(StreamBytes, (1 .. pos) \cup {i}) = SumOf(StreamBytes, 1 .. pos) + StreamBytes[i]
    <3> HIDE DEF i, n, m
    <3>1. \A S \in SUBSET (1 .. n) : \A x \in (1 .. n) \ S :
            SumOf(StreamBytes, S \cup {x}) = SumOf(StreamBytes, S) + StreamBytes[x]
      BY <1>2, <2>1, SumAdds
    <3>2. QED
      BY <2>2, <3>1
  <2>4. QED
    BY <1>1, <1>3, <2>3 DEF ReadSoFar
<1>7. ASSUME m.kind = "file"
      PROVE  /\ i \in FileAt /\ FileAt \cap (1 .. i) = FilesRead \cup {i}
             /\ total + m.bytes = SumOf(FileBytes, FilesRead \cup {i})
  <2>1. i \in FileAt /\ FileAt \cap (1 .. i) = FilesRead \cup {i} /\ i \notin FilesRead
    BY <1>1, <1>7 DEF FileAt, FilesRead, Member
  <2>2. \A k \in FileAt : FileBytes[k] \in Nat
    BY <1>2, <1>4, <1>5
  <2>3. SumOf(FileBytes, FilesRead \cup {i}) = SumOf(FileBytes, FilesRead) + FileBytes[i]
    <3> HIDE DEF i, n, m
    <3>1. \A S \in SUBSET FileAt : \A x \in FileAt \ S :
            SumOf(FileBytes, S \cup {x}) = SumOf(FileBytes, S) + FileBytes[x]
      BY <1>5, <2>2, SumAdds
    <3>2. QED
      BY <1>5, <2>1, <3>1
  <2>4. QED
    BY <1>1, <1>4, <2>1, <2>3 DEF ReadSoFar
<1>8. m.kind # "file" => i \notin FileAt /\ FileAt \cap (1 .. i) = FilesRead
  BY <1>1 DEF FileAt, FilesRead, Member
<1>9. m.head \in Nat /\ m.bytes \in Nat /\ raw \in Nat
  BY <1>1, <1>2 DEF AdmTypes
<1>10. raw + m.head + m.bytes = SumOf(StreamBytes, 1 .. i)
  <2>1. SumOf(StreamBytes, 1 .. i) = raw + (m.head + m.bytes)
    BY <1>1, <1>6
  <2> HIDE DEF i, m
  <2>2. raw + m.head + m.bytes = raw + (m.head + m.bytes)
    BY <1>9
  <2>3. QED
    BY <2>1, <2>2
<1>11. QED
  BY <1>1, <1>7, <1>8, <1>9, <1>10

\* Sums over the members are numbers, and a part is no more than the whole.
LEMMA MemberSums ==
    ASSUME AdmTypes
    PROVE  /\ \A S \in SUBSET FileAt :
                /\ SumOf(FileBytes, S) \in Nat /\ SumOf(FileBytes, FileAt) \in Nat
                /\ SumOf(FileBytes, S) <= SumOf(FileBytes, FileAt)
           /\ \A S \in SUBSET DOMAIN bundle.members :
                /\ SumOf(StreamBytes, S) \in Nat
                /\ SumOf(StreamBytes, S) <= SumOf(StreamBytes, DOMAIN bundle.members)
<1> DEFINE n == Len(bundle.members)
<1>1. /\ n \in Nat /\ DOMAIN bundle.members = 1 .. n /\ IsFiniteSet(1 .. n)
      /\ \A k \in 1 .. n : Member(k).head \in Nat /\ Member(k).bytes \in Nat
  BY UploadFacts, FS_Interval
<1>2. FileAt \in SUBSET (1 .. n) /\ IsFiniteSet(FileAt)
  BY <1>1, FS_Subset DEF FileAt
<1>3. \A k \in FileAt : FileBytes[k] \in Nat
  BY <1>1, <1>2 DEF FileBytes
<1>4. \A k \in 1 .. n : StreamBytes[k] \in Nat
  BY <1>1 DEF StreamBytes
<1> HIDE DEF n
<1>5. \A S \in SUBSET FileAt : SumOf(FileBytes, S) \in Nat
  BY <1>2, <1>3, SumAdds
<1>6. \A S \in SUBSET (1 .. n) : SumOf(StreamBytes, S) \in Nat
  BY <1>1, <1>4, SumAdds
<1>7. \A S \in SUBSET FileAt : SumOf(FileBytes, S) <= SumOf(FileBytes, FileAt)
  BY <1>2, <1>3, SumMonotone
<1>8. \A S \in SUBSET (1 .. n) : SumOf(StreamBytes, S) <= SumOf(StreamBytes, 1 .. n)
  BY <1>1, <1>4, SumMonotone
<1>9. QED
  BY <1>1, <1>5, <1>6, <1>7, <1>8

\* A sound bundle's next member is taken.
LEMMA SoundIsTaken ==
    ASSUME AdmTypes, ReadSoFar, pos < Len(bundle.members), WellPacked
    PROVE  Takes(bundle.members[pos + 1])
<1> DEFINE i == pos + 1
           m == bundle.members[i]
<1>1. /\ i \in 1 .. Len(bundle.members) /\ m = Member(i)
      /\ m.head \in Nat /\ m.bytes \in Nat
      /\ raw + m.head + m.bytes = SumOf(StreamBytes, 1 .. i)
      /\ m.kind = "file" =>
            /\ i \in FileAt /\ FileAt \cap (1 .. i) = FilesRead \cup {i}
            /\ total + m.bytes = SumOf(FileBytes, FilesRead \cup {i})
  BY OneMore
<1>2. Len(bundle.members) \in Nat /\ DOMAIN bundle.members = 1 .. Len(bundle.members)
      /\ MaxMembers \in Nat /\ MaxUnpacked \in Nat /\ Slack \in Nat /\ pos \in Nat
  BY UploadFacts, Limits DEF AdmTypes
<1> DEFINE files == SumOf(FileBytes, FileAt)
           stream == SumOf(StreamBytes, DOMAIN bundle.members)
<1>9. Len(bundle.members) <= MaxMembers /\ files <= MaxUnpacked /\ stream <= MaxUnpacked + Slack
  BY Zenon DEF WellPacked
<1>3. pos < MaxMembers
  BY <1>2, <1>9
<1>4. 1 .. i \in SUBSET DOMAIN bundle.members
  BY <1>1, <1>2
<1>5. raw + m.head + m.bytes <= MaxUnpacked + Slack
  <2>1. SumOf(StreamBytes, 1 .. i) \in Nat /\ stream \in Nat
        /\ SumOf(StreamBytes, 1 .. i) <= stream
    <3> HIDE DEF i
    <3> QED
      BY <1>4, MemberSums
  <2> HIDE DEF i, m, stream
  <2>2. QED
    BY <1>1, <1>2, <1>9, <2>1
<1>6. \/ i \in FileAt /\ m.what \in FileKinds
      \/ m.kind = "dir" /\ m.what \in {"top", "nar dir"}
  BY <1>1, <1>2 DEF WellPacked
<1>7. ASSUME i \in FileAt
      PROVE  m.kind = "file" /\ total + m.bytes <= MaxUnpacked /\ Name(m) \notin names
  <2>1. m.kind = "file"
    BY <1>7 DEF FileAt, Member
  <2>2. FilesRead \cup {i} \in SUBSET FileAt
    BY <1>1, <2>1
  <2>3. total + m.bytes <= MaxUnpacked
    <3>1. SumOf(FileBytes, FilesRead \cup {i}) \in Nat /\ files \in Nat
          /\ SumOf(FileBytes, FilesRead \cup {i}) <= files
      <4> HIDE DEF i
      <4> QED
        BY <2>2, MemberSums
    <3> HIDE DEF i, m, files
    <3>2. QED
      BY <1>1, <1>2, <1>9, <2>1, <3>1
  <2>4. Name(m) \notin names
    <3>1. \A k \in FilesRead : k \in FileAt /\ k # i
      BY <1>2 DEF FilesRead
    <3>2. \A k \in FilesRead : Name(Member(k)) # Name(Member(i))
      BY <1>7, <3>1 DEF WellPacked
    <3>3. QED
      BY <1>1, <3>2 DEF ReadSoFar
  <2>5. QED
    BY <2>1, <2>3, <2>4
<1>8. QED
  BY <1>3, <1>5, <1>6, <1>7 DEF Takes

\* When all is read, the files are those the bundle ships.
LEMMA AllRead ==
    ASSUME AdmTypes, ReadSoFar, pos = Len(bundle.members)
    PROVE  /\ FilesRead = FileAt /\ 1 .. pos = DOMAIN bundle.members
           /\ \A what : Files(what) = Ships(what)
<1>1. FilesRead = FileAt /\ 1 .. pos = DOMAIN bundle.members
  BY UploadFacts DEF FilesRead, FileAt
<1>2. names = {Name(Member(k)) : k \in FileAt}
  BY <1>1 DEF ReadSoFar
<1>3. ASSUME NEW what
      PROVE  Files(what) = Ships(what)
  <2>1. \A k : Name(Member(k)).what = Member(k).what /\ Name(Member(k)).of = Member(k).of
    BY DEF Name
  <2>2. ASSUME NEW x \in Files(what)
        PROVE  x \in Ships(what)
    <3>1. PICK f \in names : f.what = what /\ x = f.of
      BY DEF Files
    <3>2. PICK k \in FileAt : f = Name(Member(k))
      BY <1>2
    <3>3. QED
      BY <2>1, <3>1, <3>2 DEF Ships
  <2>3. ASSUME NEW x \in Ships(what)
        PROVE  x \in Files(what)
    <3>1. PICK k \in FileAt : Member(k).what = what /\ x = Member(k).of
      BY DEF Ships
    <3>2. Name(Member(k)) \in names
      BY <1>2
    <3>3. QED
      BY <2>1, <3>1, <3>2 DEF Files
  <2>4. QED
    BY <2>2, <2>3
<1>4. QED
  BY <1>1, <1>3

-----------------------------------------------------------------------------
(* Every step keeps the invariant *)

\* What a decision leaves as it was.
LEMMA Undisturbed ==
    ASSUME AdmTypes, ReadSoFar, UNCHANGED <<bundle, host, unpackVars, storeVars>>,
           claimed' \in Nat, at' \in Reading \cup Ended
    PROVE  AdmTypes' /\ ReadSoFar' /\ FitSoFar' = FitSoFar
<1>1. AdmTypes'
  BY DEF AdmTypes, unpackVars, storeVars
<1>2. FilesRead' = FilesRead /\ FileBytes' = FileBytes /\ StreamBytes' = StreamBytes
      /\ FileAt' = FileAt /\ \A i : Member(i)' = Member(i)
  BY Lasting DEF FilesRead, unpackVars
<1>3. ReadSoFar'
  BY <1>2 DEF ReadSoFar, unpackVars, Name
<1>4. FitSoFar' = FitSoFar
  BY <1>2 DEF FitSoFar, unpackVars, Name
<1>5. QED
  BY <1>1, <1>3, <1>4

\* A check before the store is touched, that refuses only for cause.
LEMMA Decided ==
    ASSUME AdmInv, UNCHANGED <<bundle, host, unpackVars, storeVars>>, claimed' \in Nat,
           at \notin Storing, at' \in (Reading \ Storing) \cup Ended \cup {"fetch"},
           at' = "refused" => Cause, at' = "unread" => Unfit \/ Growth # 0
    PROVE  /\ AdmTypes' /\ ReadSoFar' /\ Stored' /\ RefusedForCause'
           /\ FitSoFar' = FitSoFar /\ valid = host.valid
           /\ pos' = pos /\ bundle' = bundle /\ host' = host
           /\ WellPacked' = WellPacked /\ WellDescribed' = WellDescribed
           /\ TrueToClaims' = TrueToClaims
           /\ Needed' = Needed /\ HasRoom' = HasRoom
<1>1. /\ WellPacked' = WellPacked /\ WellDescribed' = WellDescribed
      /\ TrueToClaims' = TrueToClaims /\ Needed' = Needed /\ Coming' = Coming
      /\ HasRoom' = HasRoom
  BY Lasting
<1>2. AdmTypes' /\ ReadSoFar' /\ FitSoFar' = FitSoFar
  <2>1. at' \in Reading \cup Ended
    BY DEF Reading, Packed, Loaded, Claimed, Checked, Rooted, Storing
  <2>2. QED
    BY <2>1, Undisturbed DEF AdmInv
<1>3. valid = host.valid /\ valid' = valid /\ free' = free /\ others' = others
      /\ bundle' = bundle /\ host' = host /\ pos' = pos
  BY DEF AdmInv, Stored, storeVars, unpackVars
<1>4. Stored'
  BY <1>1, <1>3 DEF AdmInv, Stored, Storing, Reading, Packed, Loaded, Claimed, Checked, Rooted,
                    Ended
<1>5. (at' = "refused" => Cause') /\ (at' = "unread" => Unfit' \/ Growth' # 0)
  BY <1>3, CauseLasts
<1>6. RefusedForCause'
  BY <1>5, TwoCauses DEF Justified
<1>7. QED
  BY <1>1, <1>2, <1>3, <1>4, <1>6

\* cap: nothing is read yet.
LEMMA CapStep == AdmInv /\ CheckCap => AdmInv'
<1> SUFFICES ASSUME AdmInv, CheckCap PROVE AdmInv'
  OBVIOUS
<1>1. /\ at = "cap" /\ at' \in {"unpack", "refused"}
      /\ UNCHANGED <<bundle, host, unpackVars, storeVars>> /\ claimed' = claimed
      /\ at' = "unpack" => bundle.bytes <= Cap
      /\ at' = "refused" => ~ (bundle.bytes <= Cap)
  BY DEF CheckCap, Decide
<1>2. at' = "refused" => Cause
  BY <1>1, SoundIs DEF Cause, WellPacked, Unfit
<1>3. claimed' \in Nat
  BY <1>1 DEF AdmInv, AdmTypes
<1> DEFINE Kept == Stored' /\ RefusedForCause' /\ AdmTypes' /\ ReadSoFar'
<1>4. Kept /\ FitSoFar' = FitSoFar
  BY <1>1, <1>2, <1>3, Decided
     DEF AdmInv, Storing, Reading, Packed, Loaded, Claimed, Checked, Rooted, Ended
<1>5. FitSoFar \/ at' = "refused"
  <2>1. pos = 0
    BY <1>1 DEF AdmInv, Passed
  <2>2. FilesRead = {} /\ 1 .. pos = {}
    BY <2>1 DEF FilesRead
  <2>3. total = 0 /\ raw = 0
    BY <2>2, SumStep, FS_EmptySet DEF AdmInv, ReadSoFar
  <2>4. MaxMembers \in Nat /\ MaxUnpacked \in Nat /\ Slack \in Nat
    BY Limits
  <2>5. QED
    BY <1>1, <2>1, <2>2, <2>3, <2>4 DEF FitSoFar
<1>6. Passed'
  BY <1>1, <1>4, <1>5
     DEF Passed, Storing, Reading, Packed, Loaded, Claimed, Checked, Rooted
<1>7. QED
  BY <1>4, <1>6 DEF AdmInv

\* One member: the counters and what is known of the members grow by it.
LEMMA UnpackStep == AdmInv /\ Unpack => AdmInv'
<1> SUFFICES ASSUME AdmInv, Unpack PROVE AdmInv'
  OBVIOUS
<1> DEFINE i == pos + 1
           m == bundle.members[i]
<1>1. /\ at = "unpack" /\ pos < Len(bundle.members) /\ pos' = i
      /\ raw' = raw + m.head + m.bytes
      /\ m.kind = "file" => total' = total + m.bytes /\ names' = names \cup {Name(m)}
      /\ m.kind # "file" => total' = total /\ names' = names
      /\ at' \in {"unpack", "refused"}
      /\ at' = "unpack" => Takes(m)
      /\ at' = "refused" => ~ Takes(m)
      /\ bundle' = bundle /\ host' = host /\ claimed' = claimed
      /\ valid' = valid /\ free' = free /\ others' = others
  BY DEF Unpack, storeVars
<1>2. /\ AdmTypes /\ ReadSoFar /\ FitSoFar /\ Stored /\ valid = host.valid
  BY <1>1 DEF AdmInv, Passed, Stored, Storing, Reading
<1>3. /\ i \in 1 .. Len(bundle.members) /\ m = Member(i)
      /\ m.head \in Nat /\ m.bytes \in Nat
      /\ raw + m.head + m.bytes = SumOf(StreamBytes, 1 .. i)
      /\ m.kind = "file" =>
           /\ i \in FileAt /\ FileAt \cap (1 .. i) = FilesRead \cup {i}
           /\ total + m.bytes = SumOf(FileBytes, FilesRead \cup {i})
      /\ m.kind # "file" => i \notin FileAt /\ FileAt \cap (1 .. i) = FilesRead
  BY <1>1, <1>2, OneMore
<1>4. /\ FilesRead' = FileAt \cap (1 .. i)
      /\ FileBytes' = FileBytes /\ StreamBytes' = StreamBytes /\ FileAt' = FileAt
      /\ \A k : Member(k)' = Member(k)
      /\ Coming' = Coming /\ Needed' = Needed
  BY <1>1, Lasting DEF FilesRead
<1>5. AdmTypes'
  <2>1. pos \in Nat /\ Len(bundle.members) \in Nat /\ {total, raw} \subseteq Nat
    BY <1>2, UploadFacts DEF AdmTypes
  <2>2. {total', raw'} \subseteq Nat
    <3> HIDE DEF m
    <3> QED
      BY <1>1, <1>3, <2>1
  <2>3. at' \in Reading \cup Ended \cup {"cap"}
    BY <1>1 DEF Reading, Ended
  <2>4. pos' \in 0 .. Len(bundle.members)
    BY <1>1, <1>3, <2>1
  <2> HIDE DEF m, i
  <2>5. QED
    BY <1>1, <1>2, <2>2, <2>3, <2>4 DEF AdmTypes
<1>6. ReadSoFar'
  <2>1. raw' = SumOf(StreamBytes', 1 .. pos')
    BY <1>1, <1>3, <1>4
  <2>2. CASE m.kind = "file"
    <3>1. total' = SumOf(FileBytes', FilesRead')
      BY <1>1, <1>3, <1>4, <2>2
    <3>2. names' = {Name(Member(k)) : k \in FilesRead} \cup {Name(Member(i))}
      BY <1>1, <1>2, <1>3, <2>2 DEF ReadSoFar
    <3>3. FilesRead' = FilesRead \cup {i}
      BY <1>3, <1>4, <2>2
    <3> HIDE DEF i, m
    <3>4. names' = {Name(Member(k)') : k \in FilesRead'}
      BY <1>4, <3>2, <3>3
    <3>5. QED
      BY <2>1, <3>1, <3>4 DEF ReadSoFar, Name
  <2>3. CASE m.kind # "file"
    <3>1. FilesRead' = FilesRead /\ total' = total /\ names' = names
      BY <1>1, <1>3, <1>4, <2>3
    <3> HIDE DEF i, m
    <3>2. names' = {Name(Member(k)') : k \in FilesRead'}
      BY <1>2, <1>4, <3>1 DEF ReadSoFar
    <3>3. QED
      BY <1>2, <1>4, <2>1, <3>1, <3>2 DEF ReadSoFar, Name
  <2>4. QED
    BY <2>2, <2>3
<1>7. at' = "unpack" => FitSoFar'
  <2> SUFFICES ASSUME Takes(m) PROVE FitSoFar'
    BY <1>1
  <2>1. /\ pos < MaxMembers /\ raw' <= MaxUnpacked + Slack
        /\ \/ m.kind = "dir" /\ m.what \in {"top", "nar dir"}
           \/ /\ m.kind = "file" /\ m.what \in FileKinds
              /\ total' <= MaxUnpacked /\ Name(m) \notin names
    <3> HIDE DEF m
    <3> QED
      BY <1>1 DEF Takes
  <2>10. pos \in Nat /\ MaxMembers \in Nat
    BY <1>2, UploadFacts, Limits DEF AdmTypes
  <2>2. 1 .. pos' = (1 .. pos) \cup {i}
    <3> HIDE DEF m
    <3> QED
      BY <1>1, <2>10
  <2>3. \A k \in 1 .. pos' :
            \/ k \in FileAt' /\ Member(k)'.what \in FileKinds
            \/ Member(k)'.kind = "dir" /\ Member(k)'.what \in {"top", "nar dir"}
    <3>1. \/ i \in FileAt /\ Member(i).what \in FileKinds
          \/ Member(i).kind = "dir" /\ Member(i).what \in {"top", "nar dir"}
      BY <1>3, <2>1
    <3> HIDE DEF i, m
    <3>2. QED
      BY <1>2, <1>4, <2>2, <3>1 DEF FitSoFar
  <2>4. \A k, l \in FilesRead' : Name(Member(k)') = Name(Member(l)') => k = l
    <3>1. CASE m.kind = "file"
      <4>1. Name(Member(i)) \notin {Name(Member(k)) : k \in FilesRead} /\ FilesRead' = FilesRead \cup {i}
        BY <1>2, <1>3, <1>4, <2>1, <3>1 DEF ReadSoFar
      <4> HIDE DEF i, m
      <4>2. QED
        BY <1>2, <1>4, <4>1 DEF FitSoFar
    <3>2. CASE m.kind # "file"
      <4>1. FilesRead' = FilesRead
        BY <1>3, <1>4, <3>2
      <4> HIDE DEF i, m
      <4>2. QED
        BY <1>2, <1>4, <4>1 DEF FitSoFar
    <3>3. QED
      BY <3>1, <3>2
  <2>5. total' <= MaxUnpacked
    BY <1>1, <1>2, <2>1 DEF FitSoFar
  <2>6. pos' <= MaxMembers
    <3>1. pos' = pos + 1 /\ pos < MaxMembers
      BY <1>1, <2>1
    <3>2. QED
      BY <2>10, <3>1
  <2>7. bundle'.bytes <= Cap
    BY <1>1, <1>2 DEF FitSoFar
  <2>8. raw' <= MaxUnpacked + Slack
    BY <2>1
  <2> HIDE DEF i, m
  <2>9. QED
    BY <2>3, <2>4, <2>5, <2>6, <2>7, <2>8 DEF FitSoFar, Name
<1>8. RefusedForCause'
  <2>1. at' = "refused" => Cause
    BY <1>1, <1>2, SoundIsTaken, SoundIs DEF Cause, Unfit
  <2>2. at' = "refused" => Cause'
    BY <1>1, <2>1, CauseLasts
  <2>3. QED
    BY <1>1, <2>2, TwoCauses DEF Justified
<1>9. Stored'
  <2> HIDE DEF i, m
  <2> QED
    BY <1>1, <1>2, <1>4
       DEF Stored, Storing, Reading, Packed, Loaded, Claimed, Checked, Rooted
<1>10. Passed'
  BY <1>1, <1>7
     DEF Passed, Storing, Reading, Packed, Loaded, Claimed, Checked, Rooted
<1>11. QED
  BY <1>5, <1>6, <1>8, <1>9, <1>10 DEF AdmInv

\* The end of the stream: what was said of the members read is said of all.
LEMMA EndStep == AdmInv /\ CheckEnd => AdmInv'
<1> SUFFICES ASSUME AdmInv, CheckEnd PROVE AdmInv'
  OBVIOUS
<1> DEFINE ok == bundle.whole /\ Files("cache-info") # {} /\ Files("manifest") # {}
<1>1. /\ at = "unpack" /\ at' \in {"manifest", "refused"}
      /\ UNCHANGED <<bundle, host, unpackVars, storeVars>> /\ claimed' = claimed
      /\ pos = Len(bundle.members)
      /\ at' = "manifest" => ok
      /\ at' = "refused" => ~ ok
  BY DEF CheckEnd, Decide
<1>2. AdmTypes /\ ReadSoFar /\ FitSoFar /\ claimed \in Nat
  BY <1>1 DEF AdmInv, AdmTypes, Passed, Reading
<1>3. /\ FilesRead = FileAt /\ 1 .. pos = DOMAIN bundle.members
      /\ Files("cache-info") = Ships("cache-info") /\ Files("manifest") = Ships("manifest")
  BY <1>1, <1>2, AllRead
<1>4. at' = "refused" => Cause
  BY <1>1, <1>3, SoundIs DEF Cause, WellPacked, Unfit
<1>5. /\ AdmTypes' /\ ReadSoFar' /\ Stored' /\ RefusedForCause'
      /\ FitSoFar' = FitSoFar /\ WellPacked' = WellPacked
      /\ pos' = pos /\ bundle' = bundle
  BY <1>1, <1>2, <1>4, Decided
     DEF Storing, Reading, Packed, Loaded, Claimed, Checked, Rooted, Ended
<1>6. ok => WellPacked
  BY <1>1, <1>2, <1>3 DEF FitSoFar, WellPacked, ReadSoFar
<1>7. Passed'
  BY <1>1, <1>2, <1>5, <1>6
     DEF Passed, Storing, Reading, Packed, Loaded, Claimed, Checked, Rooted
<1>8. QED
  BY <1>5, <1>7 DEF AdmInv

\* The manifest and the narinfos are about the files that were unpacked.
LEMMA ManifestStep == AdmInv /\ CheckManifest => AdmInv'
<1> SUFFICES ASSUME AdmInv, CheckManifest PROVE AdmInv'
  OBVIOUS
<1> DEFINE ok == /\ ParsesManifest /\ bundle.allowed
                 /\ Cardinality(bundle.roots) <= MaxRoots
                 /\ LoadsNarinfos /\ Files("narinfo") = bundle.paths
                 /\ KeyNamesKnown
<1>1. /\ at = "manifest" /\ at' \in {"claims", "refused"}
      /\ UNCHANGED <<bundle, host, unpackVars, storeVars>> /\ claimed' = claimed
      /\ at' = "claims" => ok
      /\ at' = "refused" => ~ ok
  BY DEF CheckManifest, Decide
<1>2. /\ AdmTypes /\ ReadSoFar /\ FitSoFar /\ WellPacked /\ claimed \in Nat
      /\ pos = Len(bundle.members)
  BY <1>1 DEF AdmInv, AdmTypes, Passed, Reading, Packed
<1>3. Files("narinfo") = Ships("narinfo") /\ Files("nar") = Ships("nar")
  BY <1>2, AllRead
<1>4. ok <=> WellDescribed
  BY <1>3 DEF WellDescribed, ParsesManifest, ParsesNarinfos, LoadsNarinfos, KeyNamesKnown
<1>5. at' = "refused" => Cause
  BY <1>1, <1>4, SoundIs DEF Cause, Unfit
<1>6. /\ AdmTypes' /\ ReadSoFar' /\ Stored' /\ RefusedForCause'
      /\ FitSoFar' = FitSoFar /\ WellPacked' = WellPacked /\ WellDescribed' = WellDescribed
      /\ pos' = pos /\ bundle' = bundle
  BY <1>1, <1>2, <1>5, Decided
     DEF Storing, Reading, Packed, Loaded, Claimed, Checked, Rooted, Ended
<1>7. Passed'
  BY <1>1, <1>2, <1>4, <1>6
     DEF Passed, Storing, Reading, Packed, Loaded, Claimed, Checked, Rooted
<1>8. QED
  BY <1>6, <1>7 DEF AdmInv

\* Declared sizes are real ones once the bundle's contents were checked.
LEMMA ClaimsAreSizes ==
    ASSUME AdmTypes, TrueToClaims
    PROVE  SumOf(bundle.claim, bundle.paths \ host.valid) = Size(bundle.paths \ host.valid)
<1>1. bundle.paths \ host.valid \in SUBSET Paths
  BY UploadFacts
<1>2. IsFiniteSet(bundle.paths \ host.valid)
  BY <1>1, Limits, FS_Subset
<1>3. \A p \in bundle.paths \ host.valid : bundle.claim[p] \in Nat /\ Bytes[p] = bundle.claim[p]
  BY <1>1, UploadFacts DEF TrueToClaims, NarSizesTrue
<1>4. QED
  BY <1>2, <1>3, SumSame DEF Size

\* Nothing is declared of a bundle whose paths the host has.
LEMMA SumNothing ==
    ASSUME bundle.paths \subseteq host.valid
    PROVE  SumOf(bundle.claim, bundle.paths \ host.valid) = 0
<1>1. bundle.paths \ host.valid = {}
  OBVIOUS
<1>2. QED
  BY <1>1, SumStep, FS_EmptySet

\* The sum the guard first asks about is a number.
LEMMA ClaimsTyped ==
    ASSUME AdmTypes
    PROVE  SumOf(bundle.claim, bundle.paths \ host.valid) \in Nat
<1>1. bundle.paths \ host.valid \in SUBSET Paths /\ \A p \in Paths : bundle.claim[p] \in Nat
  BY UploadFacts
<1>2. QED
  BY <1>1, Limits, SumAdds

\* A guard that says no, of no more than may come, has cause.
LEMMA GuardRefuses ==
    ASSUME AdmTypes, valid = host.valid, NEW n \in Nat, ~ Guard(n), n <= Growth + Margin,
           Growth = 0 => n = 0
    PROVE  Cause
<1>1. Growth \in Nat /\ Margin \in Nat /\ Size(host.core) \in Nat
  BY Beforehand, HostFacts, Sizes
<1>2. free \in Int /\ host.budget \in Int /\ Floor \in Nat
  BY HostFacts, Limits DEF AdmTypes
<1>3. n # 0 /\ ~ (valid # {} /\ Size(host.core) + n <= host.budget /\ free - n >= Floor)
  BY DEF Guard, GuardAnything, InBudget
<1>4. Growth # 0
  BY <1>3
<1>5. \/ host.valid = {}
      \/ Size(host.core) + Growth + Margin > host.budget
      \/ free - Growth - Margin < Floor
  BY <1>1, <1>2, <1>3
<1>6. QED
  BY <1>4, <1>5 DEF Cause

\* First guard: declared sizes of the new paths.
LEMMA ClaimsStep == AdmInv /\ CheckClaims => AdmInv'
<1> SUFFICES ASSUME AdmInv, CheckClaims PROVE AdmInv'
  OBVIOUS
<1> DEFINE n == SumOf(bundle.claim, bundle.paths \ host.valid)
<1>1. /\ at = "claims" /\ at' \in {"contents", "refused"}
      /\ UNCHANGED <<bundle, host, unpackVars, storeVars>> /\ claimed' = ClaimedNew
      /\ at' = "refused" => ~ Guard(ClaimedNew)
  BY DEF CheckClaims, Decide
<1>2. /\ AdmTypes /\ ReadSoFar /\ FitSoFar /\ WellPacked /\ WellDescribed
      /\ pos = Len(bundle.members) /\ valid = host.valid
  BY <1>1 DEF AdmInv, Stored, Storing, Passed, Reading, Packed, Loaded
<1>3. ClaimedNew = n /\ n \in Nat
  BY <1>2, ClaimsTyped DEF ClaimedNew
<1>4. ASSUME at' = "refused"
      PROVE  Cause
  <2>1. CASE Sound
    <3>1. n = Size(bundle.paths \ host.valid)
      BY <1>2, <2>1, SoundIs, ClaimsAreSizes
    <3>2. n <= Growth /\ Growth \in Nat /\ Margin \in Nat
      BY <1>2, <3>1, Beforehand
    <3> HIDE DEF n
    <3>3. n <= Growth + Margin /\ (Growth = 0 => n = 0)
      BY <1>3, <3>2
    <3>4. QED
      BY <1>1, <1>2, <1>3, <1>4, <3>3, GuardRefuses
  <2>2. QED
    BY <2>1 DEF Cause, Unfit
<1>5. /\ AdmTypes' /\ ReadSoFar' /\ Stored' /\ RefusedForCause'
      /\ FitSoFar' = FitSoFar /\ WellPacked' = WellPacked /\ WellDescribed' = WellDescribed
      /\ pos' = pos /\ bundle' = bundle /\ host' = host
  BY <1>1, <1>2, <1>3, <1>4, Decided
     DEF Storing, Reading, Packed, Loaded, Claimed, Checked, Rooted, Ended
<1>6. Passed'
  BY <1>1, <1>2, <1>3, <1>5
     DEF Passed, Storing, Reading, Packed, Loaded, Claimed, Checked, Rooted
<1>7. QED
  BY <1>5, <1>6 DEF AdmInv

\* From here on declared sizes are real.
LEMMA ContentsStep == AdmInv /\ CheckContents => AdmInv'
<1> SUFFICES ASSUME AdmInv, CheckContents PROVE AdmInv'
  OBVIOUS
<1>1. /\ at = "contents" /\ at' \in {"roots", "refused"}
      /\ UNCHANGED <<bundle, host, unpackVars, storeVars>> /\ claimed' = claimed
      /\ at' = "roots" => TrueToClaims
      /\ at' = "refused" => ~ TrueToClaims
  BY DEF CheckContents, Decide, TrueToClaims
<1>2. /\ AdmTypes /\ ReadSoFar /\ FitSoFar /\ WellPacked /\ WellDescribed /\ claimed \in Nat
      /\ pos = Len(bundle.members)
      /\ claimed = SumOf(bundle.claim, bundle.paths \ host.valid)
  BY <1>1 DEF AdmInv, AdmTypes, Passed, Reading, Packed, Loaded, Claimed
<1>3. at' = "refused" => Cause
  BY <1>1, SoundIs DEF Cause, Unfit
<1>4. /\ AdmTypes' /\ ReadSoFar' /\ Stored' /\ RefusedForCause'
      /\ FitSoFar' = FitSoFar /\ WellPacked' = WellPacked /\ WellDescribed' = WellDescribed
      /\ TrueToClaims' = TrueToClaims /\ pos' = pos /\ bundle' = bundle /\ host' = host
  BY <1>1, <1>2, <1>3, Decided
     DEF Storing, Reading, Packed, Loaded, Claimed, Checked, Rooted, Ended
<1>5. Passed'
  BY <1>1, <1>2, <1>4
     DEF Passed, Storing, Reading, Packed, Loaded, Claimed, Checked, Rooted
<1>6. QED
  BY <1>4, <1>5 DEF AdmInv

\* Roots are shipped or on the host.
LEMMA RootsStep == AdmInv /\ CheckRoots => AdmInv'
<1> SUFFICES ASSUME AdmInv, CheckRoots PROVE AdmInv'
  OBVIOUS
<1>1. /\ at = "roots" /\ at' \in {"growth", "refused"}
      /\ UNCHANGED <<bundle, host, unpackVars, storeVars>> /\ claimed' = claimed
      /\ at' = "growth" => RootsThere
      /\ at' = "refused" => ~ RootsThere
  BY DEF CheckRoots, Decide
<1>2. /\ AdmTypes /\ ReadSoFar /\ FitSoFar /\ WellPacked /\ WellDescribed /\ TrueToClaims
      /\ claimed \in Nat /\ pos = Len(bundle.members) /\ valid = host.valid
      /\ claimed = SumOf(bundle.claim, bundle.paths \ host.valid)
  BY <1>1 DEF AdmInv, AdmTypes, Stored, Storing, Passed, Reading, Packed, Loaded,
              Claimed, Checked
<1>3. at' = "refused" => Cause
  BY <1>1, <1>2 DEF Cause, RootsThere, Unfit
<1>4. /\ AdmTypes' /\ ReadSoFar' /\ Stored' /\ RefusedForCause'
      /\ FitSoFar' = FitSoFar /\ WellPacked' = WellPacked /\ WellDescribed' = WellDescribed
      /\ TrueToClaims' = TrueToClaims /\ pos' = pos /\ bundle' = bundle /\ host' = host
  BY <1>1, <1>2, <1>3, Decided
     DEF Storing, Reading, Packed, Loaded, Claimed, Checked, Rooted, Ended
<1>5. Passed'
  BY <1>1, <1>2, <1>4
     DEF RootsThere, Passed, Storing, Reading, Packed, Loaded, Claimed, Checked, Rooted
<1>6. QED
  BY <1>4, <1>5 DEF AdmInv

\* A guard that says yes, of no less than may come, makes room for it.
LEMMA GuardMakesRoom ==
    ASSUME AdmTypes, Stored, valid = host.valid, NEW n \in Nat, Guard(n),
           Size(Coming \ host.valid) <= n
    PROVE  HasRoom
<1> DEFINE g == Size(Coming \ host.valid)
<1>1. Coming \ host.valid \in SUBSET Paths
  BY NeededFacts
<1>2. g \in Nat /\ Size(host.core) \in Nat
  BY <1>1, HostFacts, Sizes
<1>3. CASE n = 0
  <2>1. g = 0
    BY <1>2, <1>3
  <2>2. QED
    BY <1>1, <2>1, Sizes DEF HasRoom
<1>4. CASE n # 0
  <2>1. host.valid # {} /\ Size(host.core) + n <= host.budget /\ free - n >= Floor
    BY <1>4 DEF Guard, GuardAnything, InBudget
  <2>2. host.budget \in Int /\ host.free \in Int /\ free \in Int /\ Floor \in Nat /\ others \in Nat
    BY HostFacts, Limits DEF AdmTypes
  <2>3. free + others = host.free
    <3>1. valid \ host.valid = {}
      OBVIOUS
    <3>2. free + others + 0 = host.free
      BY <3>1, Sizes DEF Stored
    <3>3. QED
      BY <2>2, <3>2
  <2> HIDE DEF g
  <2>4. g <= n
    BY DEF g
  <2>5. Size(host.core) + g <= host.budget /\ Floor + g <= host.free
    BY <1>2, <2>1, <2>2, <2>3, <2>4
  <2>6. QED
    BY <2>1, <2>5 DEF HasRoom, g
<1>5. QED
  BY <1>3, <1>4

\* References that upstream does not serve are none the bundle may rely on.
LEMMA NotServed ==
    ASSUME AdmTypes, ~ (Closure(Needed) \subseteq host.valid \cup Upstream)
    PROVE  Cause
<1> SUFFICES ASSUME Closure(bundle.paths) \subseteq bundle.paths \cup host.valid \cup Upstream
             PROVE  FALSE
  BY DEF Cause, Unfit
<1>1. Needed \subseteq Closure(bundle.paths) /\ Needed \cap bundle.paths = {}
      /\ Needed \cap host.valid = {}
  BY NeededFacts DEF Needed
<1>2. Needed \subseteq Upstream
  BY <1>1
<1>3. Closure(Needed) \subseteq Upstream
  BY <1>2, UpstreamAssumption, ClosureIsLeast
<1>4. QED
  BY <1>3

\* Second guard: what comes from upstream is estimated and added.
LEMMA GrowthStep == AdmInv /\ CheckGrowth => AdmInv'
<1> SUFFICES ASSUME AdmInv, CheckGrowth PROVE AdmInv'
  OBVIOUS
<1>1. PICK P \in Pieces(Missing) :
        Decide("growth",
            /\ Closure(Missing) \subseteq valid \cup Upstream
            /\ Guard(claimed + Estimate(P)), "fetch")
  BY DEF CheckGrowth
<1> DEFINE n == claimed + Estimate(P)
           ok == Closure(Missing) \subseteq valid \cup Upstream /\ Guard(n)
<1>2. /\ at = "growth" /\ at' \in {"fetch", "refused"} /\ claimed' = claimed
      /\ UNCHANGED <<bundle, host, unpackVars, storeVars>>
      /\ at' = "fetch" => ok
      /\ at' = "refused" => ~ ok
  BY <1>1 DEF CheckGrowth, Decide
<1>3. /\ AdmTypes /\ ReadSoFar /\ FitSoFar /\ WellPacked /\ WellDescribed /\ TrueToClaims
      /\ claimed \in Nat /\ pos = Len(bundle.members) /\ Stored /\ valid = host.valid
      /\ claimed = SumOf(bundle.claim, bundle.paths \ host.valid)
      /\ bundle.roots \subseteq bundle.paths \cup host.valid
  BY <1>2 DEF AdmInv, AdmTypes, Stored, Storing, Passed, Reading, Packed, Loaded,
              Claimed, Checked, Rooted
<1>4. Missing = Needed /\ Growth = Size(Coming \ host.valid) /\ Growth \in Nat
      /\ (Growth = 0 => Coming \subseteq host.valid)
      /\ Size(bundle.paths \ host.valid) <= Growth /\ Margin \in Nat
  BY <1>3, Beforehand
<1>5. claimed = Size(bundle.paths \ host.valid)
  BY <1>3, ClaimsAreSizes
<1>6. /\ Estimate(P) \in Nat
      /\ Size(Closure(Needed) \ host.valid) <= Estimate(P)
      /\ Estimate(P) <= Margin
      /\ Needed = {} => Estimate(P) = 0
  BY <1>3, <1>4, EstimateBounds
<1>7. n \in Nat
  BY <1>3, <1>6
<1>8. Size(Coming \ host.valid) <= n
  <2>1. /\ bundle.paths \ host.valid \in SUBSET Paths
        /\ Closure(Needed) \ host.valid \in SUBSET Paths
        /\ Coming \ host.valid =
              (bundle.paths \ host.valid) \cup (Closure(Needed) \ host.valid)
    BY <1>3, UploadFacts, NeededFacts DEF Coming
  <2>2. Size(Coming \ host.valid) <=
            Size(bundle.paths \ host.valid) + Size(Closure(Needed) \ host.valid)
    BY <2>1, Sizes
  <2>3. Size(Closure(Needed) \ host.valid) \in Nat
    BY <2>1, Sizes
  <2>4. QED
    BY <1>3, <1>4, <1>5, <1>6, <2>2, <2>3
<1>9. ASSUME at' = "refused"
      PROVE  Cause
  <2>1. CASE ~ (Closure(Needed) \subseteq host.valid \cup Upstream)
    BY <1>3, <2>1, NotServed
  <2>2. CASE ~ Guard(n)
    <3>1. n <= Growth + Margin
      BY <1>3, <1>4, <1>5, <1>6
    <3>2. Growth = 0 => n = 0
      <4> SUFFICES ASSUME Growth = 0 PROVE n = 0
        OBVIOUS
      <4>1. Needed = {}
        BY <1>3, <1>4, NeededFacts DEF Coming
      <4>2. claimed = 0
        BY <1>3, <1>4, <1>5
      <4>3. QED
        BY <1>6, <4>1, <4>2
    <3> HIDE DEF n
    <3>3. QED
      BY <1>3, <1>7, <2>2, <3>1, <3>2, GuardRefuses
  <2>3. QED
    BY <1>2, <1>3, <1>4, <1>9, <2>1, <2>2
<1>10. at' = "fetch" => HasRoom /\ Closure(Needed) \subseteq host.valid \cup Upstream
  <2> SUFFICES ASSUME ok PROVE HasRoom /\ Closure(Needed) \subseteq host.valid \cup Upstream
    BY <1>2
  <2> HIDE DEF n
  <2>1. HasRoom
    BY <1>3, <1>7, <1>8, GuardMakesRoom
  <2>2. QED
    BY <1>3, <1>4, <2>1
<1>11. /\ AdmTypes' /\ ReadSoFar' /\ Stored' /\ RefusedForCause'
       /\ FitSoFar' = FitSoFar /\ WellPacked' = WellPacked /\ WellDescribed' = WellDescribed
       /\ TrueToClaims' = TrueToClaims /\ pos' = pos /\ bundle' = bundle /\ host' = host
       /\ Needed' = Needed /\ HasRoom' = HasRoom
  BY <1>2, <1>3, <1>9, Decided
     DEF Storing, Reading, Packed, Loaded, Claimed, Checked, Rooted, Ended
<1>12. Passed'
  <2> HIDE DEF ok
  <2> QED
    BY <1>2, <1>3, <1>10, <1>11
       DEF Passed, Storing, Reading, Packed, Loaded, Claimed, Checked, Rooted
<1>13. QED
  BY <1>11, <1>12 DEF AdmInv

-----------------------------------------------------------------------------
(* The store grows *)

\* What a step that only stores leaves as it was.
LEMMA StillPassed ==
    ASSUME AdmInv, UNCHANGED <<bundle, host, unpackVars, claimed>>,
           at \in Storing \/ at' = at, at \in Storing => at' \in Storing
    PROVE  ReadSoFar' /\ Passed'
<1>1. /\ WellPacked' = WellPacked /\ WellDescribed' = WellDescribed
      /\ TrueToClaims' = TrueToClaims /\ Needed' = Needed /\ HasRoom' = HasRoom
      /\ FileAt' = FileAt /\ FileBytes' = FileBytes /\ StreamBytes' = StreamBytes
      /\ \A i : Member(i)' = Member(i)
  BY Lasting
<1>2. FilesRead' = FilesRead
  BY <1>1 DEF FilesRead, unpackVars
<1>3. ReadSoFar'
  BY <1>1, <1>2 DEF AdmInv, ReadSoFar, unpackVars, Name
<1>4. FitSoFar' = FitSoFar
  BY <1>1, <1>2 DEF FitSoFar, unpackVars, Name
<1>5. pos' = pos /\ bundle' = bundle /\ host' = host /\ claimed' = claimed
  BY DEF unpackVars
<1>9. /\ (FitSoFar => FitSoFar') /\ (WellPacked => WellPacked')
      /\ (WellDescribed => WellDescribed') /\ (TrueToClaims => TrueToClaims')
      /\ (HasRoom => HasRoom') /\ Needed' = Needed
  BY <1>1, <1>4
<1>6. CASE at' = at
  <2>1. Passed
    BY DEF AdmInv
  <2>2. QED
    BY <1>3, <1>5, <1>6, <1>9, <2>1
       DEF Passed, Storing, Reading, Packed, Loaded, Claimed, Checked, Rooted
<1>7. CASE at \in Storing
  <2>1. /\ FitSoFar /\ pos = Len(bundle.members) /\ WellPacked /\ WellDescribed
        /\ claimed = SumOf(bundle.claim, bundle.paths \ host.valid) /\ TrueToClaims
        /\ bundle.roots \subseteq bundle.paths \cup host.valid
        /\ Closure(Needed) \subseteq host.valid \cup Upstream /\ HasRoom
    BY <1>7 DEF AdmInv, Passed, Storing, Reading, Packed, Loaded, Claimed, Checked, Rooted
  <2>2. at' # "cap"
    BY <1>7 DEF Storing
  <2>3. QED
    BY <1>3, <1>5, <1>9, <2>1, <2>2
       DEF Passed, Storing, Reading, Packed, Loaded, Claimed, Checked, Rooted
<1>8. QED
  BY <1>3, <1>6, <1>7

\* What is taken in is taken from the space left, byte by byte.
LEMMA SpaceTaken ==
    ASSUME AdmTypes, Stored, NEW S \in SUBSET Paths, S \subseteq host.valid \cup Coming, Takein(S)
    PROVE  /\ valid' \in SUBSET Paths /\ free' \in Int
           /\ host.valid \subseteq valid' /\ valid' \subseteq host.valid \cup Coming
           /\ free' + others + Size(valid' \ host.valid) = host.free
<1>1. valid' = valid \cup S /\ free' = free - Size(S \ valid)
  BY DEF Takein
<1>2. /\ valid \in SUBSET Paths /\ free \in Int /\ others \in Nat /\ host.free \in Int
      /\ host.valid \subseteq valid
  BY HostFacts DEF AdmTypes, Stored
<1>3. /\ S \ valid \in SUBSET Paths /\ valid \ host.valid \in SUBSET Paths
      /\ (valid \ host.valid) \cap (S \ valid) = {}
      /\ valid' \ host.valid = (valid \ host.valid) \cup (S \ valid)
  BY <1>1, <1>2
<1>4. Size(valid' \ host.valid) = Size(valid \ host.valid) + Size(S \ valid)
  BY <1>3, Sizes
<1>5. Size(valid \ host.valid) \in Nat /\ Size(S \ valid) \in Nat
  BY <1>3, Sizes
<1>6. free + others + Size(valid \ host.valid) = host.free
  BY DEF Stored
<1>7. free' \in Int /\ free' + others + Size(valid' \ host.valid) = host.free
  BY <1>1, <1>2, <1>4, <1>5, <1>6
<1>8. QED
  BY <1>1, <1>2, <1>7 DEF Stored

\* fetch and copy, that take in S and go on, or break off with a part of it.
LEMMA WriteStep ==
    ASSUME AdmInv, NEW here, NEW S \in SUBSET Paths, NEW there, Write(here, S, there),
           \/ here = "fetch" /\ S = Closure(Needed) /\ there = "copy"
           \/ here = "copy" /\ S = bundle.paths /\ there = "still"
    PROVE  AdmInv'
<1>1. PICK T \in SUBSET S :
        /\ Takein(T) /\ at = here
        /\ (T = S /\ at' = there) \/ at' = "broken"
  <2>1. at = here
    BY DEF Write
  <2>2. CASE Takein(S) /\ at' = there
    BY <2>1, <2>2
  <2>3. CASE \E T \in SUBSET S :
            /\ ~ (S \subseteq valid)
            /\ Closed(valid \cup T)
            /\ Takein(T) /\ at' = "broken"
    BY <2>1, <2>3
  <2>4. QED
    BY <2>2, <2>3 DEF Write
<1>2. /\ UNCHANGED <<bundle, host, unpackVars, claimed>> /\ others' = others
      /\ valid' = valid \cup T
  BY <1>1 DEF Takein
<1>3. at \in Storing /\ at' \in Storing /\ at' \in Reading
  BY <1>1 DEF Reading, Packed, Loaded, Claimed, Checked, Rooted, Storing
<1>4. AdmTypes /\ Stored /\ T \in SUBSET Paths /\ T \subseteq host.valid \cup Coming
  BY <1>1 DEF AdmInv, Coming
<1>5. /\ valid' \in SUBSET Paths /\ free' \in Int
      /\ host.valid \subseteq valid' /\ valid' \subseteq host.valid \cup Coming
      /\ free' + others + Size(valid' \ host.valid) = host.free
  BY <1>1, <1>4, SpaceTaken
<1>6. ReadSoFar' /\ Passed'
  BY <1>2, <1>3, StillPassed
<1>7. AdmTypes'
  BY <1>2, <1>3, <1>4, <1>5 DEF AdmTypes, unpackVars
<1>8. Needed' = Needed /\ Coming' = Coming /\ host' = host /\ bundle' = bundle
  BY <1>2, Lasting
<1>9. at' = "copy" => Closure(Needed) \subseteq valid'
  BY <1>1, <1>2
<1>10. at' \in {"still", "pinned"} => bundle.paths \subseteq valid'
  BY <1>1, <1>2
<1>11. at' \in Storing \ {"fetch"}
  BY <1>1 DEF Storing
<1>12. Stored'
  BY <1>2, <1>5, <1>8, <1>9, <1>10, <1>11 DEF Stored, Storing
<1>13. RefusedForCause'
  BY <1>11 DEF RefusedForCause, Storing
<1>14. QED
  BY <1>6, <1>7, <1>12, <1>13 DEF AdmInv

\* realise: the first bytes that arrive.
LEMMA FetchStep == AdmInv /\ Fetch => AdmInv'
<1> SUFFICES ASSUME AdmInv, Fetch PROVE AdmInv'
  OBVIOUS
<1>1. at = "fetch" /\ AdmTypes
  BY DEF Fetch, Write, AdmInv
<1>2. valid = host.valid
  BY <1>1 DEF AdmInv, Stored
<1>3. Missing = Needed /\ Closure(Needed) \in SUBSET Paths
  BY <1>1, <1>2, Beforehand, NeededFacts
<1>4. Write("fetch", Closure(Needed), "copy")
  BY <1>3 DEF Fetch
<1>5. QED
  BY <1>3, <1>4, WriteStep

\* nix copy: the bundle's own paths.
LEMMA CopyStep == AdmInv /\ Copy => AdmInv'
<1> SUFFICES ASSUME AdmInv, Copy PROVE AdmInv'
  OBVIOUS
<1>1. bundle.paths \in SUBSET Paths /\ Write("copy", bundle.paths, "still")
  BY UploadFacts DEF AdmInv, Copy
<1>2. QED
  BY <1>1, WriteStep

\* Nothing can have gone missing under the lock: this check never refuses.
LEMMA StillStep == AdmInv /\ CheckStill => AdmInv'
<1> SUFFICES ASSUME AdmInv, CheckStill PROVE AdmInv'
  OBVIOUS
<1>1. /\ at = "still" /\ claimed' = claimed
      /\ UNCHANGED <<bundle, host, unpackVars, storeVars>>
      /\ at' = IF bundle.roots \subseteq valid THEN "pinned" ELSE "refused"
  BY DEF CheckStill, Decide
<1>2. bundle.roots \subseteq valid
  BY <1>1 DEF AdmInv, Passed, Stored, Rooted, Storing
<1>3. at' = "pinned"
  BY <1>1, <1>2
<1>4. ReadSoFar' /\ Passed'
  BY <1>1, <1>3, StillPassed DEF Storing
<1>5. AdmTypes'
  BY <1>1, <1>3 DEF AdmInv, AdmTypes, unpackVars, storeVars, Storing, Reading, Packed,
                    Loaded, Claimed, Checked, Rooted
<1>6. Stored'
  <2>1. Coming' = Coming /\ Needed' = Needed
    BY <1>1, Lasting
  <2>2. QED
    BY <1>1, <1>3, <2>1 DEF AdmInv, Stored, storeVars, Storing
<1>7. RefusedForCause'
  BY <1>3 DEF RefusedForCause
<1>8. QED
  BY <1>4, <1>5, <1>6, <1>7 DEF AdmInv

\* The guard asks for free space only when bytes would come.
LEMMA UnreadStep == AdmInv /\ SpaceUnread => AdmInv'
<1> SUFFICES ASSUME AdmInv, SpaceUnread PROVE AdmInv'
  OBVIOUS
<1>1. /\ at \in {"claims", "growth"} /\ at' = "unread" /\ claimed' = claimed
      /\ UNCHANGED <<bundle, host, unpackVars, storeVars>>
  BY DEF SpaceUnread
<1>2. /\ AdmTypes /\ ReadSoFar /\ claimed \in Nat /\ valid = host.valid
      /\ WellPacked /\ WellDescribed
  BY <1>1 DEF AdmInv, AdmTypes, Stored, Storing, Passed, Reading, Packed, Loaded,
              Claimed, Checked, Rooted
<1>3. Missing = Needed /\ Growth = Size(Coming \ host.valid)
      /\ (Growth = 0 => Coming \subseteq host.valid)
  BY <1>2, Beforehand
<1>4. SUFFICES Unfit \/ Growth # 0
  <2>1. AdmTypes' /\ ReadSoFar' /\ Stored' /\ RefusedForCause'
    BY <1>1, <1>2, <1>4, Decided
       DEF Storing, Reading, Packed, Loaded, Claimed, Checked, Rooted, Ended
  <2>2. Passed'
    BY <1>1 DEF Passed, Storing, Reading, Packed, Loaded, Claimed, Checked, Rooted
  <2>3. QED
    BY <2>1, <2>2 DEF AdmInv
<1>5. SUFFICES ASSUME Sound, Coming \subseteq host.valid PROVE FALSE
  BY <1>3 DEF Unfit
<1>6. bundle.paths \subseteq host.valid /\ Needed = {}
  BY <1>2, <1>5, NeededFacts DEF Coming
<1>7. CASE at = "claims"
  <2>1. ClaimedNew # 0
    BY <1>1, <1>7 DEF SpaceUnread, Blind
  <2>2. ClaimedNew = 0
    BY <1>2, <1>6, SumNothing DEF ClaimedNew
  <2>3. QED
    BY <2>1, <2>2
<1>8. CASE at = "growth"
  <2>1. PICK P \in Pieces(Missing) : claimed + Estimate(P) # 0
    BY <1>8 DEF SpaceUnread, Blind
  <2>2. claimed = 0
    BY <1>6, <1>8, SumNothing DEF AdmInv, Passed, Claimed, Checked, Rooted
  <2>3. Estimate(P) = 0
    BY <1>2, <1>3, <1>6, EstimateBounds
  <2>4. QED
    BY <2>1, <2>2, <2>3
<1>9. QED
  BY <1>1, <1>7, <1>8

\* A call that fails leaves everything as it was.
LEMMA FailsStep == AdmInv /\ Fails => AdmInv'
<1> SUFFICES ASSUME AdmInv, Fails PROVE AdmInv'
  OBVIOUS
<1>1. UNCHANGED <<bundle, host, unpackVars, claimed, storeVars>>
  BY DEF Fails
<1>2. CASE at = "still" /\ at' = "broken"
  <2>1. ReadSoFar' /\ Passed'
    BY <1>1, <1>2, StillPassed DEF Storing
  <2>2. AdmTypes'
    BY <1>1, <1>2 DEF AdmInv, AdmTypes, unpackVars, storeVars, Storing, Reading, Packed,
                      Loaded, Claimed, Checked, Rooted
  <2>3. Coming' = Coming /\ Needed' = Needed
    BY <1>1, Lasting
  <2>4. Stored'
    BY <1>1, <1>2, <2>3 DEF AdmInv, Stored, storeVars, Storing
  <2>5. RefusedForCause'
    BY <1>2 DEF RefusedForCause
  <2>6. QED
    BY <2>1, <2>2, <2>4, <2>5 DEF AdmInv
<1>3. CASE at \notin Storing /\ at' = "failed"
  <2>1. claimed' \in Nat
    BY <1>1 DEF AdmInv, AdmTypes
  <2>2. AdmTypes' /\ ReadSoFar' /\ Stored' /\ RefusedForCause'
    BY <1>1, <1>3, <2>1, Decided
       DEF Storing, Reading, Packed, Loaded, Claimed, Checked, Rooted, Ended
  <2>3. Passed'
    BY <1>3 DEF Passed, Storing, Reading, Packed, Loaded, Claimed, Checked, Rooted
  <2>4. QED
    BY <2>2, <2>3 DEF AdmInv
<1>4. QED
  BY <1>2, <1>3 DEF Fails, Storing

\* Other writers only make space scarcer.
LEMMA OthersStep == AdmInv /\ OtherWrites => AdmInv'
<1> SUFFICES ASSUME AdmInv, OtherWrites PROVE AdmInv'
  OBVIOUS
<1>1. /\ others' = others + 1 /\ free' = free - 1
      /\ UNCHANGED <<bundle, host, at, unpackVars, claimed, valid>>
  BY DEF OtherWrites
<1>2. others \in Nat /\ free \in Int /\ AdmTypes /\ host.free \in Int
  BY HostFacts DEF AdmInv, AdmTypes
<1>3. AdmTypes'
  BY <1>1, <1>2 DEF AdmTypes, unpackVars
<1>4. ReadSoFar' /\ Passed'
  BY <1>1, StillPassed
<1>5. Stored'
  <2>1. Coming' = Coming /\ Needed' = Needed
    BY <1>1, Lasting
  <2>2. Size(valid \ host.valid) \in Nat
    BY <1>2, Sizes DEF AdmTypes
  <2>3. free' + others' + Size(valid \ host.valid) = host.free
    BY <1>1, <1>2, <2>2 DEF AdmInv, Stored
  <2>4. QED
    BY <1>1, <2>1, <2>3 DEF AdmInv, Stored
<1>6. RefusedForCause'
  <2> SUFFICES ASSUME at' \in {"refused", "unread"} PROVE Justified'
    BY TwoCauses DEF Justified
  <2>1. at' = at /\ valid = host.valid
    BY <1>1 DEF AdmInv, Stored, Storing
  <2>2. Justified
    BY TwoCauses DEF AdmInv
  <2>3. Missing' = Missing
    BY <1>1 DEF Missing
  <2>4. Growth' = Growth /\ Margin' = Margin
    BY <1>1, <2>3 DEF Growth, Margin
  <2>5. Sound' = Sound
    BY <1>1, Lasting
  <2>6. Growth \in Nat /\ Margin \in Nat /\ Floor \in Nat
    BY <1>2, <2>1, Beforehand, Limits
  <2>7. free - Growth - Margin < Floor => free' - Growth - Margin < Floor
    BY <1>1, <1>2, <2>6
  <2>8. QED
    BY <1>1, <2>1, <2>2, <2>4, <2>5, <2>7 DEF Justified, Cause, Unfit
<1>7. QED
  BY <1>3, <1>4, <1>5, <1>6 DEF AdmInv

\* Before the first check.
LEMMA StartsWell == AdmInit => AdmInv
<1> SUFFICES ASSUME AdmInit PROVE AdmInv
  OBVIOUS
<1>1. /\ at = "cap" /\ pos = 0 /\ total = 0 /\ raw = 0 /\ names = {} /\ claimed = 0
      /\ valid = host.valid /\ free = host.free /\ others = 0
      /\ bundle \in Uploads /\ host \in Hosts
  BY DEF AdmInit
<1>2. AdmTypes
  <2>1. Len(bundle.members) \in Nat /\ host.free \in Int /\ host.valid \in SUBSET Paths
    BY <1>1, UploadsAssumption, HostsAssumption DEF ClosedSets
  <2>2. QED
    BY <1>1, <2>1 DEF AdmTypes
<1>3. ReadSoFar
  <2>1. FilesRead = {} /\ 1 .. pos = {}
    BY <1>1 DEF FilesRead
  <2>2. QED
    BY <1>1, <2>1, SumStep, FS_EmptySet DEF ReadSoFar
<1>4. Passed
  BY <1>1 DEF Passed, Storing, Reading, Packed, Loaded, Claimed, Checked, Rooted
<1>5. Stored
  <2>1. valid \ host.valid = {} /\ Size({}) = 0 /\ host.free \in Int
    BY <1>1, <1>2, Sizes, HostFacts
  <2>2. free + others + Size(valid \ host.valid) = host.free
    BY <1>1, <2>1
  <2>3. QED
    BY <1>1, <2>2 DEF Stored, Storing
<1>6. RefusedForCause
  BY <1>1 DEF RefusedForCause
<1>7. QED
  BY <1>2, <1>3, <1>4, <1>5, <1>6 DEF AdmInv

\* The checks, one after the other, add up.
THEOREM ChecksAddUp == AdmSpec => []AdmInv
<1>1. AdmInv /\ [AdmNext]_admVars => AdmInv'
  <2> SUFFICES ASSUME AdmInv, [AdmNext]_admVars PROVE AdmInv'
    OBVIOUS
  <2>1. CASE AdmNext
    BY <2>1, CapStep, UnpackStep, EndStep, ManifestStep, ClaimsStep, ContentsStep, RootsStep,
       GrowthStep, FetchStep, CopyStep, StillStep, UnreadStep, FailsStep, OthersStep DEF AdmNext
  <2>2. CASE UNCHANGED admVars
    <3>1. UNCHANGED <<bundle, host, at, unpackVars, claimed, valid, free, others>>
      BY <2>2 DEF admVars, storeVars
    <3>2. ReadSoFar' /\ Passed'
      BY <3>1, StillPassed
    <3>3. AdmTypes'
      BY <3>1 DEF AdmInv, AdmTypes, unpackVars
    <3>4. Coming' = Coming /\ Needed' = Needed
      BY <3>1, Lasting
    <3>5. Stored'
      BY <3>1, <3>4 DEF AdmInv, Stored
    <3>6. (Cause => Cause') /\ Growth' = Growth /\ Unfit' = Unfit
      BY <3>1, CauseLasts
    <3>7. RefusedForCause'
      BY <3>1, <3>6, TwoCauses DEF AdmInv, Justified
    <3>8. QED
      BY <3>2, <3>3, <3>5, <3>7 DEF AdmInv
  <2>3. QED
    BY <2>1, <2>2
<1>2. QED
  BY <1>1, StartsWell, PTL DEF AdmSpec

-----------------------------------------------------------------------------
(* What follows *)

\* Nothing but a sound bundle gets as far as the store.
THEOREM OnlySoundAdmitted == AdmSpec => []AdmitsOnlySound
<1>1. AdmInv => AdmitsOnlySound
  <2> SUFFICES ASSUME AdmInv, valid # host.valid \/ at \in {"fetch", "copy", "still", "pinned"}
               PROVE  Sound
    BY DEF AdmitsOnlySound
  <2>1. at \in Storing
    BY DEF AdmInv, Stored, Storing
  <2>2. WellPacked /\ WellDescribed /\ TrueToClaims
    BY <2>1 DEF AdmInv, Passed, Packed, Loaded, Claimed, Checked, Rooted
  <2>3. QED
    BY <2>2, SoundIs
<1>2. QED
  BY <1>1, ChecksAddUp, PTL

\* Roots are never substituted, and what is comes from upstream for the bundle.
THEOREM RootsAreTrusted == AdmSpec => []RootsTrusted
<1>1. AdmInv => RootsTrusted
  <2> SUFFICES ASSUME AdmInv PROVE RootsTrusted
    OBVIOUS
  <2>1. at = "pinned" => bundle.roots \subseteq bundle.paths \cup host.valid
    BY DEF AdmInv, Passed, Rooted, Storing
  <2>2. ASSUME NEW p \in valid \ host.valid
        PROVE  p \in bundle.paths \cup (Closure(bundle.paths) \cap Upstream)
    <3>1. at \in Storing
      BY DEF AdmInv, Stored
    <3>2. Closure(Needed) \subseteq host.valid \cup Upstream
      BY <3>1 DEF AdmInv, Passed
    <3>3. p \in bundle.paths \cup Closure(Needed)
      BY DEF AdmInv, Stored, Coming
    <3>4. Closure(Needed) \subseteq Closure(bundle.paths)
      BY NeededFacts DEF AdmInv
    <3>5. QED
      BY <3>2, <3>3, <3>4
  <2>3. QED
    BY <2>1, <2>2 DEF RootsTrusted
<1>2. QED
  BY <1>1, ChecksAddUp, PTL

\* What arrives was allowed for, in the budget and on the disk, however nix
\* rounds and however the missing paths are cut into pieces.
THEOREM GrowthIsCharged == AdmSpec => []GrowthCharged
<1>1. AdmInv => GrowthCharged
  <2> SUFFICES ASSUME AdmInv, valid # host.valid
               PROVE  /\ host.valid # {}
                      /\ Size(host.core) + Size(valid \ host.valid) <= host.budget
                      /\ free >= Floor - others
    BY DEF GrowthCharged
  <2> DEFINE g == Size(Coming \ host.valid)
             s == Size(valid \ host.valid)
             c == Size(host.core)
  <2>1. at \in Storing
    BY DEF AdmInv, Stored
  <2>2. host.valid \subseteq valid /\ valid \subseteq host.valid \cup Coming
        /\ free + others + s = host.free
    BY DEF AdmInv, Stored
  <2>3. ~ (Coming \subseteq host.valid)
    BY <2>2
  <2>4. host.valid # {} /\ c + g <= host.budget /\ Floor + g <= host.free
    BY <2>1, <2>3 DEF AdmInv, Passed, HasRoom
  <2>5. /\ Coming \ host.valid \in SUBSET Paths /\ valid \ host.valid \in SUBSET Paths
        /\ valid \ host.valid \subseteq Coming \ host.valid /\ host.core \in SUBSET Paths
    BY <2>2, NeededFacts, HostFacts DEF AdmInv
  <2>6. s \in Nat /\ g \in Nat /\ c \in Nat /\ s <= g
    BY <2>5, Sizes
  <2>7. host.budget \in Int /\ host.free \in Int /\ free \in Int /\ others \in Nat /\ Floor \in Nat
    BY HostFacts, Limits DEF AdmInv, AdmTypes
  <2> HIDE DEF g, s, c
  <2>8. c + s <= host.budget /\ free >= Floor - others
    BY <2>2, <2>4, <2>6, <2>7
  <2>9. QED
    BY <2>4, <2>8 DEF c, s
<1>2. QED
  BY <1>1, ChecksAddUp, PTL

\* Nothing else turns a bundle away.
THEOREM OnlyRefusedForCause == AdmSpec => []RefusedForCause
<1>1. AdmInv => RefusedForCause
  BY DEF AdmInv
<1>2. QED
  BY <1>1, ChecksAddUp, PTL

=============================================================================
