--------------------------- MODULE StoreGraphProofs ---------------------------
(***************************************************************************)
(* What closures, tops and walks are, for every store graph.  Everything   *)
(* the other proofs know about the store rests on these facts.             *)
(***************************************************************************)
EXTENDS StoreGraph, TLAPS

\* A closure is a set of store paths closed under references: retention adds
\* closures, and so its keep set never names a path without what it needs.
THEOREM ClosureIsClosed ==
    ASSUME NEW S
    PROVE  Closure(S) \in ClosedSets
<1>1. SUFFICES ASSUME NEW p \in Closure(S), NEW r \in Refs[p]
               PROVE  r \in Closure(S)
  BY DEF Closure, ClosedSets, Closed
<1>2. p \in Paths /\ r \in Paths
  BY <1>1, RefsAssumption DEF Closure
<1>3. ASSUME NEW C \in ClosedSets, S \subseteq C
      PROVE  r \in C
  <2>1. p \in C
    BY <1>1, <1>3 DEF Closure
  <2>2. QED
    BY <1>1, <1>3, <2>1 DEF ClosedSets, Closed
<1>4. QED
  BY <1>2, <1>3 DEF Closure

\* graph.closure keeps the roots it starts from.
THEOREM ClosureContains ==
    ASSUME NEW S \in SUBSET Paths
    PROVE  S \subseteq Closure(S)
BY DEF Closure

\* graph.closure adds nothing a closed set around the roots does not have.
THEOREM ClosureIsLeast ==
    ASSUME NEW S, NEW C \in ClosedSets, S \subseteq C
    PROVE  Closure(S) \subseteq C
BY DEF Closure

\* More roots keep more.
THEOREM ClosureMonotone ==
    ASSUME NEW S, NEW T, S \subseteq T
    PROVE  Closure(S) \subseteq Closure(T)
BY DEF Closure

\* A closed set is its own closure.
THEOREM ClosureOfClosed ==
    ASSUME NEW C \in ClosedSets
    PROVE  Closure(C) = C
BY ClosureContains, ClosureIsLeast DEF ClosedSets

\* Closed sets can be put together.
LEMMA ClosedUnion ==
    ASSUME NEW C \in ClosedSets, NEW D \in ClosedSets
    PROVE  C \cup D \in ClosedSets
BY DEF ClosedSets, Closed

\* The closure of two sets of roots is what the two closures hold.
THEOREM ClosureUnion ==
    ASSUME NEW S \in SUBSET Paths, NEW T \in SUBSET Paths
    PROVE  Closure(S \cup T) = Closure(S) \cup Closure(T)
<1>1. Closure(S) \cup Closure(T) \in ClosedSets
  BY ClosureIsClosed, ClosedUnion
<1>2. S \cup T \subseteq Closure(S) \cup Closure(T)
  BY ClosureContains
<1>3. Closure(S \cup T) \subseteq Closure(S) \cup Closure(T)
  BY <1>1, <1>2, ClosureIsLeast
<1>4. Closure(S) \subseteq Closure(S \cup T) /\ Closure(T) \subseteq Closure(S \cup T)
  <2>1. S \subseteq S \cup T /\ T \subseteq S \cup T
    OBVIOUS
  <2>2. QED
    BY <2>1, ClosureMonotone
<1>5. QED
  BY <1>3, <1>4

\* Rooting the tops of a closed keep set roots all of it, because references
\* have no cycle: write_keep links plan.tops and nothing else.
THEOREM TopsRootAll ==
    ASSUME NEW K \in ClosedSets
    PROVE  Closure(Tops(K)) = K
<1> DEFINE Lost == {p \in K : p \notin Closure(Tops(K))}
<1>1. K \subseteq Paths /\ Tops(K) \subseteq K
  BY DEF ClosedSets, Tops
<1>2. Closure(Tops(K)) \subseteq K
  BY <1>1, ClosureIsLeast
<1>3. ASSUME Lost # {} PROVE FALSE
  <2>1. Lost \in SUBSET Paths
    BY <1>1
  <2>2. PICK p \in Lost : \A q \in Lost : p \notin Refs[q]
    <3> HIDE DEF Lost
    <3> QED BY <1>3, <2>1, AcyclicAssumption
  <2>3. p \in K /\ p \notin Closure(Tops(K))
    BY <2>2
  <2>4. p \notin Tops(K)
    BY <1>1, <2>3, ClosureContains
  <2>5. PICK q \in K : p \in Refs[q]
    BY <2>3, <2>4 DEF Tops
  <2>6. q \in Closure(Tops(K))
    BY <2>2, <2>5
  <2>7. p \in Closure(Tops(K))
    BY <2>5, <2>6, ClosureIsClosed DEF ClosedSets, Closed
  <2>8. QED
    BY <2>3, <2>7
<1>4. QED
  BY <1>2, <1>3

\* Around a closed set X, closure_excluding finds exactly what is missing from
\* X to contain the closure of S: what the planner charges for a candidate.
THEOREM WalkAroundClosed ==
    ASSUME NEW S \in SUBSET Paths, NEW G \in ClosedSets, NEW X \in ClosedSets,
           S \subseteq G
    PROVE  Walk(S, G, X) = Closure(S) \ X
<1>1. Closure(S) \in SUBSET Paths /\ Closure(S) \subseteq G
  BY ClosureIsClosed, ClosureIsLeast DEF ClosedSets
<1>2. Walk(S, G, X) \subseteq Closure(S) \ X
  <2>1. Closure(S) \ X \in SUBSET Paths
    BY <1>1
  <2>2. (S \cap G) \ X \subseteq Closure(S) \ X
    BY ClosureContains
  <2>3. WalkClosed(Closure(S) \ X, G, X)
    BY ClosureIsClosed DEF WalkClosed, ClosedSets, Closed
  <2>4. QED
    BY <2>1, <2>2, <2>3 DEF Walk
<1>3. ASSUME NEW p \in Closure(S) \ X PROVE p \in Walk(S, G, X)
  <2>1. ASSUME NEW C \in SUBSET Paths, (S \cap G) \ X \subseteq C, WalkClosed(C, G, X)
        PROVE  p \in C
    <3> DEFINE D == (C \cap G) \cup X
    <3>1. D \in ClosedSets
      <4>1. ASSUME NEW c \in D, NEW r \in Refs[c] PROVE r \in D
        <5>1. CASE c \in X
          BY <4>1, <5>1 DEF ClosedSets, Closed
        <5>2. CASE c \in C \cap G
          <6>1. r \in G
            BY <4>1, <5>2 DEF ClosedSets, Closed
          <6>2. QED
            BY <2>1, <4>1, <5>2, <6>1 DEF WalkClosed
        <5>3. QED
          BY <5>1, <5>2
      <4>2. D \subseteq Paths
        BY DEF ClosedSets
      <4>3. QED
        BY <4>1, <4>2 DEF ClosedSets, Closed
    <3>2. S \subseteq D
      BY <2>1
    <3>3. Closure(S) \subseteq D
      BY <3>1, <3>2, ClosureIsLeast
    <3>4. QED
      BY <1>3, <3>3
  <2>2. p \in Paths
    BY <1>1, <1>3
  <2>3. QED
    BY <2>1, <2>2 DEF Walk
<1>4. QED
  BY <1>2, <1>3

=============================================================================
