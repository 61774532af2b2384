------------------------------ MODULE Retention ------------------------------
(***************************************************************************)
(* retention.plan_retention: from the must-keep core the keep set grows,   *)
(* one candidate at a time in order of value, as long as each candidate's  *)
(* closure fits the budget; one that does not fit is skipped.  Charge is   *)
(* the sum of NAR sizes with the host's own closure free; what the planner *)
(* relies on is that it adds up over disjoint sets.                        *)
(***************************************************************************)
EXTENDS Naturals, StoreGraph

CONSTANTS
    Charge,     \* Charge[S]: retention._charge of the set S
    Value,      \* Value[p]: place of p in the sort key (tier, recency, path)
    Budgets     \* budgets to plan for

ASSUME ChargeAssumption ==
    /\ Charge \in [SUBSET Paths -> Nat]
    /\ \A S, T \in SUBSET Paths :
        S \cap T = {} => Charge[S \cup T] = Charge[S] + Charge[T]

ASSUME ValueAssumption ==
    /\ Value \in [Paths -> Nat]
    /\ \A p, q \in Paths : Value[p] = Value[q] => p = q

ASSUME BudgetsAssumption == Budgets \subseteq Nat

VARIABLES
    budget,     \* policy.budget_bytes
    core,       \* core.must
    pool,       \* pin targets and previous keep roots
    keep, used, over,
    queue       \* candidates not looked at yet

inputs == <<budget, core, pool>>
planVars == <<inputs, keep, used, over, queue>>

PlanInit ==
    /\ budget \in Budgets
    /\ core \in SUBSET Paths
    /\ pool \in SUBSET Paths
    /\ keep = Closure(core)
    /\ used = Charge[keep]
    /\ over = (used > budget)
    /\ queue = IF over THEN {} ELSE Closure(pool) \ keep

\* Mutants of Extra: forget what p needs, or charge again what is kept.
OnlyItself(p) == {p}
WithKept(p) == Closure({p})

\* What keeping p adds (closure_excluding).
Extra(p) == Walk({p}, Paths, keep)

\* Mutants of Fits: forget what is used, or stop one byte early.
FitsAlone(p) == Charge[Extra(p)] <= budget
FitsStrictly(p) == used + Charge[Extra(p)] < budget

Fits(p) == used + Charge[Extra(p)] <= budget

\* A whole round of the loop for p, the most valuable candidate left: it is
\* kept with what it needs ...
KeepIt(p) ==
    /\ p \notin keep /\ Fits(p)
    /\ keep' = keep \cup Extra(p)
    /\ used' = used + Charge[Extra(p)]

\* ... or passed over.
PassOver(p) ==
    /\ p \in keep \/ ~ Fits(p)
    /\ UNCHANGED <<keep, used>>

Consider(p) ==
    /\ \A q \in queue : Value[q] <= Value[p]
    /\ queue' = queue \ {p}
    /\ KeepIt(p) \/ PassOver(p)
    /\ UNCHANGED <<inputs, over>>

PlanNext == \E p \in queue : Consider(p)

PlanSpec == PlanInit /\ [][PlanNext]_planVars

-----------------------------------------------------------------------------
PlanTypeOK ==
    /\ budget \in Nat /\ core \subseteq Paths /\ pool \subseteq Paths
    /\ keep \in ClosedSets /\ queue \subseteq Paths
    /\ used \in Nat /\ over \in BOOLEAN

\* The plan is one the pruner may act on: closed, so that rooting its tops roots
\* all of it, with the whole core, and nothing nobody pinned or kept before.
KeepIsPlan == IsPlanFor(keep, core, pool)

\* kept_bytes is what the keep set really costs: a path shared by two candidates
\* is charged once, and one already kept is not charged again.
UsedIsCharge == used = Charge[keep]

\* Over the budget only the core is kept, otherwise the keep set fits.
WithinBudget ==
    /\ over => keep = Closure(core)
    /\ ~ over => Charge[keep] <= budget

\* A candidate is only evicted if its closure does not fit beside everything more
\* valuable that is kept: no cheap path is lost to a less valuable one.
EvictedDidNotFit ==
    \A p \in Closure(pool) \ (keep \cup queue) :
        over \/ Charge[Closure(core \cup {q \in keep : q \in Closure(pool) /\ Value[q] > Value[p]})
                       \cup Closure({p})] > budget

=============================================================================
