------------------------------ MODULE GraphWalk ------------------------------
(***************************************************************************)
(* The two worklist loops of graph.py, step by step: closure, which marks  *)
(* a path when it pops it, and closure_excluding, which marks it when it   *)
(* pushes it and never enters `exclude`.  The stack is a set: neither loop *)
(* depends on the order, and a path pushed twice is skipped when popped.   *)
(***************************************************************************)
EXTENDS StoreGraph

VARIABLES
    graph,      \* the paths the graph has a node for
    roots,      \* where the walk starts
    exclude,    \* paths closure_excluding may not enter
    marking,    \* "pop": closure, "push": closure_excluding
    stack, seen

walkVars == <<graph, roots, exclude, marking, stack, seen>>

\* Mutant of StartClosure: goes around the paths of a previous call.
StartAround == marking = "pop" /\ stack = (roots \cap graph) \ exclude /\ seen = {}

\* closure(graph, roots): roots without a node are left out.
StartClosure ==
    /\ marking = "pop"
    /\ exclude = {}
    /\ stack = roots \cap graph
    /\ seen = {}

\* closure_excluding(graph, root, exclude): nothing to do if root is kept already.
StartExcluding ==
    /\ marking = "push"
    /\ \E root \in Paths : roots = {root}
    /\ stack = (roots \cap graph) \ exclude
    /\ seen = stack

WalkInit ==
    /\ graph \in SUBSET Paths
    /\ roots \in SUBSET Paths
    /\ exclude \in SUBSET Paths
    /\ StartClosure \/ StartExcluding

\* Mutant of PopAndMark: marks what it pushes, and skips what is marked.
PopAndMarkAll(p) ==
    /\ marking = "pop"
    /\ IF p \in seen
       THEN stack' = stack \ {p} /\ seen' = seen
       ELSE /\ seen' = seen \cup {p} \cup (Refs[p] \cap graph)
            /\ stack' = (stack \ {p}) \cup ((Refs[p] \cap graph) \ seen)

\* Mutant of PopAndMark: looks at the top of the stack without taking it.
PeekAndMark(p) ==
    /\ marking = "pop"
    /\ seen' = seen \cup {p}
    /\ stack' = stack \cup (Refs[p] \cap graph)

PopAndMark(p) ==
    /\ marking = "pop"
    /\ IF p \in seen
       THEN stack' = stack \ {p} /\ seen' = seen
       ELSE /\ seen' = seen \cup {p}
            /\ stack' = (stack \ {p}) \cup ((Refs[p] \cap graph) \ seen')

\* Mutant of PopAndPush: enters `exclude`.
PopAndPushAll(p) ==
    /\ marking = "push"
    /\ LET found == (Refs[p] \cap graph) \ seen IN
        /\ seen' = seen \cup found
        /\ stack' = (stack \ {p}) \cup found

PopAndPush(p) ==
    /\ marking = "push"
    /\ LET found == ((Refs[p] \cap graph) \ seen) \ exclude IN
        /\ seen' = seen \cup found
        /\ stack' = (stack \ {p}) \cup found

WalkNext ==
    \E p \in stack :
        /\ PopAndMark(p) \/ PopAndPush(p)
        /\ UNCHANGED <<graph, roots, exclude, marking>>

WalkSpec == WalkInit /\ [][WalkNext]_walkVars /\ WF_walkVars(WalkNext)

-----------------------------------------------------------------------------
WalkTypeOK ==
    /\ graph \subseteq Paths /\ roots \subseteq Paths /\ exclude \subseteq Paths
    /\ marking \in {"pop", "push"}
    /\ marking = "pop" => exclude = {}
    /\ stack \subseteq Paths /\ seen \subseteq Paths

\* When a loop ends it has exactly the reachable paths: none missed because it
\* was seen on another branch, none taken from outside the graph or `exclude`.
WalkCorrect == stack = {} => seen = Walk(roots, graph, exclude)

\* Over a whole store (closed under references) and around a closed keep set the
\* loops compute what the rest of the project calls Closure.
WalkIsClosure ==
    stack = {} /\ Closed(graph) /\ Closed(exclude) =>
        seen = Closure(roots \cap graph) \ exclude

\* Both loops end, on shared references too.
WalkEnds == <>(stack = {})

=============================================================================
