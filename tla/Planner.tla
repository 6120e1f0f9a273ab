-------------------------------- MODULE Planner --------------------------------
(***************************************************************************)
(* get_execution_order of core/modules.py, step by step: the graph is built  *)
(* module by module, filtered by repeated scans, checked for cycles and      *)
(* sorted, once for everything and once more up to the target.               *)
(***************************************************************************)
EXTENDS ModuleGraph

CONSTANTS
  Declarations,   \* the declarations to plan from, a subset of Declaration
  Targets         \* the command line targets: modules, NoTarget, unknown names

ASSUME DeclarationsAssumption == Declarations \subseteq Declaration

VARIABLES
  decl,      \* what the module files declare and what apt reports
  target,    \* the argument of get_execution_order
  pc,        \* where get_execution_order is
  added,     \* the modules the loop of build_dependency_graph has been through
  nodes,     \* the graph's nodes, in the order networkx iterates over them
  edges,     \* the graph's edges: m |-> its predecessors, by optional attribute
  installed, \* the nodes whose installed attribute is true
  removed,   \* filter_graph's nodes_to_remove
  at,        \* the next node of filter_graph's scan
  changed,   \* filter_graph's changed
  scope,     \* the nodes of the (sub)graph being sorted
  order,     \* the order produced so far
  full       \* history: the first sort's order without utils

vars == << decl, target, pc, added, nodes, edges, installed,
           removed, at, changed, scope, order, full >>

inputs   == << decl, target >>
built    == << added, nodes, edges, installed >>
filtered == << removed, at, changed >>
sorted   == << scope, order, full >>

Final == {"done", "circular", "not_found"}

--------------------------------------------------------------------------------
Init ==
  /\ decl \in Declarations
  /\ target \in Targets
  /\ pc = "start"
  /\ added = {}
  /\ nodes = << >>
  /\ edges = [req |-> [m \in Modules |-> {}], opt |-> [m \in Modules |-> {}]]
  /\ installed = {}
  /\ removed = {}
  /\ at = 1
  /\ changed = FALSE
  /\ scope = {}
  /\ order = << >>
  /\ full = << >>

\* target == "utils": no graph is built.
ReturnUtils ==
  /\ pc = "start"
  /\ target = Utils
  /\ pc' = "done"
  /\ order' = << Utils >>
  /\ UNCHANGED << inputs, built, filtered, scope, full >>

StartBuild ==
  /\ pc = "start"
  /\ target # Utils
  /\ pc' = "build"
  /\ UNCHANGED << inputs, built, filtered, sorted >>

\* One turn of build_dependency_graph's loop.  iter_modules yields sorted
\* names; the node comes first, then those the required and the optional edges
\* introduce, each set in hash order.  installed is read from the apt cache.
AddModule(m) ==
  /\ pc = "build"
  /\ m \in decl.found \ added
  /\ \A n \in decl.found \ added : n # m => LessThan(m, n)
  /\ added' = added \cup {m}
  /\ LET known == Members(nodes) \cup {m}
         req   == decl.deps[m] \ (decl.optional[m] \cup known)
         own   == IF m \in Members(nodes) THEN << >> ELSE << m >>
     IN  \E r \in SetToSeqs(req), o \in SetToSeqs(decl.optional[m] \ known) :
           nodes' = nodes \o own \o r \o o
  /\ edges' = [ req |-> [edges.req EXCEPT ![m] = decl.deps[m] \ decl.optional[m]],
                opt |-> [edges.opt EXCEPT ![m] = decl.optional[m]] ]
  /\ installed' = IF m \in decl.installed THEN installed \cup {m} ELSE installed
  /\ UNCHANGED << inputs, pc, filtered, sorted >>

\* The graph is complete; filter_graph starts from the nodes not installed.
EndBuild ==
  /\ pc = "build"
  /\ decl.found \subseteq added
  /\ pc' = "filter"
  /\ removed' = Members(nodes) \ installed
  /\ at' = 1
  /\ changed' = FALSE
  /\ UNCHANGED << inputs, built, sorted >>

--------------------------------------------------------------------------------
Predecessors(m) == edges.req[m] \cup edges.opt[m]

IsOnlyOptional(m) == Predecessors(m) # {} /\ edges.req[m] = {}

\* Mutant: an optional dependency that is missing counts as well.
IsMissingAny(m) == Predecessors(m) \cap removed # {}

IsMissingRequired(m) == edges.req[m] \cap removed # {}

\* One node of one pass of filter_graph's scan.
Scan ==
  /\ pc = "filter"
  /\ at <= Len(nodes)
  /\ at' = at + 1
  /\ LET m == nodes[at] IN
       IF m \notin removed /\ (IsOnlyOptional(m) \/ IsMissingRequired(m))
       THEN removed' = removed \cup {m} /\ changed' = TRUE
       ELSE UNCHANGED << removed, changed >>
  /\ UNCHANGED << inputs, pc, built, sorted >>

\* Mutants: the next pass starts one short of the first node; changed is never
\* cleared.
ScanAgainFromZero ==
  /\ pc = "filter" /\ at > Len(nodes) /\ changed
  /\ at' = 0 /\ changed' = FALSE
  /\ UNCHANGED << inputs, pc, built, removed, sorted >>

ScanAgainForever ==
  /\ pc = "filter" /\ at > Len(nodes) /\ changed
  /\ at' = 1
  /\ UNCHANGED << inputs, pc, built, removed, changed, sorted >>

\* The end of a pass that removed something: scan again.
ScanAgain ==
  /\ pc = "filter"
  /\ at > Len(nodes)
  /\ changed
  /\ at' = 1
  /\ changed' = FALSE
  /\ UNCHANGED << inputs, pc, built, removed, sorted >>

\* The end of a pass that removed nothing: the nodes go, then the check that
\* what is left is acyclic.
EndFilter ==
  /\ pc = "filter"
  /\ at > Len(nodes)
  /\ ~changed
  /\ scope' = Members(nodes) \ removed
  /\ pc' = IF Cyclic(scope', [m \in Modules |-> Predecessors(m)])
           THEN "circular" ELSE "sort"
  /\ UNCHANGED << inputs, built, filtered, order, full >>

--------------------------------------------------------------------------------
\* Mutant: edges added from the module to what it depends on.
ReadyReversed ==
  {m \in scope \ Members(order) : \A n \in scope : m \in Predecessors(n) => n \in Members(order)}

\* The nodes a topological sort may emit next.
Ready == {m \in scope \ Members(order) : Predecessors(m) \cap scope \subseteq Members(order)}

\* networkx's lexicographical_topological_sort: the least name that is ready.
Emit(m) ==
  /\ pc \in {"sort", "sort_path"}
  /\ m \in Ready
  /\ \A n \in Ready : n # m => LessThan(m, n)
  /\ order' = Append(order, m)
  /\ UNCHANGED << inputs, pc, built, filtered, scope, full >>

\* No target: everything, utils first.
ReturnAll ==
  /\ pc = "sort"
  /\ scope \subseteq Members(order)
  /\ target = NoTarget
  /\ pc' = "done"
  /\ full' = WithoutUtils(order)
  /\ order' = << Utils >> \o full'
  /\ UNCHANGED << inputs, built, filtered, scope >>

\* The target is in the order: sort again, over its ancestors and itself.
StartPath ==
  /\ pc = "sort"
  /\ scope \subseteq Members(order)
  /\ target # NoTarget
  /\ full' = WithoutUtils(order)
  /\ target \in Members(full')
  /\ pc' = "sort_path"
  /\ scope' = UpTo(scope, [m \in Modules |-> Predecessors(m)], target)
  /\ order' = << >>
  /\ UNCHANGED << inputs, built, filtered >>

\* RuntimeError: Target not found!
TargetNotFound ==
  /\ pc = "sort"
  /\ scope \subseteq Members(order)
  /\ target # NoTarget
  /\ full' = WithoutUtils(order)
  /\ target \notin Members(full')
  /\ pc' = "not_found"
  /\ UNCHANGED << inputs, built, filtered, scope, order >>

ReturnPath ==
  /\ pc = "sort_path"
  /\ scope \subseteq Members(order)
  /\ pc' = "done"
  /\ order' = << Utils >> \o WithoutUtils(order)
  /\ UNCHANGED << inputs, built, filtered, scope, full >>

\* The function has returned or raised.
Terminated == pc \in Final /\ UNCHANGED vars

Next ==
  \/ ReturnUtils
  \/ StartBuild
  \/ \E m \in Modules : AddModule(m)
  \/ EndBuild
  \/ Scan
  \/ ScanAgain
  \/ EndFilter
  \/ \E m \in Modules : Emit(m)
  \/ ReturnAll
  \/ StartPath
  \/ TargetNotFound
  \/ ReturnPath
  \/ Terminated

Spec == Init /\ [][Next]_vars /\ WF_vars(Next)

--------------------------------------------------------------------------------
\* Every variable stays in its type (the values of get_execution_order's locals).
TypeOK ==
  /\ decl \in Declaration
  /\ target \in Targets
  /\ pc \in Final \cup {"start", "build", "filter", "sort", "sort_path"}
  /\ added \subseteq Modules
  /\ nodes \in Seq(Modules)
  /\ edges \in [req : [Modules -> SUBSET Modules], opt : [Modules -> SUBSET Modules]]
  /\ installed \subseteq Modules
  /\ removed \subseteq Modules
  /\ at \in Nat \ {0}
  /\ changed \in BOOLEAN
  /\ scope \subseteq Modules
  /\ order \in Seq(Modules)
  /\ full \in Seq(Modules)

Filtered == pc \in {"sort", "sort_path", "circular", "not_found"} \/ (pc = "done" /\ target # Utils)

\* filter_graph's loop removes exactly the least set it must, although it tests
\* each node once per pass against a set that grows under the scan and meets
\* the nodes in hash order.
FilterExact == Filtered => removed = Doomed(decl)

\* The order returned satisfies what setup relies on.
PlanSound == pc = "done" => IF target = Utils THEN order = << Utils >> ELSE SoundPlan(decl, order)

\* Asking for a target changes which modules run, never their relative order:
\* the second sort, over the target's ancestors, is the first sort restricted
\* to them.
TargetIsProjection ==
  (pc = "done" /\ target \notin {NoTarget, Utils}) =>
    /\ Members(order) = {Utils} \cup (Members(full) \cap scope)
    /\ \A m, n \in Members(full) \cap scope : Before(order, m, n) <=> Before(full, m, n)

\* Two runs over the same modules end the same way: the same order, that of the
\* reference planner, or an exception.  Nothing of the hash order in which edges
\* are added reaches the result.
Deterministic ==
  pc \in Final => PlanFor(decl, target) = IF pc = "done" THEN order ELSE << >>

Service == INSTANCE PlanService WITH
  status <- CASE pc = "done" -> "answered" [] pc \in {"circular", "not_found"} -> "raised"
              [] OTHER -> "asked",
  answer <- IF pc = "done" THEN order ELSE << >>

\* get_execution_order implements what the commands rely on: it answers once, with
\* a sound order of exactly the modules that survive filtering, or those of them
\* the target needs, and refuses only a cycle or a target that does not survive.
ImplementsPlanService == Service!Spec

\* get_execution_order always returns or raises: the scans reach a pass that
\* changes nothing, and on a graph that passed the cycle check neither sort
\* gets stuck.
Termination == <>(pc \in Final)
================================================================================
