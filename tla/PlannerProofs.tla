----------------------------- MODULE PlannerProofs -----------------------------
(***************************************************************************)
(* What get_execution_order guarantees for every set of modules, every       *)
(* declaration and every target: filtering is exact, every order returned is *)
(* a sound plan and the reference planner's, a target's order is the whole    *)
(* order restricted to what it needs, and the computation is one step of the *)
(* plan service.                                                            *)
(***************************************************************************)
EXTENDS Planner, GraphProofs

--------------------------------------------------------------------------------
(***************************************************************************)
(* Sequences iterated in hash order.                                        *)
(***************************************************************************)

\* A member of SetToSeqs(S) lists exactly S (a set iterated in hash order).
LEMMA SetToSeqsMembers ==
  ASSUME NEW S, IsFiniteSet(S), NEW s \in SetToSeqs(S)
  PROVE  s \in Seq(S) /\ Members(s) = S
<1> DEFINE n == Cardinality(S)
<1>1. n \in Nat  BY FS_CardinalityType
<1>2. s \in [1 .. n -> S] /\ \A i, j \in 1 .. n : i # j => s[i] # s[j]
  BY DEF SetToSeqs
<1>3. s \in Injection(1 .. n, S)  BY <1>2 DEF Injection, IsInjective
<1>4. Cardinality(1 .. n) = n  BY <1>1, FS_Interval
<1>5. s \in Surjection(1 .. n, S)  BY <1>3, <1>4, FS_Injection
<1>6. \A x \in S : \E i \in 1 .. n : s[i] = x  BY <1>5 DEF Surjection
<1>7. s \in Seq(S)  BY <1>1, <1>2
<1> QED  BY <1>2, <1>6, <1>7 DEF Members

--------------------------------------------------------------------------------
(***************************************************************************)
(* The inductive invariant, by phase.                                       *)
(***************************************************************************)

\* Building: the graph so far is what the modules added so far declare.
BuildInv ==
  /\ added \subseteq decl.found
  /\ Members(nodes) = added \cup UNION {PredsOf(decl, m) : m \in added}
  /\ edges.req = [m \in Modules |-> IF m \in added THEN RequiredOf(decl, m) ELSE {}]
  /\ edges.opt = [m \in Modules |-> IF m \in added THEN OptionalOf(decl, m) ELSE {}]
  /\ installed = added \cap decl.installed
  /\ (pc \notin {"start", "build"} /\ target # Utils) => added = decl.found
  /\ target = Utils => pc \in {"start", "done"}

\* Filtering: nothing is removed that must stay, and in a pass that has removed
\* nothing so far no node behind the scan has to go.
FilterInv ==
  /\ pc = "filter" =>
       /\ Members(nodes) \ installed \subseteq removed
       /\ removed \subseteq Doomed(decl)
       /\ at \in 1 .. (Len(nodes) + 1)
       /\ ~changed => \A i \in 1 .. (at - 1) :
            nodes[i] \in removed \/ ~(IsOnlyOptional(nodes[i]) \/ IsMissingRequired(nodes[i]))
  /\ FilterExact

SortInv ==
  /\ pc \in {"sort", "sort_path"} => ClosedScope(decl, scope) /\ GreedyPrefix(decl, order, scope)
  /\ pc \in {"start", "build", "filter", "circular"} => order = << >>

IInv == TypeOK /\ BuildInv /\ FilterInv /\ SortInv /\ PlanSound

--------------------------------------------------------------------------------
(***************************************************************************)
(* Declarations and the set that must go.                                   *)
(***************************************************************************)

\* Once the loop of build_dependency_graph is over, the graph is the declared one.
LEMMA GraphBuilt ==
  ASSUME TypeOK, BuildInv, added = decl.found
  PROVE  /\ Members(nodes) = NodesOf(decl)
         /\ installed = InstalledIn(decl)
         /\ \A m \in Modules : /\ edges.req[m] = RequiredOf(decl, m)
                               /\ Predecessors(m) = PredsOf(decl, m)
<1>1. Members(nodes) = NodesOf(decl)  BY DEF BuildInv, NodesOf
<1>2. installed = InstalledIn(decl)  BY DEF BuildInv, InstalledIn
<1>3. ASSUME NEW m \in Modules
      PROVE  edges.req[m] = RequiredOf(decl, m) /\ edges.opt[m] = OptionalOf(decl, m)
  BY DEF BuildInv, RequiredOf, OptionalOf
<1> QED  BY <1>1, <1>2, <1>3 DEF Predecessors, PredsOf

--------------------------------------------------------------------------------
(***************************************************************************)
(* Types.                                                                   *)
(***************************************************************************)
\* The nodes an AddModule step appends are modules, and those it should.
LEMMA AddedNodes ==
  ASSUME TypeOK, NEW m \in Modules, AddModule(m)
  PROVE  /\ nodes' \in Seq(Modules)
         /\ Members(nodes') = Members(nodes) \cup {m} \cup decl.deps[m] \cup decl.optional[m]
<1> DEFINE known == Members(nodes) \cup {m}
           req   == decl.deps[m] \ (decl.optional[m] \cup known)
           opt   == decl.optional[m] \ known
           own   == IF m \in Members(nodes) THEN << >> ELSE << m >>
<1>1. nodes \in Seq(Modules) /\ decl \in Declaration  BY DEF TypeOK
<1>2. req \in SUBSET Modules /\ opt \in SUBSET Modules  BY <1>1, DeclarationTypes
<1>3. PICK r \in SetToSeqs(req), o \in SetToSeqs(opt) : nodes' = nodes \o own \o r \o o
  BY DEF AddModule
<1>4. IsFiniteSet(req) /\ IsFiniteSet(opt)  BY <1>2, ModulesFinite, FS_Subset
<1>5. r \in Seq(req) /\ Members(r) = req /\ o \in Seq(opt) /\ Members(o) = opt
  BY <1>4, SetToSeqsMembers
<1>6. own \in Seq(Modules) /\ Members(own) = IF m \in Members(nodes) THEN {} ELSE {m}
  BY DEF Members
<1>7. r \in Seq(Modules) /\ o \in Seq(Modules)  BY <1>2, <1>5, SeqMonotonic
<1> HIDE DEF known, req, opt, own
<1> DEFINE s1 == nodes \o own
           s2 == s1 \o r
           s3 == s2 \o o
<1>8. s1 \in Seq(Modules) /\ Members(s1) = Members(nodes) \cup Members(own)
  BY <1>1, <1>6, ConcatMembers
<1> HIDE DEF s1
<1>9. s2 \in Seq(Modules) /\ Members(s2) = Members(s1) \cup Members(r)
  BY <1>7, <1>8, ConcatMembers
<1> HIDE DEF s2
<1>10. s3 \in Seq(Modules) /\ Members(s3) = Members(s2) \cup Members(o)
  BY <1>7, <1>9, ConcatMembers
<1>11. nodes' = s3  BY <1>3 DEF s1, s2
<1> HIDE DEF s3
<1> QED  BY <1>5, <1>6, <1>8, <1>9, <1>10, <1>11 DEF known, req, opt

\* Every step keeps the types.
LEMMA TypeStep ==
  ASSUME TypeOK, [Next]_vars
  PROVE  TypeOK'
<1> USE DEF TypeOK, Final
<1>0. decl \in Declaration /\ Utils \in Modules  BY UtilsAssumption
<1>1. CASE ReturnUtils
  BY <1>0, <1>1 DEF ReturnUtils, inputs, built, filtered
<1>2. CASE StartBuild
  BY <1>2 DEF StartBuild, inputs, built, filtered, sorted
<1>3. ASSUME NEW m \in Modules, AddModule(m) PROVE TypeOK'
  <2>1. nodes' \in Seq(Modules)  BY <1>3, AddedNodes
  <2>2. decl.deps[m] \subseteq Modules /\ decl.optional[m] \subseteq Modules
    BY <1>0, DeclarationTypes
  <2>3. edges' \in [req : [Modules -> SUBSET Modules], opt : [Modules -> SUBSET Modules]]
    BY <1>3, <2>2 DEF AddModule
  <2> QED  BY <1>3, <2>1, <2>3 DEF AddModule, inputs, filtered, sorted
<1>4. CASE EndBuild
  <2>1. removed' \subseteq Modules
    <3>1. \A i \in DOMAIN nodes : nodes[i] \in Modules  BY LenProperties, ElementOfSeq
    <3> QED  BY <1>4, <3>1 DEF EndBuild, Members
  <2>2. UNCHANGED << decl, target, added, nodes, edges, installed, scope, order, full >>
    BY <1>4 DEF EndBuild, inputs, built, sorted
  <2>3. pc' = "filter" /\ at' = 1 /\ changed' \in BOOLEAN  BY <1>4 DEF EndBuild
  <2> QED  BY <2>1, <2>2, <2>3
<1>5. CASE Scan
  <2>1. at' \in Nat \ {0}  BY <1>5 DEF Scan
  <2>4. changed' \in BOOLEAN  BY <1>5, Zenon DEF Scan
  <2>2. nodes[at] \in Modules
    <3>1. at \in 1 .. Len(nodes)  BY <1>5, LenProperties DEF Scan
    <3> QED  BY <3>1, ElementOfSeq
  <2>3. removed' \subseteq Modules  BY <1>5, <2>2 DEF Scan
  <2>5. /\ decl' = decl /\ target' = target /\ pc' = pc /\ added' = added /\ nodes' = nodes
        /\ edges' = edges /\ installed' = installed /\ scope' = scope /\ order' = order
        /\ full' = full
    BY <1>5 DEF Scan, inputs, built, sorted
  <2> QED  BY <2>1, <2>3, <2>4, <2>5, Zenon
<1>6. CASE ScanAgain
  <2>1. at' = 1 /\ changed' = FALSE  BY <1>6, Zenon DEF ScanAgain
  <2>3. at' \in Nat \ {0}  BY <2>1
  <2>4. changed' \in BOOLEAN  BY <2>1, Zenon
  <2>2. /\ decl' = decl /\ target' = target /\ pc' = pc /\ added' = added /\ nodes' = nodes
        /\ edges' = edges /\ installed' = installed /\ removed' = removed /\ scope' = scope
        /\ order' = order /\ full' = full
    BY <1>6 DEF ScanAgain, inputs, built, sorted
  <2> QED  BY <2>2, <2>3, <2>4, Zenon
<1>7. CASE EndFilter
  <2>1. \A i \in DOMAIN nodes : nodes[i] \in Modules  BY LenProperties, ElementOfSeq
  <2>2. scope' \subseteq Modules  BY <1>7, <2>1 DEF EndFilter, Members
  <2> QED  BY <1>7, <2>2 DEF EndFilter, inputs, built, filtered
<1>8. ASSUME NEW m \in Modules, Emit(m) PROVE TypeOK'
  <2>1. order' \in Seq(Modules)  BY <1>8, AppendProperties DEF Emit
  <2> QED  BY <1>8, <2>1 DEF Emit, inputs, built, filtered
<1>9. /\ WithoutUtils(order) \in Seq(Modules)
      /\ << Utils >> \o WithoutUtils(order) \in Seq(Modules)
  BY <1>0, WithoutUtilsType, ConcatProperties
<1>10. CASE ReturnAll
  BY <1>9, <1>10 DEF ReturnAll, inputs, built, filtered
<1>11. CASE StartPath
  <2>1. scope' \subseteq scope  BY <1>11 DEF StartPath, UpTo
  <2> QED  BY <1>9, <1>11, <2>1 DEF StartPath, inputs, built, filtered
<1>12. CASE TargetNotFound
  BY <1>9, <1>12 DEF TargetNotFound, inputs, built, filtered
<1>13. CASE ReturnPath
  BY <1>9, <1>13 DEF ReturnPath, inputs, built, filtered
<1>14. CASE UNCHANGED vars
  BY <1>14 DEF vars
<1> QED
  BY <1>1, <1>2, <1>3, <1>4, <1>5, <1>6, <1>7, <1>8, <1>10, <1>11, <1>12, <1>13, <1>14
  DEF Next, Terminated

--------------------------------------------------------------------------------
(***************************************************************************)
(* Building.                                                                *)
(***************************************************************************)
LEMMA BuildStep ==
  ASSUME TypeOK, BuildInv, [Next]_vars
  PROVE  BuildInv'
<1>0. decl \in Declaration  BY DEF TypeOK
<1>1. CASE UNCHANGED << inputs, built >> /\ pc' \in {"start", "build"} /\ target # Utils
  BY <1>1 DEF BuildInv, inputs, built, Members, PredsOf, RequiredOf, OptionalOf
<1>2. CASE /\ UNCHANGED << inputs, built >>
           /\ target = Utils => pc' = "done"
           /\ target # Utils => added = decl.found
  BY <1>2 DEF BuildInv, inputs, built, Members, PredsOf, RequiredOf, OptionalOf
<1>3. ASSUME NEW m \in Modules, AddModule(m) PROVE BuildInv'
  <2>1. /\ m \in decl.found /\ added' = added \cup {m} /\ decl' = decl /\ target' = target
        /\ pc = "build" /\ pc' = "build"
        /\ edges' = [ req |-> [edges.req EXCEPT ![m] = decl.deps[m] \ decl.optional[m]],
                      opt |-> [edges.opt EXCEPT ![m] = decl.optional[m]] ]
        /\ installed' = IF m \in decl.installed THEN installed \cup {m} ELSE installed
    BY <1>3 DEF AddModule, inputs
  <2>2. Members(nodes') = Members(nodes) \cup {m} \cup decl.deps[m] \cup decl.optional[m]
    BY <1>3, AddedNodes
  <2>3. PredsOf(decl, m) = decl.deps[m] \cup decl.optional[m]
    BY <2>1 DEF PredsOf, RequiredOf, OptionalOf
  <2>4. Members(nodes)' = added' \cup UNION {PredsOf(decl', k) : k \in added'}
    <3>1. Members(nodes)' = Members(nodes')  BY DEF Members
    <3> QED  BY <2>1, <2>2, <2>3, <3>1 DEF BuildInv
  <2>5. edges'.req = [k \in Modules |-> IF k \in added' THEN RequiredOf(decl', k) ELSE {}]
    BY <2>1 DEF BuildInv, RequiredOf
  <2>6. edges'.opt = [k \in Modules |-> IF k \in added' THEN OptionalOf(decl', k) ELSE {}]
    BY <2>1 DEF BuildInv, OptionalOf
  <2>7. installed' = added' \cap decl'.installed  BY <2>1 DEF BuildInv
  <2>8. added' \subseteq decl'.found /\ (target' = Utils => pc' \in {"start", "done"})
    BY <2>1 DEF BuildInv
  <2> QED
    BY <2>1, <2>4, <2>5, <2>6, <2>7, <2>8 DEF BuildInv, PredsOf, RequiredOf, OptionalOf
<1>4. CASE ReturnUtils  BY <1>2, <1>4 DEF ReturnUtils
<1>5. CASE StartBuild  BY <1>1, <1>5 DEF StartBuild
<1>6. CASE EndBuild
  <2>1. target # Utils /\ added = decl.found  BY <1>6 DEF EndBuild, BuildInv
  <2> QED  BY <1>2, <1>6, <2>1 DEF EndBuild
<1>7. ASSUME pc \in {"filter", "sort", "sort_path"}, UNCHANGED << inputs, built >>
      PROVE  BuildInv'
  <2>1. target # Utils /\ added = decl.found  BY <1>7 DEF BuildInv
  <2> QED  BY <1>2, <1>7, <2>1
<1>8. CASE Scan \/ ScanAgain \/ EndFilter
  BY <1>7, <1>8 DEF Scan, ScanAgain, EndFilter
<1>9. CASE ReturnAll \/ StartPath \/ TargetNotFound \/ ReturnPath
  BY <1>7, <1>9 DEF ReturnAll, StartPath, TargetNotFound, ReturnPath
<1>10. ASSUME NEW m \in Modules, Emit(m) PROVE BuildInv'
  BY <1>7, <1>10 DEF Emit
<1>11. CASE UNCHANGED vars
  BY <1>11 DEF vars, BuildInv, Members, PredsOf, RequiredOf, OptionalOf
<1> QED
  BY <1>3, <1>4, <1>5, <1>6, <1>8, <1>9, <1>10, <1>11 DEF Next, Terminated

--------------------------------------------------------------------------------
(***************************************************************************)
(* Filtering.                                                               *)
(***************************************************************************)

\* A pass over all nodes that removes nothing has reached the least closed set.
LEMMA QuietPass ==
  ASSUME TypeOK, BuildInv, FilterInv, pc = "filter", at > Len(nodes), ~changed
  PROVE  removed = Doomed(decl)
<1>0. decl \in Declaration /\ target # Utils  BY DEF TypeOK, BuildInv
<1>1. /\ Members(nodes) = NodesOf(decl)
      /\ installed = InstalledIn(decl)
      /\ \A m \in Modules : edges.req[m] = RequiredOf(decl, m) /\ Predecessors(m) = PredsOf(decl, m)
  <2>1. added = decl.found  BY <1>0 DEF BuildInv
  <2> QED  BY <2>1, GraphBuilt
<1>2. NodesOf(decl) \subseteq Modules  BY <1>0, DeclarationTypes
<1>3. ASSUME NEW m \in NodesOf(decl)
      PROVE  m \in removed \/ ~(IsOnlyOptional(m) \/ IsMissingRequired(m))
  <2>1. nodes \in Seq(Modules) /\ at \in Nat  BY DEF TypeOK
  <2>2. Len(nodes) \in Nat /\ DOMAIN nodes = 1 .. Len(nodes)  BY <2>1, LenProperties
  <2>3. PICK i \in 1 .. Len(nodes) : nodes[i] = m  BY <1>1, <2>2 DEF Members
  <2>4. i \in 1 .. (at - 1)  BY <2>1, <2>2
  <2> QED  BY <2>3, <2>4 DEF FilterInv
<1>4. DoomClosed(decl, removed)
  <2>1. ASSUME NEW m \in Unusable(decl) PROVE m \in removed
    <3>1. CASE m \notin InstalledIn(decl)  BY <1>1, <2>1, <3>1 DEF Unusable, FilterInv
    <3>2. CASE OnlyOptional(decl, m)
      <4>1. m \in NodesOf(decl) /\ m \in Modules  BY <1>2, <2>1 DEF Unusable
      <4>2. IsOnlyOptional(m)  BY <1>1, <3>2, <4>1 DEF OnlyOptional, IsOnlyOptional
      <4> QED  BY <1>3, <4>1, <4>2
    <3> QED  BY <2>1, <3>1, <3>2 DEF Unusable
  <2>2. ASSUME NEW m \in NodesOf(decl), RequiredOf(decl, m) \cap removed # {} PROVE m \in removed
    BY <1>1, <1>2, <1>3, <2>2 DEF IsMissingRequired
  <2> QED  BY <2>1, <2>2 DEF DoomClosed
<1>5. removed \subseteq Doomed(decl)  BY DEF FilterInv
<1>6. removed \in SUBSET NodesOf(decl)  BY <1>5 DEF Doomed
<1> QED  BY <1>4, <1>5, <1>6 DEF Doomed

\* filter_graph keeps what is known of the nodes it has removed and of the pass it is in.
LEMMA FilterStep ==
  ASSUME TypeOK, BuildInv, FilterInv, [Next]_vars
  PROVE  FilterInv'
<1>0. decl \in Declaration /\ nodes \in Seq(Modules) /\ at \in Nat \ {0}  BY DEF TypeOK
<1>1. Len(nodes) \in Nat /\ DOMAIN nodes = 1 .. Len(nodes)  BY <1>0, LenProperties
<1>2. NodesOf(decl) \subseteq Modules  BY <1>0, DeclarationTypes
<1>3. ASSUME pc' \notin {"filter"}, Filtered' => Filtered, decl' = decl, removed' = removed
      PROVE  FilterInv'
  <2>1. Doomed(decl)' = Doomed(decl)
    BY <1>3 DEF Doomed, DoomClosed, Unusable, OnlyOptional, NodesOf, InstalledIn, PredsOf,
                RequiredOf, OptionalOf
  <2>2. FilterExact'  BY <1>3, <2>1 DEF FilterInv, FilterExact
  <2> QED  BY <1>3, <2>2 DEF FilterInv
<1>4. CASE ReturnUtils
  BY <1>3, <1>4 DEF ReturnUtils, Filtered, inputs, filtered
<1>5. CASE StartBuild
  BY <1>3, <1>5 DEF StartBuild, Filtered, inputs, filtered
<1>6. ASSUME NEW m \in Modules, AddModule(m) PROVE FilterInv'
  BY <1>3, <1>6 DEF AddModule, Filtered, inputs, filtered
<1>7. CASE EndBuild
  <2>1. added = decl.found  BY <1>7 DEF EndBuild, BuildInv
  <2>2. /\ removed' = NodesOf(decl) \ InstalledIn(decl)
        /\ removed' = Members(nodes) \ installed
    BY <1>7, <2>1, GraphBuilt DEF EndBuild
  <2>3. removed' \subseteq Doomed(decl)
    BY <1>0, <2>2, DoomedClosed DEF DoomClosed, Unusable
  <2>4. /\ pc' = "filter" /\ at' = 1 /\ decl' = decl /\ nodes' = nodes
        /\ installed' = installed
    BY <1>7 DEF EndBuild, inputs, built
  <2>5. Doomed(decl)' = Doomed(decl)
    BY <2>4 DEF Doomed, DoomClosed, Unusable, OnlyOptional, NodesOf, InstalledIn, PredsOf,
                RequiredOf, OptionalOf
  <2>6. (Members(nodes) \ installed)' \subseteq removed'  BY <2>2, <2>4 DEF Members
  <2>7. at' \in 1 .. (Len(nodes') + 1) /\ 1 .. (at' - 1) = {}  BY <1>1, <2>4
  <2> QED  BY <2>3, <2>4, <2>5, <2>6, <2>7 DEF FilterInv, FilterExact, Filtered
<1>8. CASE Scan
  <2> DEFINE m == nodes[at]
             candidate == m \notin removed /\ (IsOnlyOptional(m) \/ IsMissingRequired(m))
  <2>1. /\ pc = "filter" /\ pc' = "filter" /\ at' = at + 1 /\ at \in 1 .. Len(nodes)
        /\ decl' = decl /\ nodes' = nodes /\ installed' = installed /\ edges' = edges
    BY <1>0, <1>1, <1>8 DEF Scan, inputs, built
  <2>2. Doomed(decl)' = Doomed(decl) /\ Members(nodes)' = Members(nodes)
    BY <2>1 DEF Doomed, DoomClosed, Unusable, OnlyOptional, NodesOf, InstalledIn, PredsOf,
                RequiredOf, OptionalOf, Members
  <2>3. at' \in 1 .. (Len(nodes') + 1)  BY <1>0, <1>1, <2>1
  <2>4. ~Filtered'  BY <2>1 DEF Filtered
  <2>5. CASE candidate
    <3>1. removed' = removed \cup {m} /\ changed'  BY <1>8, <2>5 DEF Scan
    <3>2. /\ m \in NodesOf(decl)
          /\ \A k \in Modules : edges.req[k] = RequiredOf(decl, k) /\ Predecessors(k) = PredsOf(decl, k)
      <4>1. added = decl.found  BY <2>1 DEF BuildInv
      <4>2. m \in Members(nodes)  BY <1>1, <2>1 DEF Members
      <4> QED  BY <4>1, <4>2, GraphBuilt
    <3>3. m \in Modules  BY <1>2, <3>2
    <3>4. m \in Doomed(decl)
      <4>1. CASE IsOnlyOptional(m)
        <5>1. m \in Unusable(decl)
          BY <3>2, <3>3, <4>1 DEF IsOnlyOptional, OnlyOptional, Unusable
        <5> QED  BY <1>0, <5>1, DoomedClosed DEF DoomClosed
      <4>2. CASE IsMissingRequired(m)
        <5>1. RequiredOf(decl, m) \cap Doomed(decl) # {}
          BY <2>1, <3>2, <3>3, <4>2 DEF IsMissingRequired, FilterInv
        <5> QED  BY <1>0, <3>2, <5>1, DoomedClosed DEF DoomClosed
      <4> QED  BY <2>5, <4>1, <4>2
    <3>5. (Members(nodes) \ installed)' \subseteq removed'  BY <2>1, <2>2, <3>1 DEF FilterInv
    <3>6. removed' \subseteq Doomed(decl)'  BY <2>1, <2>2, <3>1, <3>4 DEF FilterInv
    <3> QED  BY <2>3, <2>4, <3>1, <3>5, <3>6 DEF FilterInv, FilterExact
  <2>6. CASE ~candidate
    <3>1. removed' = removed /\ changed' = changed  BY <1>8, <2>6 DEF Scan
    <3>2. ASSUME ~changed, NEW i \in 1 .. at
          PROVE  nodes[i] \in removed \/ ~(IsOnlyOptional(nodes[i]) \/ IsMissingRequired(nodes[i]))
      <4>1. CASE i = at  BY <2>6, <4>1
      <4>2. CASE i \in 1 .. (at - 1)  BY <2>1, <3>2, <4>2 DEF FilterInv
      <4> QED  BY <1>0, <4>1, <4>2
    <3>3. \A k : IsOnlyOptional(k)' = IsOnlyOptional(k) /\ IsMissingRequired(k)' = IsMissingRequired(k)
      BY <2>1, <3>1 DEF IsOnlyOptional, IsMissingRequired, Predecessors
    <3>4. 1 .. (at' - 1) = 1 .. at  BY <1>0, <2>1
    <3>5. (~changed => \A i \in 1 .. (at - 1) :
             nodes[i] \in removed \/ ~(IsOnlyOptional(nodes[i]) \/ IsMissingRequired(nodes[i])))'
      BY <2>1, <3>1, <3>2, <3>4 DEF IsOnlyOptional, IsMissingRequired, Predecessors
    <3>6. (Members(nodes) \ installed)' \subseteq removed' /\ removed' \subseteq Doomed(decl)'
      BY <2>1, <2>2, <3>1 DEF FilterInv
    <3> QED  BY <2>3, <2>4, <3>5, <3>6 DEF FilterInv, FilterExact
  <2> QED  BY <2>5, <2>6
<1>9. CASE ScanAgain
  <2>1. /\ pc = "filter" /\ pc' = "filter" /\ at' = 1 /\ decl' = decl /\ nodes' = nodes
        /\ installed' = installed /\ removed' = removed
    BY <1>9 DEF ScanAgain, inputs, built
  <2>2. Doomed(decl)' = Doomed(decl) /\ Members(nodes)' = Members(nodes)
    BY <2>1 DEF Doomed, DoomClosed, Unusable, OnlyOptional, NodesOf, InstalledIn, PredsOf,
                RequiredOf, OptionalOf, Members
  <2>3. at' \in 1 .. (Len(nodes') + 1) /\ 1 .. (at' - 1) = {}  BY <1>1, <2>1
  <2> QED  BY <2>1, <2>2, <2>3 DEF FilterInv, FilterExact, Filtered
<1>10. CASE EndFilter
  <2>1. removed = Doomed(decl)  BY <1>10, QuietPass DEF EndFilter
  <2>2. pc' \in {"circular", "sort"} /\ removed' = removed /\ decl' = decl
    BY <1>10 DEF EndFilter, inputs, filtered
  <2>3. Doomed(decl)' = Doomed(decl)
    BY <2>2 DEF Doomed, DoomClosed, Unusable, OnlyOptional, NodesOf, InstalledIn, PredsOf,
                RequiredOf, OptionalOf
  <2> QED  BY <2>1, <2>2, <2>3 DEF FilterInv, FilterExact
<1>11. ASSUME NEW m \in Modules, Emit(m) PROVE FilterInv'
  BY <1>3, <1>11 DEF Emit, Filtered, inputs, filtered
<1>12. CASE ReturnAll \/ StartPath \/ TargetNotFound \/ ReturnPath
  BY <1>3, <1>12 DEF ReturnAll, StartPath, TargetNotFound, ReturnPath, Filtered, inputs, filtered
<1>13. CASE UNCHANGED vars
  <2>1. /\ pc' = pc /\ decl' = decl /\ target' = target /\ nodes' = nodes /\ edges' = edges
        /\ installed' = installed /\ removed' = removed /\ at' = at /\ changed' = changed
    BY <1>13 DEF vars
  <2>2. Doomed(decl)' = Doomed(decl) /\ Filtered' = Filtered /\ Members(nodes)' = Members(nodes)
    BY <2>1 DEF Doomed, DoomClosed, Unusable, OnlyOptional, NodesOf, InstalledIn, PredsOf,
                RequiredOf, OptionalOf, Filtered, Members
  <2>3. (~changed => \A i \in 1 .. (at - 1) :
           nodes[i] \in removed \/ ~(IsOnlyOptional(nodes[i]) \/ IsMissingRequired(nodes[i])))'
         = (~changed => \A i \in 1 .. (at - 1) :
           nodes[i] \in removed \/ ~(IsOnlyOptional(nodes[i]) \/ IsMissingRequired(nodes[i])))
    BY <2>1 DEF IsOnlyOptional, IsMissingRequired, Predecessors
  <2>4. FilterExact'  BY <2>1, <2>2 DEF FilterInv, FilterExact
  <2> QED  BY <2>1, <2>2, <2>3, <2>4 DEF FilterInv
<1> QED
  BY <1>4, <1>5, <1>6, <1>7, <1>8, <1>9, <1>10, <1>11, <1>12, <1>13 DEF Next, Terminated

--------------------------------------------------------------------------------
(***************************************************************************)
(* Sorting.                                                                 *)
(***************************************************************************)

\* Each step of either sort keeps the order so far duplicate free and closed under predecessors.
LEMMA SortStep ==
  ASSUME TypeOK, BuildInv, FilterInv, SortInv, [Next]_vars
  PROVE  SortInv'
<1>0. decl \in Declaration /\ scope \subseteq Modules /\ order \in Seq(Modules)  BY DEF TypeOK
<1>1. ASSUME UNCHANGED << order, decl >>, pc' \in {"start", "build", "filter"},
             pc \in {"start", "build", "filter"}
      PROVE  SortInv'
  BY <1>1 DEF SortInv
<1>2. CASE StartBuild \/ EndBuild \/ Scan \/ ScanAgain
  BY <1>1, <1>2 DEF StartBuild, EndBuild, Scan, ScanAgain, inputs, sorted
<1>3. ASSUME NEW m \in Modules, AddModule(m) PROVE SortInv'
  BY <1>1, <1>3 DEF AddModule, inputs, sorted
<1>4. CASE ReturnUtils \/ ReturnAll \/ ReturnPath \/ TargetNotFound
  BY <1>4 DEF ReturnUtils, ReturnAll, ReturnPath, TargetNotFound, SortInv
<1>5. CASE EndFilter
  <2>1. removed = Doomed(decl)  BY <1>5, QuietPass DEF EndFilter
  <2>2. Members(nodes) = NodesOf(decl)
    <3>1. added = decl.found  BY <1>5 DEF EndFilter, BuildInv
    <3> QED  BY <3>1, GraphBuilt
  <2>3. scope' = Kept(decl) /\ decl' = decl /\ order' = << >>
    BY <1>5, <2>1, <2>2 DEF EndFilter, inputs, SortInv, Kept
  <2>4. ClosedScope(decl, scope')  BY <2>3 DEF ClosedScope
  <2>5. GreedyPrefix(decl, order', scope')
    BY <2>3 DEF GreedyPrefix
  <2>6. ClosedScope(decl', scope') /\ GreedyPrefix(decl', order', scope')  BY <2>3, <2>4, <2>5
  <2>7. pc' \in {"circular", "sort"}  BY <1>5 DEF EndFilter
  <2>8. ClosedScope(decl, scope)' /\ GreedyPrefix(decl, order, scope)'
    BY <2>6 DEF ClosedScope, GreedyPrefix, ReadyAfter, Emitted, LessThan, Kept, NodesOf,
                Doomed, DoomClosed, Unusable, OnlyOptional, InstalledIn, PredsOf, RequiredOf,
                OptionalOf
  <2> QED  BY <2>3, <2>7, <2>8 DEF SortInv
<1>6. ASSUME NEW m \in Modules, Emit(m) PROVE SortInv'
  <2>1. /\ pc \in {"sort", "sort_path"} /\ pc' = pc /\ scope' = scope /\ decl' = decl
        /\ order' = Append(order, m)
    BY <1>6 DEF Emit, inputs
  <2>2. GreedyPrefix(decl, order', scope)
    <3>1. ReadyAfter(decl, scope, Members(order)) = Ready
      <4>1. \A n \in scope : Predecessors(n) = PredsOf(decl, n)
        <5>1. added = decl.found  BY <2>1 DEF BuildInv
        <5> QED  BY <1>0, <5>1, GraphBuilt
      <4> QED  BY <4>1 DEF ReadyAfter, Ready
    <3>2. m \in Ready /\ \A n \in Ready : n # m => LessThan(m, n)  BY <1>6 DEF Emit
    <3>3. GreedyPrefix(decl, order, scope)  BY <2>1 DEF SortInv
    <3> HIDE DEF Ready
    <3> QED  BY <1>0, <2>1, <3>1, <3>2, <3>3, EmitGreedy
  <2>3. ClosedScope(decl', scope') /\ GreedyPrefix(decl', order', scope')
    BY <2>1, <2>2 DEF SortInv
  <2>4. ClosedScope(decl, scope)' /\ GreedyPrefix(decl, order, scope)'
    BY <2>3 DEF ClosedScope, GreedyPrefix, ReadyAfter, Emitted, LessThan, Kept, NodesOf,
                Doomed, DoomClosed, Unusable, OnlyOptional, InstalledIn, PredsOf, RequiredOf,
                OptionalOf
  <2> QED  BY <2>1, <2>4 DEF SortInv
<1>7. CASE StartPath
  <2> DEFINE preds == [k \in Modules |-> Predecessors(k)]
  <2>1. /\ pc = "sort" /\ pc' = "sort_path" /\ decl' = decl /\ order' = << >>
        /\ scope' = UpTo(scope, preds, target)
    BY <1>7 DEF StartPath, inputs
  <2>2. \A k \in scope : preds[k] = PredsOf(decl, k)
    <3>1. added = decl.found  BY <2>1 DEF BuildInv
    <3> QED  BY <1>0, <3>1, GraphBuilt
  <2>3. ClosedScope(decl, scope)  BY <2>1 DEF SortInv
  <2> HIDE DEF preds
  <2>4. ClosedScope(decl, scope')  BY <1>0, <2>1, <2>2, <2>3, PathClosed
  <2>5. GreedyPrefix(decl, order', scope')  BY <2>1 DEF GreedyPrefix
  <2>6. ClosedScope(decl', scope') /\ GreedyPrefix(decl', order', scope')  BY <2>1, <2>4, <2>5
  <2>7. ClosedScope(decl, scope)' /\ GreedyPrefix(decl, order, scope)'
    BY <2>6 DEF ClosedScope, GreedyPrefix, ReadyAfter, Emitted, LessThan, Kept, NodesOf,
                Doomed, DoomClosed, Unusable, OnlyOptional, InstalledIn, PredsOf, RequiredOf,
                OptionalOf
  <2> QED  BY <2>1, <2>7 DEF SortInv
<1>8. CASE UNCHANGED vars
  <2>1. pc' = pc /\ decl' = decl /\ scope' = scope /\ order' = order  BY <1>8 DEF vars
  <2>2. pc \in {"sort", "sort_path"} =>
          ClosedScope(decl', scope') /\ GreedyPrefix(decl', order', scope')
    BY <2>1 DEF SortInv
  <2>3. pc \in {"sort", "sort_path"} =>
          ClosedScope(decl, scope)' /\ GreedyPrefix(decl, order, scope)'
    BY <2>2 DEF ClosedScope, GreedyPrefix, ReadyAfter, Emitted, LessThan, Kept, NodesOf,
                Doomed, DoomClosed, Unusable, OnlyOptional, InstalledIn, PredsOf, RequiredOf,
                OptionalOf
  <2> QED  BY <2>1, <2>3 DEF SortInv
<1> QED
  BY <1>2, <1>3, <1>4, <1>5, <1>6, <1>7, <1>8 DEF Next, Terminated

--------------------------------------------------------------------------------
(***************************************************************************)
(* The order returned.                                                      *)
(***************************************************************************)

\* A step that ends in a returned order makes a sound plan, and no later step changes it.
LEMMA PlanStep ==
  ASSUME TypeOK, BuildInv, SortInv, PlanSound, [Next]_vars
  PROVE  PlanSound'
<1>0. decl \in Declaration /\ scope \subseteq Modules /\ order \in Seq(Modules)  BY DEF TypeOK
<1>1. CASE ReturnUtils
  BY <1>1 DEF ReturnUtils, PlanSound, inputs
<1>2. CASE pc' # "done"
  BY <1>2 DEF PlanSound
<1>3. CASE ReturnAll \/ ReturnPath
  <2>1. /\ pc \in {"sort", "sort_path"} /\ decl' = decl /\ target' = target
        /\ order' = << Utils >> \o WithoutUtils(order)
    BY <1>3 DEF ReturnAll, ReturnPath, inputs
  <2>2. target # Utils  BY <2>1 DEF BuildInv
  <2>3. SoundPlan(decl, order')  BY <1>0, <2>1, SoundFromSorted, GreedySorted DEF SortInv
  <2>4. SoundPlan(decl', order')  BY <2>1, <2>3
  <2>5. SoundPlan(decl, order)'
    BY <2>4 DEF SoundPlan, Before, Kept, NodesOf, Doomed, DoomClosed, Unusable,
                OnlyOptional, InstalledIn, PredsOf, RequiredOf, OptionalOf, Members
  <2> QED  BY <2>1, <2>2, <2>5 DEF PlanSound
<1>4. CASE StartBuild \/ EndBuild \/ Scan \/ ScanAgain \/ EndFilter \/ StartPath \/ TargetNotFound
  BY <1>2, <1>4 DEF StartBuild, EndBuild, Scan, ScanAgain, EndFilter, StartPath, TargetNotFound
<1>5. ASSUME NEW m \in Modules, AddModule(m) \/ Emit(m) PROVE PlanSound'
  BY <1>2, <1>5 DEF AddModule, Emit
<1>6. CASE UNCHANGED vars
  <2>1. pc' = pc /\ decl' = decl /\ target' = target /\ order' = order  BY <1>6 DEF vars
  <2>2. pc = "done" /\ target # Utils => SoundPlan(decl', order')  BY <2>1 DEF PlanSound
  <2>3. pc = "done" /\ target # Utils => SoundPlan(decl, order)'
    BY <2>2 DEF SoundPlan, Before, Kept, NodesOf, Doomed, DoomClosed, Unusable,
                OnlyOptional, InstalledIn, PredsOf, RequiredOf, OptionalOf, Members
  <2> QED  BY <2>1, <2>3 DEF PlanSound
<1> QED
  BY <1>1, <1>3, <1>4, <1>5, <1>6 DEF Next, Terminated

--------------------------------------------------------------------------------
(***************************************************************************)
(* The theorems.                                                            *)
(***************************************************************************)
LEMMA Initially == Init => IInv
<1> SUFFICES ASSUME Init PROVE IInv  OBVIOUS
<1>1. TypeOK
  <2>1. edges \in [req : [Modules -> SUBSET Modules], opt : [Modules -> SUBSET Modules]]
    BY DEF Init
  <2>2. decl \in Declaration  BY DeclarationsAssumption DEF Init
  <2>3. nodes \in Seq(Modules) /\ order \in Seq(Modules) /\ full \in Seq(Modules)  BY DEF Init
  <2>4. at \in Nat \ {0} /\ pc = "start" /\ target \in Targets  BY DEF Init
  <2>5. changed \in BOOLEAN  BY Zenon DEF Init
  <2>6. added = {} /\ installed = {} /\ removed = {} /\ scope = {}  BY DEF Init
  <2>7. {} \subseteq Modules  OBVIOUS
  <2> QED  BY <2>1, <2>2, <2>3, <2>4, <2>5, <2>6, <2>7 DEF TypeOK, Final
<1>2. BuildInv
  BY DEF Init, BuildInv, Members
<1>3. FilterInv
  BY DEF Init, FilterInv, FilterExact, Filtered
<1>4. SortInv /\ PlanSound
  BY DEF Init, SortInv, PlanSound
<1> QED  BY <1>1, <1>2, <1>3, <1>4 DEF IInv

\* So the invariant is inductive.
LEMMA Inductive == IInv /\ [Next]_vars => IInv'
  BY TypeStep, BuildStep, FilterStep, SortStep, PlanStep DEF IInv

\* The invariant holds in every reachable state of get_execution_order.
THEOREM PlannerInvariant == Spec => []IInv
  BY Initially, Inductive, PTL DEF Spec

\* Type correctness of get_execution_order for every declaration.
THEOREM TypeCorrect == Spec => []TypeOK
<1>1. IInv => TypeOK  BY DEF IInv
<1> QED  BY <1>1, PlannerInvariant, PTL

\* filter_graph removes exactly what it must, in whatever order it meets the
\* nodes.
THEOREM FilteringExact == Spec => []FilterExact
<1>1. IInv => FilterExact  BY DEF IInv, FilterInv
<1> QED  BY <1>1, PlannerInvariant, PTL

\* Every order get_execution_order returns can be set up front to back.
THEOREM PlansSound == Spec => []PlanSound
<1>1. IInv => PlanSound  BY DEF IInv
<1> QED  BY <1>1, PlannerInvariant, PTL
--------------------------------------------------------------------------------
(***************************************************************************)
(* What is sorted.                                                          *)
(***************************************************************************)

\* What is being sorted: everything that survives, or those of it up to the target.
ScopeInv ==
  /\ pc = "sort" => scope = Kept(decl)
  /\ pc = "sort_path" =>
       /\ target \in Kept(decl) /\ target # NoTarget
       /\ scope = UpTo(Kept(decl), [m \in Modules |-> PredsOf(decl, m)], target)

\* When filtering begins the graph is the declared one.
LEMMA GraphComplete ==
  ASSUME TypeOK, BuildInv, pc \in {"filter", "sort", "sort_path"}
  PROVE  /\ Members(nodes) = NodesOf(decl)
         /\ [m \in Modules |-> Predecessors(m)] = [m \in Modules |-> PredsOf(decl, m)]
         /\ target # Utils
<1>1. added = decl.found /\ target # Utils  BY DEF BuildInv
<1> QED  BY <1>1, GraphBuilt

\* What remains after filtering is what survives.
LEMMA FilterEnds ==
  ASSUME TypeOK, BuildInv, FilterInv, EndFilter
  PROVE  scope' = Kept(decl) /\ decl' = decl
<1>1. removed = Doomed(decl)  BY QuietPass DEF EndFilter
<1>2. Members(nodes) = NodesOf(decl)  BY GraphComplete DEF EndFilter
<1> QED  BY <1>1, <1>2 DEF EndFilter, inputs, Kept

\* A sort that has emitted its scope has emitted nothing else.
LEMMA SortEnds ==
  ASSUME TypeOK, BuildInv, SortInv, pc \in {"sort", "sort_path"}, scope \subseteq Members(order)
  PROVE  /\ Members(order) = scope
         /\ WithoutUtils(order) \in Seq(Modules)
         /\ Members(WithoutUtils(order)) = scope \ {Utils}
         /\ Members(<< Utils >> \o WithoutUtils(order)) = scope \cup {Utils}
         /\ SoundPlan(decl, << Utils >> \o WithoutUtils(order))
<1>1. decl \in Declaration /\ scope \subseteq Modules /\ order \in Seq(Modules)  BY DEF TypeOK
<1>2. /\ ClosedScope(decl, scope) /\ GreedyPrefix(decl, order, scope)
      /\ SortedPrefix(decl, order, scope)
  BY <1>1, GreedySorted DEF SortInv
<1>3. Members(order) = scope  BY <1>2 DEF SortedPrefix
<1>4. /\ WithoutUtils(order) \in Seq(Modules)
      /\ Members(WithoutUtils(order)) = scope \ {Utils}
  BY <1>1, <1>2, <1>3, WithoutUtilsProperties DEF SortedPrefix
<1>5. Members(<< Utils >>) = {Utils} /\ << Utils >> \in Seq(Modules)
  BY UtilsAssumption DEF Members
<1>6. Members(<< Utils >> \o WithoutUtils(order)) = scope \cup {Utils}
  <2> DEFINE first == << Utils >>
             rest == WithoutUtils(order)
  <2>1. first \in Seq(Modules) /\ rest \in Seq(Modules)  BY <1>4, <1>5
  <2> HIDE DEF first, rest
  <2>2. Members(first \o rest) = Members(first) \cup Members(rest)  BY <2>1, ConcatMembers
  <2> QED  BY <1>4, <1>5, <2>2 DEF first, rest
<1> QED  BY <1>1, <1>2, <1>3, <1>4, <1>6, SoundFromSorted

\* The target's sort starts over what survives up to the target.
LEMMA PathStarts ==
  ASSUME TypeOK, BuildInv, SortInv, ScopeInv, StartPath
  PROVE  /\ target \in Kept(decl) /\ target # NoTarget
         /\ scope' = UpTo(Kept(decl), [m \in Modules |-> PredsOf(decl, m)], target)
         /\ decl' = decl /\ target' = target
<1>1. scope = Kept(decl)  BY DEF StartPath, ScopeInv
<1>2. target \in scope  BY SortEnds DEF StartPath
<1>3. [m \in Modules |-> Predecessors(m)] = [m \in Modules |-> PredsOf(decl, m)]
  BY GraphComplete DEF StartPath
<1> QED  BY <1>1, <1>2, <1>3 DEF StartPath, inputs

\* Every step keeps the scope of the sort.
LEMMA ScopeStep ==
  ASSUME TypeOK, BuildInv, FilterInv, SortInv, ScopeInv, [Next]_vars
  PROVE  ScopeInv'
<1>1. CASE pc' \notin {"sort", "sort_path"}  BY <1>1 DEF ScopeInv
<1>2. CASE EndFilter
  <2>1. scope' = Kept(decl') /\ pc' # "sort_path"  BY <1>2, FilterEnds DEF EndFilter
  <2>2. scope' = Kept(decl)'
    BY <2>1 DEF Kept, NodesOf, Doomed, DoomClosed, Unusable, OnlyOptional, InstalledIn, PredsOf,
                RequiredOf, OptionalOf
  <2> QED  BY <2>1, <2>2 DEF ScopeInv
<1>3. CASE StartPath
  <2>1. /\ pc' = "sort_path" /\ target' \in Kept(decl') /\ target' # NoTarget
        /\ scope' = UpTo(Kept(decl'), [m \in Modules |-> PredsOf(decl', m)], target')
    BY <1>3, PathStarts DEF StartPath
  <2> QED
    BY <2>1 DEF ScopeInv, UpTo, Kept, NodesOf, Doomed, DoomClosed, Unusable, OnlyOptional,
                InstalledIn, PredsOf, RequiredOf, OptionalOf
<1>4. ASSUME UNCHANGED << pc, scope, decl, target >> PROVE ScopeInv'
  <2>1. /\ pc = "sort" => scope' = Kept(decl')
        /\ pc = "sort_path" =>
             /\ target' \in Kept(decl') /\ target' # NoTarget
             /\ scope' = UpTo(Kept(decl'), [m \in Modules |-> PredsOf(decl', m)], target')
    BY <1>4 DEF ScopeInv
  <2> QED
    BY <1>4, <2>1 DEF ScopeInv, UpTo, Kept, NodesOf, Doomed, DoomClosed, Unusable, OnlyOptional,
                InstalledIn, PredsOf, RequiredOf, OptionalOf
<1>5. ASSUME NEW m \in Modules, Emit(m) PROVE ScopeInv'  BY <1>4, <1>5 DEF Emit, inputs
<1>6. CASE UNCHANGED vars  BY <1>4, <1>6 DEF vars
<1>7. ASSUME NEW m \in Modules, AddModule(m) PROVE ScopeInv'  BY <1>1, <1>7 DEF AddModule
<1>8. CASE ReturnUtils \/ StartBuild \/ EndBuild \/ Scan \/ ScanAgain \/ ReturnAll \/ TargetNotFound
           \/ ReturnPath
  BY <1>1, <1>8 DEF ReturnUtils, StartBuild, EndBuild, Scan, ScanAgain, ReturnAll, TargetNotFound,
                    ReturnPath
<1> QED  BY <1>2, <1>3, <1>5, <1>6, <1>7, <1>8 DEF Next, Terminated

\* Both sorts run over what they should in every reachable state.
LEMMA ScopeInvariant == Spec => []ScopeInv
<1>1. Init => ScopeInv  BY DEF Init, ScopeInv
<1>2. IInv /\ ScopeInv /\ [Next]_vars => ScopeInv'  BY ScopeStep DEF IInv
<1> QED  BY <1>1, <1>2, PlannerInvariant, PTL DEF Spec

--------------------------------------------------------------------------------
(***************************************************************************)
(* The result: the reference planner's, and for a target the part of the     *)
(* whole order that it needs.                                               *)
(***************************************************************************)

\* What the sorts have established for the declaration d and the target t.
ResultFor(d, t) ==
  /\ pc \in {"sort", "sort_path"} => ~Cyclic(Kept(d), [m \in Modules |-> PredsOf(d, m)])
  /\ pc = "circular" => Cyclic(Kept(d), [m \in Modules |-> PredsOf(d, m)])
  /\ pc = "sort_path" => full = WithoutUtils(ReferenceOrder(d, Kept(d)))
  /\ pc \in Final => PlanFor(d, t) = IF pc = "done" THEN order ELSE << >>
  /\ (pc = "done" /\ t \notin {NoTarget, Utils}) => \A o, f, S :
       (o = order /\ f = full /\ S = scope) =>
         /\ Members(o) = {Utils} \cup (Members(f) \cap S)
         /\ \A m, n \in Members(f) \cap S : Before(o, m, n) <=> Before(f, m, n)

ResultInv == \A d, t : (d = decl /\ t = target) => ResultFor(d, t)

\* A sort that is over has emitted the reference planner's order of its scope.
LEMMA SortedAsReference ==
  ASSUME TypeOK, BuildInv, SortInv, pc \in {"sort", "sort_path"}, scope \subseteq Members(order)
  PROVE  /\ order \in Seq(Modules) /\ scope \in SUBSET Modules
         /\ GreedyPrefix(decl, order, scope) /\ Members(order) = scope
         /\ order = ReferenceOrder(decl, scope)
<1>1. order \in Seq(Modules) /\ scope \in SUBSET Modules  BY DEF TypeOK
<1>2. GreedyPrefix(decl, order, scope) /\ Members(order) = scope  BY SortEnds DEF SortInv
<1> QED  BY <1>1, <1>2, GreedyIsReference

\* Every step keeps the result.
LEMMA ResultStep ==
  ASSUME TypeOK, BuildInv, FilterInv, SortInv, ScopeInv, ResultInv, [Next]_vars
  PROVE  ResultInv'
<1> SUFFICES ASSUME NEW d, NEW t, d = decl', t = target' PROVE ResultFor(d, t)'
  BY DEF ResultInv
<1> DEFINE kept  == Kept(d)
           preds == [m \in Modules |-> PredsOf(d, m)]
           Path  == UpTo(kept, preds, t)
<1>1. d = decl /\ t = target
  BY DEF Next, Terminated, vars, inputs, ReturnUtils, StartBuild, AddModule, EndBuild, Scan,
       ScanAgain,
         EndFilter, Emit, ReturnAll, StartPath, TargetNotFound, ReturnPath
<1>2. d \in Declaration  BY <1>1 DEF TypeOK
<1>3. ResultFor(d, t)  BY <1>1 DEF ResultInv
<1>4. /\ pc \in {"filter", "sort", "sort_path"} => t # Utils
      /\ pc = "sort" => scope = kept
      /\ pc = "sort_path" => t \in kept /\ t # NoTarget /\ scope = Path
  BY <1>1, GraphComplete DEF ScopeInv
<1>5. ASSUME pc' \in {"start", "build", "filter"} PROVE ResultFor(d, t)'
  BY <1>5 DEF ResultFor, Final
<1>6. CASE StartBuild \/ EndBuild \/ Scan \/ ScanAgain
  BY <1>5, <1>6 DEF StartBuild, EndBuild, Scan, ScanAgain
<1>7. ASSUME NEW m \in Modules, AddModule(m) PROVE ResultFor(d, t)'
  BY <1>5, <1>7 DEF AddModule
<1>8. CASE ReturnUtils
  <2>1. PlanFor(d, t) = << Utils >>  BY <1>1, <1>8 DEF ReturnUtils, PlanFor
  <2> QED  BY <1>1, <1>8, <2>1 DEF ReturnUtils, ResultFor
<1>9. CASE EndFilter
  <2>1. scope' = kept /\ t # Utils
    BY <1>1, <1>4, <1>9, FilterEnds DEF EndFilter
  <2>2. [m \in Modules |-> Predecessors(m)] = preds  BY <1>1, <1>9, GraphComplete DEF EndFilter
  <2>3. pc' = IF Cyclic(kept, preds) THEN "circular" ELSE "sort"
    BY <1>9, <2>1, <2>2 DEF EndFilter
  <2>4. Cyclic(kept, preds) => PlanFor(d, t) = << >>  BY <2>1 DEF PlanFor
  <2> QED  BY <2>3, <2>4 DEF ResultFor, Final
<1>10. ASSUME NEW m \in Modules, Emit(m) PROVE ResultFor(d, t)'
  BY <1>3, <1>10 DEF Emit, ResultFor, Final
<1>11. CASE ReturnAll
  <2>1. order = ReferenceOrder(d, kept)
    BY <1>1, <1>4, <1>11, SortedAsReference DEF ReturnAll
  <2>2. ~Cyclic(kept, preds) /\ t # Utils /\ t = NoTarget
    BY <1>1, <1>3, <1>4, <1>11 DEF ReturnAll, ResultFor
  <2>3. PlanFor(d, t) = << Utils >> \o WithoutUtils(ReferenceOrder(d, kept))
    BY <2>2 DEF PlanFor
  <2>4. pc' = "done" /\ order' = << Utils >> \o WithoutUtils(order)  BY <1>11 DEF ReturnAll
  <2> QED  BY <2>1, <2>2, <2>3, <2>4 DEF ResultFor
<1>12. CASE StartPath
  <2>1. order = ReferenceOrder(d, kept)
    BY <1>1, <1>4, <1>12, SortedAsReference DEF StartPath
  <2>2. ~Cyclic(kept, preds)  BY <1>3, <1>12 DEF StartPath, ResultFor
  <2>3. pc' = "sort_path" /\ full' = WithoutUtils(order)  BY <1>12 DEF StartPath
  <2> QED  BY <2>1, <2>2, <2>3 DEF ResultFor, Final
<1>13. CASE TargetNotFound
  <2>1. t # Utils /\ t # NoTarget /\ t \notin kept
    BY <1>1, <1>4, <1>13, SortEnds DEF TargetNotFound
  <2>2. PlanFor(d, t) = << >>  BY <2>1 DEF PlanFor
  <2> QED  BY <1>13, <2>2 DEF TargetNotFound, ResultFor
<1>14. CASE ReturnPath
  <2>1. /\ t # Utils /\ t # NoTarget /\ t \in kept /\ scope = Path
        /\ ~Cyclic(kept, preds) /\ full = WithoutUtils(ReferenceOrder(d, kept))
    BY <1>3, <1>4, <1>14 DEF ReturnPath, ResultFor
  <2>2. /\ order \in Seq(Modules) /\ GreedyPrefix(d, order, Path) /\ Members(order) = Path
        /\ order = ReferenceOrder(d, Path)
    BY <1>1, <1>14, <2>1, SortedAsReference DEF ReturnPath
  <2>3. PlanFor(d, t) = << Utils >> \o WithoutUtils(ReferenceOrder(d, Path))
    BY <2>1 DEF PlanFor
  <2> DEFINE whole == ReferenceOrder(d, kept)
             returned == << Utils >> \o WithoutUtils(order)
  <2>4. kept \in SUBSET Modules  BY <1>2, DeclarationTypes DEF Kept
  <2>5. whole \in Seq(Modules) /\ GreedyPrefix(d, whole, kept) /\ Members(whole) = kept
    BY <2>1, <2>4, ReferenceIsGreedy
  <2>6. Path \in SUBSET kept /\ \A m \in Path : PredsOf(d, m) \cap kept \subseteq Path
    <3>1. ClosedScope(d, kept)  BY DEF ClosedScope
    <3>2. \A k \in kept : preds[k] = PredsOf(d, k)  BY <2>4
    <3> HIDE DEF kept, preds
    <3>3. ClosedScope(d, Path)  BY <1>2, <3>1, <3>2, PathClosed
    <3>4. Path \subseteq kept  BY DEF UpTo
    <3> QED  BY <3>3, <3>4 DEF ClosedScope, kept
  <2> HIDE DEF whole, Path
  <2>7. Members(full) = kept \ {Utils}
    <3>1. Injective(whole)  BY <2>5, GreedyInjective
    <3> QED  BY <2>1, <2>5, <3>1, WithoutUtilsProperties DEF whole
  <2>8. Members(returned) = {Utils} \cup (Members(full) \cap Path)
    <3>1. Members(returned) = Path \cup {Utils}  BY <1>14, <2>1, SortEnds DEF ReturnPath
    <3> QED  BY <2>6, <2>7, <3>1
  <2>9. ASSUME NEW m \in Members(full) \cap Path, NEW n \in Members(full) \cap Path
        PROVE  Before(returned, m, n) <=> Before(full, m, n)
    <3>1. m \in Path \ {Utils} /\ n \in Path \ {Utils}  BY <2>7
    <3>2. Before(returned, m, n) <=> Before(WithoutUtils(whole), m, n)
      BY <2>2, <2>4, <2>5, <2>6, <3>1, PlansAgree
    <3> QED  BY <2>1, <3>2 DEF whole
  <2>10. pc' = "done" /\ order' = returned /\ full' = full /\ scope' = Path
    BY <1>14, <2>1 DEF ReturnPath
  <2> HIDE DEF returned
  <2>11. PlanFor(d, t) = returned  BY <2>2, <2>3 DEF returned
  <2> QED  BY <2>8, <2>9, <2>10, <2>11 DEF ResultFor
<1>15. CASE UNCHANGED vars
  BY <1>3, <1>15 DEF vars, ResultFor
<1> QED
  BY <1>6, <1>7, <1>8, <1>9, <1>10, <1>11, <1>12, <1>13, <1>14, <1>15 DEF Next, Terminated

\* The result stands in every reachable state.
LEMMA ResultInvariant == Spec => []ResultInv
<1>1. Init => ResultInv  BY DEF Init, ResultInv, ResultFor, Final
<1>2. IInv /\ ScopeInv /\ ResultInv /\ [Next]_vars => ResultInv'  BY ResultStep DEF IInv
<1> QED  BY <1>1, <1>2, PlannerInvariant, ScopeInvariant, PTL DEF Spec

\* get_execution_order is a function of what is declared, what is installed and
\* the target: nothing of hash order reaches its result.
THEOREM ResultDeterministic == Spec => []Deterministic
<1>1. ResultInv => Deterministic  BY DEF ResultInv, ResultFor, Deterministic
<1> QED  BY <1>1, ResultInvariant, PTL

\* A target's order is the part of the whole order that the target needs.
THEOREM TargetsProject == Spec => []TargetIsProjection
<1>1. ResultInv => TargetIsProjection  BY DEF ResultInv, ResultFor, TargetIsProjection
<1> QED  BY <1>1, ResultInvariant, PTL

--------------------------------------------------------------------------------
(***************************************************************************)
(* The planning service of PlanService.tla is implemented.                  *)
(***************************************************************************)

\* The service's definitions are those of the graph.
LEMMA SameDefinitions ==
  /\ \A d : Service!Kept(d) = Kept(d)
  /\ \A d, s : Service!SoundPlan(d, s) = SoundPlan(d, s)
  /\ \A S, preds : Service!Cyclic(S, preds) = Cyclic(S, preds)
  /\ \A S, preds, m : Service!UpTo(S, preds, m) = UpTo(S, preds, m)
  /\ \A s : Service!Members(s) = Members(s)
  /\ \A d : Service!Preds(d) = [m \in Modules |-> PredsOf(d, m)]
  /\ Service!Declaration = Declaration
  BY DEF Service!Kept, Service!SoundPlan, Service!Cyclic, Service!UpTo, Service!Members,
       Service!Preds,
         Service!NodesOf, Service!Doomed, Service!DoomClosed, Service!Unusable, Service!OnlyOptional,
         Service!InstalledIn, Service!PredsOf, Service!RequiredOf, Service!OptionalOf, Service!Before,
         Service!Declaration, Declaration,
         Kept, SoundPlan, Cyclic, UpTo, Members, NodesOf, Doomed, DoomClosed, Unusable, OnlyOptional,
         InstalledIn, PredsOf, RequiredOf, OptionalOf, Before

\* Before the computation nothing has been answered.
LEMMA ServiceInitially == Init => Service!Init
  BY DeclarationsAssumption, SameDefinitions DEF Init, Service!Init

\* Every step answers, refuses, or leaves the question open.
LEMMA ServiceStep ==
  ASSUME TypeOK, BuildInv, FilterInv, SortInv, ScopeInv, [Next]_vars
  PROVE  [Service!Next]_(Service!vars)
<1> DEFINE Goal == [Service!Next]_(Service!vars)
           preds == [m \in Modules |-> PredsOf(decl, m)]
<1>1. ASSUME UNCHANGED << decl, target >>, pc \notin Final, pc' \notin Final PROVE Goal
  BY <1>1 DEF Final, Service!vars
<1>2. ASSUME UNCHANGED << decl, target >>, pc \notin Final, pc' = "done",
             target \in {Utils, NoTarget} \cup Kept(decl), SoundPlan(decl, order'),
             Members(order') = {Utils} \cup
               (IF target = Utils THEN {} ELSE IF target = NoTarget THEN Kept(decl)
                ELSE UpTo(Kept(decl), preds, target))
      PROVE  Goal
  <2>1. Service!Answer
    BY <1>2, SameDefinitions DEF Final, Service!Answer, Service!Wanted
  <2> QED  BY <2>1 DEF Service!Next
<1>3. ASSUME UNCHANGED << decl, target >>, pc \notin Final, pc' \in {"circular", "not_found"},
             target # Utils, Cyclic(Kept(decl), preds) \/ target \notin {NoTarget} \cup Kept(decl)
      PROVE  Goal
  <2>1. Service!Refuse
    BY <1>3, SameDefinitions DEF Final, Service!Refuse
  <2> QED  BY <2>1 DEF Service!Next
<1>4. CASE ReturnUtils
  <2>1. Members(<< Utils >>) = {Utils}  BY DEF Members
  <2>2. SoundPlan(decl, << Utils >>)  BY <2>1 DEF SoundPlan
  <2> QED  BY <1>2, <1>4, <2>1, <2>2 DEF ReturnUtils, Final, inputs
<1>5. CASE StartBuild \/ EndBuild \/ Scan \/ ScanAgain
  BY <1>1, <1>5 DEF StartBuild, EndBuild, Scan, ScanAgain, Final, inputs
<1>6. ASSUME NEW m \in Modules, AddModule(m) PROVE Goal
  BY <1>1, <1>6 DEF AddModule, Final, inputs
<1>7. CASE EndFilter
  <2>1. scope' = Kept(decl) /\ [m \in Modules |-> Predecessors(m)] = preds /\ target # Utils
    BY <1>7, FilterEnds, GraphComplete DEF EndFilter
  <2>2. pc' = IF Cyclic(Kept(decl), preds) THEN "circular" ELSE "sort"  BY <1>7, <2>1 DEF EndFilter
  <2>3. UNCHANGED << decl, target >> /\ pc = "filter"  BY <1>7 DEF EndFilter, inputs
  <2> HIDE DEF preds
  <2>4. CASE Cyclic(Kept(decl), preds)  BY <1>3, <2>1, <2>2, <2>3, <2>4 DEF Final
  <2>5. CASE ~Cyclic(Kept(decl), preds)  BY <1>1, <2>2, <2>3, <2>5 DEF Final
  <2> QED  BY <2>4, <2>5
<1>8. ASSUME NEW m \in Modules, Emit(m) PROVE Goal
  BY <1>1, <1>8 DEF Emit, Final, inputs
<1>9. CASE ReturnAll
  <2>1. scope = Kept(decl) /\ target # Utils /\ target = NoTarget
    BY <1>9, GraphComplete DEF ReturnAll, ScopeInv
  <2>2. SoundPlan(decl, order') /\ Members(order') = scope \cup {Utils}
    BY <1>9, SortEnds DEF ReturnAll
  <2>3. UNCHANGED << decl, target >> /\ pc = "sort" /\ pc' = "done"  BY <1>9 DEF ReturnAll, inputs
  <2> HIDE DEF preds
  <2> QED  BY <1>2, <2>1, <2>2, <2>3 DEF Final
<1>10. CASE StartPath
  BY <1>1, <1>10 DEF StartPath, Final, inputs
<1>11. CASE TargetNotFound
  <2>1. scope = Kept(decl) /\ target # Utils /\ target # NoTarget
    BY <1>11, GraphComplete DEF TargetNotFound, ScopeInv
  <2>2. target \notin scope  BY <1>11, <2>1, SortEnds DEF TargetNotFound
  <2>3. UNCHANGED << decl, target >> /\ pc = "sort" /\ pc' = "not_found"
    BY <1>11 DEF TargetNotFound, inputs
  <2> HIDE DEF preds
  <2> QED  BY <1>3, <2>1, <2>2, <2>3 DEF Final
<1>12. CASE ReturnPath
  <2>1. /\ scope = UpTo(Kept(decl), preds, target) /\ target \in Kept(decl)
        /\ target # Utils /\ target # NoTarget
    BY <1>12, GraphComplete DEF ReturnPath, ScopeInv
  <2>2. SoundPlan(decl, order') /\ Members(order') = scope \cup {Utils}
    BY <1>12, SortEnds DEF ReturnPath
  <2>3. UNCHANGED << decl, target >> /\ pc = "sort_path" /\ pc' = "done"
    BY <1>12 DEF ReturnPath, inputs
  <2> HIDE DEF preds
  <2> QED  BY <1>2, <2>1, <2>2, <2>3 DEF Final
<1>13. CASE UNCHANGED vars  BY <1>13 DEF vars, Service!vars
<1> QED
  BY <1>4, <1>5, <1>6, <1>7, <1>8, <1>9, <1>10, <1>11, <1>12, <1>13 DEF Next, Terminated

\* get_execution_order implements the planning service.
THEOREM ServiceImplemented == Spec => ImplementsPlanService
<1>1. Init => Service!Init  BY ServiceInitially
<1>2. IInv /\ ScopeInv /\ [Next]_vars => [Service!Next]_(Service!vars)  BY ServiceStep DEF IInv
<1> QED
  BY <1>1, <1>2, PlannerInvariant, ScopeInvariant, PTL DEF Spec, ImplementsPlanService, Service!Spec
================================================================================
