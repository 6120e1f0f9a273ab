--------------------------- MODULE RepositoryProofs ---------------------------
(***************************************************************************)
(* What the planner makes of the repository's own module files, whichever of *)
(* their packages are installed and whatever the target.                    *)
(***************************************************************************)
EXTENDS Repository, PlannerProofs

--------------------------------------------------------------------------------
(***************************************************************************)
(* The declarations.                                                        *)
(***************************************************************************)

\* What the module files declare, as the graph's edges.
LEMMA Edges ==
  ASSUME NEW I \in SUBSET Modules
  PROVE  LET d == RepoDeclaration(I) IN
         /\ d \in Declaration
         /\ NodesOf(d) = Modules /\ InstalledIn(d) = I
         /\ \A m \in Modules \ {"nova"} : RequiredOf(d, m) = RepoDeps[m] /\ PredsOf(d, m) = RepoDeps[m]
         /\ RequiredOf(d, "nova") = NovaDeps
         /\ PredsOf(d, "nova") = NovaDeps \cup NovaOptional
<1> DEFINE d == RepoDeclaration(I)
<1>1. ASSUME NEW m \in Modules
      PROVE  RepoDeps[m] \in SUBSET Modules /\ RepoOptional[m] \in SUBSET Modules
  BY RepositoryAssumption DEF RepoDeps, DependenciesOf, RepoOptional, CinderDeps, GlanceDeps,
     HeatDeps, KeystoneDeps, NeutronDeps, NovaDeps, NovaOptional, PlacementDeps, Leaves
<1>2. RepoDeps \in [Modules -> SUBSET Modules] /\ RepoOptional \in [Modules -> SUBSET Modules]
  BY <1>1 DEF RepoDeps, RepoOptional
<1>3. d \in Declaration  BY <1>2 DEF RepoDeclaration, Declaration
<1>4. ASSUME NEW m \in Modules
      PROVE  RequiredOf(d, m) = RepoDeps[m] \ RepoOptional[m] /\ OptionalOf(d, m) = RepoOptional[m]
  BY DEF RepoDeclaration, RequiredOf, OptionalOf
<1>5. ASSUME NEW m \in Modules, m # "nova" PROVE RepoOptional[m] = {}  BY <1>5 DEF RepoOptional
<1>6. /\ "nova" \in Modules /\ RepoDeps["nova"] = NovaDeps /\ RepoOptional["nova"] = NovaOptional
      /\ NovaDeps \cap NovaOptional = {}
  <2>1. "nova" \in Modules  BY RepositoryAssumption
  <2>2. RepoOptional["nova"] = NovaOptional  BY <2>1 DEF RepoOptional
  <2>3. RepoDeps["nova"] = NovaDeps
    <3>1. ASSUME NEW m \in Modules, m = "nova" PROVE RepoDeps[m] = NovaDeps  BY <3>1
      DEF RepoDeps, DependenciesOf, Leaves
    <3> QED  BY <2>1, <3>1
  <2>4. NovaDeps \cap NovaOptional = {}  BY DEF NovaDeps, NovaOptional
  <2> QED  BY <2>1, <2>2, <2>3, <2>4
<1>7. d.found = Modules /\ d.installed = I  BY DEF RepoDeclaration
<1>8. NodesOf(d) = Modules /\ InstalledIn(d) = I
  BY <1>3, <1>7, DeclarationTypes DEF NodesOf, InstalledIn
<1> HIDE DEF d
<1>9. \A m \in Modules \ {"nova"} : RequiredOf(d, m) = RepoDeps[m] /\ PredsOf(d, m) = RepoDeps[m]
  BY <1>4, <1>5 DEF PredsOf
<1>10. RequiredOf(d, "nova") = NovaDeps /\ PredsOf(d, "nova") = NovaDeps \cup NovaOptional
  BY <1>4, <1>6 DEF PredsOf
<1> QED  BY <1>3, <1>8, <1>9, <1>10 DEF d

\* The same, module by module.
LEMMA EdgeTable ==
  ASSUME NEW I \in SUBSET Modules
  PROVE  LET d == RepoDeclaration(I) IN
         /\ PredsOf(d, "cinder") = CinderDeps /\ RequiredOf(d, "cinder") = CinderDeps
         /\ PredsOf(d, "glance") = GlanceDeps /\ RequiredOf(d, "glance") = GlanceDeps
         /\ PredsOf(d, "heat") = HeatDeps /\ RequiredOf(d, "heat") = HeatDeps
         /\ PredsOf(d, "keystone") = KeystoneDeps /\ RequiredOf(d, "keystone") = KeystoneDeps
         /\ PredsOf(d, "neutron") = NeutronDeps /\ RequiredOf(d, "neutron") = NeutronDeps
         /\ PredsOf(d, "placement") = PlacementDeps /\ RequiredOf(d, "placement") = PlacementDeps
         /\ \A m \in Leaves : PredsOf(d, m) = {} /\ RequiredOf(d, m) = {}
<1> DEFINE d == RepoDeclaration(I)
<1>1. ASSUME NEW m \in Modules
      PROVE  /\ m = "cinder" => RepoDeps[m] = CinderDeps
             /\ m = "glance" => RepoDeps[m] = GlanceDeps
             /\ m = "heat" => RepoDeps[m] = HeatDeps
             /\ m = "keystone" => RepoDeps[m] = KeystoneDeps
             /\ m = "neutron" => RepoDeps[m] = NeutronDeps
             /\ m = "placement" => RepoDeps[m] = PlacementDeps
             /\ m \in Leaves => RepoDeps[m] = {}
  BY DEF RepoDeps, DependenciesOf, Leaves
<1>2. /\ {"cinder", "glance", "heat", "keystone", "neutron", "placement"} \subseteq Modules \ {"nova"}
      /\ Leaves \subseteq Modules \ {"nova"}
  BY RepositoryAssumption DEF Leaves
<1>3. \A m \in Modules \ {"nova"} : RequiredOf(d, m) = RepoDeps[m] /\ PredsOf(d, m) = RepoDeps[m]
  BY Edges
<1> HIDE DEF d
<1>4. \A m \in {"cinder", "glance", "heat", "keystone", "neutron", "placement"} \cup Leaves :
        RequiredOf(d, m) = RepoDeps[m] /\ PredsOf(d, m) = RepoDeps[m]
  BY <1>2, <1>3
<1> QED  BY <1>1, <1>2, <1>4 DEF d

\* Nothing the module files declare, in whatever part of it, is circular.
LEMMA NothingCircular ==
  ASSUME NEW I \in SUBSET Modules, NEW S \in SUBSET Modules
  PROVE  ~Cyclic(S, [m \in Modules |-> PredsOf(RepoDeclaration(I), m)])
<1> DEFINE d == RepoDeclaration(I)
<1> SUFFICES ASSUME NEW C \in SUBSET S, C # {}, \A m \in C : PredsOf(d, m) \cap C # {}
             PROVE  FALSE
  BY DEF Cyclic
<1>1. /\ PredsOf(d, "cinder") = CinderDeps
      /\ PredsOf(d, "glance") = GlanceDeps
      /\ PredsOf(d, "heat") = HeatDeps
      /\ PredsOf(d, "keystone") = KeystoneDeps
      /\ PredsOf(d, "neutron") = NeutronDeps
      /\ PredsOf(d, "placement") = PlacementDeps
      /\ \A m \in Leaves : PredsOf(d, m) = {}
  BY EdgeTable
<1>2. PredsOf(d, "nova") = NovaDeps \cup NovaOptional  BY Edges
<1>3. C \in SUBSET Modules  OBVIOUS
<1> HIDE DEF d
<1>4. Leaves \cap C = {}  BY <1>1
<1>5. "keystone" \notin C  BY <1>1, <1>4 DEF KeystoneDeps, Leaves
<1>6. {"glance", "placement", "cinder", "neutron"} \cap C = {}
  BY <1>1, <1>4, <1>5 DEF GlanceDeps, PlacementDeps, CinderDeps, NeutronDeps, Leaves
<1>7. "nova" \notin C  BY <1>2, <1>4, <1>5, <1>6 DEF NovaDeps, NovaOptional, Leaves
<1>8. "heat" \notin C  BY <1>1, <1>4, <1>5, <1>6, <1>7 DEF HeatDeps, Leaves
<1> QED  BY <1>3, <1>4, <1>5, <1>6, <1>7, <1>8, RepositoryAssumption DEF Leaves

\* ceph and cinder survive wherever nova does, once their packages are there.
LEMMA StorageSurvives ==
  ASSUME NEW I \in SUBSET Modules, {"ceph", "cinder"} \subseteq I,
         RequiredOf(RepoDeclaration(I), "nova") \cap Doomed(RepoDeclaration(I)) = {}
  PROVE  {"ceph", "cinder"} \subseteq Kept(RepoDeclaration(I))
<1> DEFINE d == RepoDeclaration(I)
           G == {"ceph", "cinder"}
<1>1. /\ d \in Declaration /\ NodesOf(d) = Modules /\ InstalledIn(d) = I
      /\ RequiredOf(d, "nova") = NovaDeps
  BY Edges
<1>2. /\ PredsOf(d, "ceph") = {} /\ RequiredOf(d, "ceph") = {}
      /\ PredsOf(d, "cinder") = CinderDeps /\ RequiredOf(d, "cinder") = CinderDeps
  BY EdgeTable DEF Leaves
<1>3. NovaDeps \cap Doomed(d) = {}  BY <1>1
<1> HIDE DEF d
<1>4. CinderDeps \cap Doomed(d) \subseteq G /\ CinderDeps # {}  BY <1>3 DEF CinderDeps, NovaDeps
<1>5. \A m \in G : /\ m \in InstalledIn(d) /\ ~OnlyOptional(d, m)
                   /\ RequiredOf(d, m) \cap Doomed(d) \subseteq G
  BY <1>1, <1>2, <1>4 DEF OnlyOptional
<1>6. G \in SUBSET NodesOf(d)  BY <1>1
<1> QED  BY <1>1, <1>5, <1>6, Survivors DEF d

\* nova survives once its own packages and those of what it requires are there.
LEMMA NovaSurvives ==
  ASSUME NEW I \in SUBSET Modules, NovaDeps \cup {"nova"} \subseteq I
  PROVE  "nova" \in Kept(RepoDeclaration(I))
<1> DEFINE d == RepoDeclaration(I)
           G == NovaDeps \cup {"nova"}
<1>1. /\ d \in Declaration /\ NodesOf(d) = Modules /\ InstalledIn(d) = I
      /\ RequiredOf(d, "nova") = NovaDeps
  BY Edges
<1>2. /\ PredsOf(d, "glance") = GlanceDeps /\ RequiredOf(d, "glance") = GlanceDeps
      /\ PredsOf(d, "keystone") = KeystoneDeps /\ RequiredOf(d, "keystone") = KeystoneDeps
      /\ PredsOf(d, "neutron") = NeutronDeps /\ RequiredOf(d, "neutron") = NeutronDeps
      /\ PredsOf(d, "placement") = PlacementDeps /\ RequiredOf(d, "placement") = PlacementDeps
      /\ \A m \in Leaves : PredsOf(d, m) = {} /\ RequiredOf(d, m) = {}
  BY EdgeTable
<1> HIDE DEF d
<1>3. ASSUME NEW m \in G
      PROVE  RequiredOf(d, m) \subseteq G /\ ~OnlyOptional(d, m)
  <2>1. CASE m = "nova"  BY <1>1, <2>1 DEF OnlyOptional, NovaDeps
  <2>2. CASE m \in Leaves  BY <1>2, <2>2 DEF OnlyOptional
  <2>3. CASE m \in {"glance", "keystone", "neutron", "placement"}
    BY <1>2, <2>3 DEF OnlyOptional, NovaDeps, GlanceDeps, KeystoneDeps, NeutronDeps, PlacementDeps
  <2> QED  BY <2>1, <2>2, <2>3 DEF NovaDeps, Leaves
<1>4. G \in SUBSET NodesOf(d) /\ \A m \in G : m \in InstalledIn(d)  BY <1>1
<1>5. \A m \in G : RequiredOf(d, m) \cap Doomed(d) \subseteq G  BY <1>3
<1>6. G \subseteq Kept(d)  BY <1>1, <1>3, <1>4, <1>5, Survivors
<1> QED  BY <1>6 DEF d

\* What a setup talks to, it declares, except for the storage nova looks for.
LEMMA UsesDeclared ==
  ASSUME NEW I \in SUBSET Modules, NEW m \in Modules, NEW s \in Uses(m, I)
  PROVE  /\ s \in PredsOf(RepoDeclaration(I), m) /\ s # "utils" /\ m \notin Leaves
         /\ \/ s \in RequiredOf(RepoDeclaration(I), m)
            \/ m = "nova" /\ s \in {"ceph", "cinder"} /\ {"ceph", "cinder"} \subseteq I
<1> DEFINE d == RepoDeclaration(I)
<1>1. /\ PredsOf(d, "cinder") = CinderDeps /\ RequiredOf(d, "cinder") = CinderDeps
      /\ PredsOf(d, "glance") = GlanceDeps /\ RequiredOf(d, "glance") = GlanceDeps
      /\ PredsOf(d, "heat") = HeatDeps /\ RequiredOf(d, "heat") = HeatDeps
      /\ PredsOf(d, "keystone") = KeystoneDeps /\ RequiredOf(d, "keystone") = KeystoneDeps
      /\ PredsOf(d, "neutron") = NeutronDeps /\ RequiredOf(d, "neutron") = NeutronDeps
      /\ PredsOf(d, "placement") = PlacementDeps /\ RequiredOf(d, "placement") = PlacementDeps
  BY EdgeTable
<1>2. RequiredOf(d, "nova") = NovaDeps /\ PredsOf(d, "nova") = NovaDeps \cup NovaOptional  BY Edges
<1> HIDE DEF d
<1>3. /\ m = "cinder" => s \in CinderUses
      /\ m = "glance" => s \in GlanceUses
      /\ m = "heat" => s \in HeatUses \cup HeatTempestUses
      /\ m = "keystone" => s \in KeystoneUses
      /\ m = "neutron" => s \in NeutronUses
      /\ m = "nova" => s \in NovaUses(I)
      /\ m = "placement" => s \in PlacementUses
      /\ m \notin Leaves
  BY DEF Uses, Leaves
<1>4. CASE m = "nova"
  BY <1>2, <1>3, <1>4 DEF NovaUses, NovaDeps, NovaOptional, Leaves, d
<1>5. CASE m \in {"cinder", "glance", "keystone"}
  BY <1>1, <1>3, <1>5 DEF CinderUses, CinderDeps, GlanceUses, GlanceDeps, KeystoneUses,
     KeystoneDeps, Leaves, d
<1>6. CASE m \in {"heat", "neutron", "placement"}
  BY <1>1, <1>3, <1>6 DEF HeatUses, HeatTempestUses, HeatDeps, NeutronUses, NeutronDeps,
     PlacementUses, PlacementDeps, Leaves, d
<1> QED  BY <1>3, <1>4, <1>5, <1>6, RepositoryAssumption DEF Leaves

--------------------------------------------------------------------------------
(***************************************************************************)
(* The theorems.                                                            *)
(***************************************************************************)

\* In every reachable state the declaration is the repository's.
LEMMA DeclarationOfRepository ==
  ASSUME TypeOK, decl \in Declarations
  PROVE  decl.installed \in SUBSET Modules /\ decl = RepoDeclaration(decl.installed)
  BY RepositoryAssumption DEF TypeOK, Declaration

\* The declarations planned from are the given ones.
LEMMA Given == Spec => [](decl \in Declarations)
<1>1. Init => decl \in Declarations  BY DEF Init
<1>2. decl \in Declarations /\ [Next]_vars => (decl \in Declarations)'
  BY DEF Next, Terminated, vars, inputs, ReturnUtils, StartBuild, AddModule, EndBuild, Scan,
       ScanAgain,
         EndFilter, Emit, ReturnAll, StartPath, TargetNotFound, ReturnPath
<1> QED  BY <1>1, <1>2, PTL DEF Spec

\* The modules as declared never end in the circular exception, whatever is
\* installed.
THEOREM RepositoryNeverCircular == Spec => []NeverCircular
<1>1. TypeOK /\ ResultInv /\ decl \in Declarations => NeverCircular
  <2> SUFFICES ASSUME TypeOK, ResultInv, decl \in Declarations, pc = "circular" PROVE FALSE
    BY DEF NeverCircular
  <2>1. Cyclic(Kept(decl), [m \in Modules |-> PredsOf(decl, m)])  BY DEF ResultInv, ResultFor
  <2>2. PICK I \in SUBSET Modules : decl = RepoDeclaration(I)  BY DeclarationOfRepository
  <2>3. Kept(decl) \in SUBSET Modules  BY DeclarationTypes DEF Kept, TypeOK
  <2> QED  BY <2>1, <2>2, <2>3, NothingCircular
<1> QED  BY <1>1, ResultInvariant, TypeCorrect, Given, PTL

\* Every service a planned module's setup talks to is set up before it.
THEOREM RepositoryServicesFirst == Spec => []ServicesPlannedFirst
<1>1. TypeOK /\ PlanSound /\ decl \in Declarations => ServicesPlannedFirst
  <2> SUFFICES ASSUME TypeOK, PlanSound, decl \in Declarations, pc = "done",
                      NEW m \in Members(order), NEW s \in Uses(m, decl.installed)
               PROVE  Before(order, s, m)
    BY DEF ServicesPlannedFirst
  <2> DEFINE I == decl.installed
             d == RepoDeclaration(I)
  <2>1. I \in SUBSET Modules /\ decl = d  BY DeclarationOfRepository
  <2>2. m \in Modules
    <3>1. order \in Seq(Modules)  BY DEF TypeOK
    <3> QED  BY <3>1 DEF Members
  <2>3. /\ s \in PredsOf(d, m) /\ s # "utils" /\ m \notin Leaves
        /\ \/ s \in RequiredOf(d, m)
           \/ m = "nova" /\ s \in {"ceph", "cinder"} /\ {"ceph", "cinder"} \subseteq I
    BY <2>1, <2>2, UsesDeclared
  <2>4. Utils = "utils" /\ m # Utils  BY <2>3, RepositoryAssumption DEF Leaves
  <2> HIDE DEF d, I
  <2>5. target # Utils
    <3>1. ASSUME target = Utils PROVE FALSE
      <4>1. order = << Utils >>  BY <3>1 DEF PlanSound
      <4> QED  BY <2>4, <4>1 DEF Members
    <3> QED  BY <3>1
  <2>6. SoundPlan(d, order)  BY <2>1, <2>5 DEF PlanSound
  <2>7. /\ RequiredOf(d, m) \cap Doomed(d) = {}
        /\ \A p \in PredsOf(d, m) \ {Utils} : p \in Kept(d) => Before(order, p, m)
    BY <2>4, <2>6 DEF SoundPlan
  <2>8. s \in Kept(d)
    <3>1. CASE s \in RequiredOf(d, m)
      <4>1. d \in Declaration /\ NodesOf(d) = Modules  BY <2>1, Edges DEF d
      <4>2. s \in Modules  BY <2>2, <2>3, <4>1, DeclarationTypes
      <4> QED  BY <2>7, <3>1, <4>1, <4>2 DEF Kept
    <3>2. CASE m = "nova" /\ s \in {"ceph", "cinder"} /\ {"ceph", "cinder"} \subseteq I
      BY <2>1, <2>7, <3>2, StorageSurvives DEF d
    <3> QED  BY <2>3, <3>1, <3>2
  <2> QED  BY <2>3, <2>4, <2>7, <2>8
<1> QED  BY <1>1, PlansSound, TypeCorrect, Given, PTL

\* Missing storage packages never keep nova out of the plan.
THEOREM RepositoryOptionalNeverBlocks == Spec => []OptionalNeverBlocks
<1>1. TypeOK /\ ResultInv /\ decl \in Declarations => OptionalNeverBlocks
  <2> SUFFICES ASSUME TypeOK, ResultInv, decl \in Declarations, pc = "done", target = NoTarget,
                      NovaDeps \cup {"nova"} \subseteq decl.installed
               PROVE  "nova" \in Members(order)
    BY DEF OptionalNeverBlocks
  <2> DEFINE I == decl.installed
             d == RepoDeclaration(I)
  <2>1. I \in SUBSET Modules /\ decl = d /\ d \in Declaration  BY DeclarationOfRepository, Edges
  <2>2. "nova" \in Kept(d)  BY <2>1, NovaSurvives
  <2> HIDE DEF d, I
  <2>3. PlanFor(d, NoTarget) = order  BY <2>1 DEF ResultInv, ResultFor, Final
  <2>4. ~Cyclic(Kept(d), [m \in Modules |-> PredsOf(d, m)])
    <3>1. Kept(d) \in SUBSET Modules  BY <2>1, DeclarationTypes DEF Kept
    <3> QED  BY <2>1, <3>1, NothingCircular DEF d
  <2>5. PlanFor(d, NoTarget) # << >>
    <3>1. PlanFor(d, NoTarget) = << Utils >> \o WithoutUtils(ReferenceOrder(d, Kept(d)))
      BY <2>4, UtilsAssumption, NoTargetAssumption DEF PlanFor
    <3>2. ReferenceOrder(d, Kept(d)) \in Seq(Modules) /\ Injective(ReferenceOrder(d, Kept(d)))
      <4>1. Kept(d) \in SUBSET Modules  BY <2>1, DeclarationTypes DEF Kept
      <4> QED  BY <2>4, <4>1, ReferenceIsGreedy, GreedyInjective
    <3>3. WithoutUtils(ReferenceOrder(d, Kept(d))) \in Seq(Modules)
      BY <3>2, WithoutUtilsProperties
    <3> QED  BY <3>1, <3>3, UtilsAssumption, ConcatProperties, LenProperties, EmptySeq
  <2>6. Members(order) = {Utils} \cup Kept(d)  BY <2>1, <2>3, <2>5, PlanForSound
  <2> QED  BY <2>2, <2>6
<1> QED  BY <1>1, ResultInvariant, TypeCorrect, Given, PTL
\* Every plan follows the files: whatever a planned module declares it requires is
\* planned before it.  This is what the setups' plans are assumed to be.
THEOREM PlansFollowFiles ==
  Spec => [](pc = "done" => \A m \in Members(order) : \A s \in DependenciesOf(m) :
                              Before(order, s, m))
<1>1. TypeOK /\ PlanSound /\ decl \in Declarations =>
        (pc = "done" => \A m \in Members(order) : \A s \in DependenciesOf(m) : Before(order, s, m))
  <2> SUFFICES ASSUME TypeOK, PlanSound, decl \in Declarations, pc = "done",
                      NEW m \in Members(order), NEW s \in DependenciesOf(m)
               PROVE  Before(order, s, m)
    OBVIOUS
  <2> DEFINE I == decl.installed
             d == RepoDeclaration(I)
  <2>1. I \in SUBSET Modules /\ decl = d  BY DeclarationOfRepository
  <2>2. m \in Modules
    <3>1. order \in Seq(Modules)  BY DEF TypeOK
    <3> QED  BY <3>1 DEF Members
  <2>3. m \notin Leaves /\ Utils = "utils" /\ m # Utils /\ s # Utils
    <3>1. m \notin Leaves  BY DEF DependenciesOf, Leaves
    <3>2. m \in Modules \ Leaves  BY <2>2, <3>1
    <3>3. m \in {"cinder", "glance", "heat", "keystone", "neutron", "nova", "placement"}
      BY <3>2, RepositoryAssumption DEF Leaves
    <3>4. s # "utils"
      BY <3>3 DEF DependenciesOf, Leaves, CinderDeps, GlanceDeps, HeatDeps, KeystoneDeps,
         NeutronDeps, NovaDeps, PlacementDeps
    <3> QED  BY <3>1, <3>3, <3>4, RepositoryAssumption
  <2>4. s \in RequiredOf(d, m)
    <3>1. RepoDeps[m] = DependenciesOf(m)  BY <2>2 DEF RepoDeps
    <3>2. CASE m = "nova"
      <4>1. DependenciesOf("nova") = NovaDeps  BY DEF DependenciesOf, Leaves
      <4> QED  BY <2>1, <3>2, <4>1, Edges
    <3>3. CASE m # "nova"  BY <2>1, <2>2, <3>1, <3>3, Edges
    <3> QED  BY <3>2, <3>3
  <2>5. d \in Declaration /\ NodesOf(d) = Modules  BY <2>1, Edges
  <2> HIDE DEF d, I
  <2>6. target # Utils
    <3>1. ASSUME target = Utils PROVE FALSE
      <4>1. order = << Utils >>  BY <3>1 DEF PlanSound
      <4> QED  BY <2>3, <4>1 DEF Members
    <3> QED  BY <3>1
  <2>7. SoundPlan(d, order)  BY <2>1, <2>6 DEF PlanSound
  <2>8. s \in Modules /\ s \in PredsOf(d, m)  BY <2>2, <2>4, <2>5, DeclarationTypes DEF PredsOf
  <2>9. s \in Kept(d)  BY <2>3, <2>4, <2>5, <2>7, <2>8 DEF SoundPlan, Kept
  <2> QED  BY <2>3, <2>7, <2>8, <2>9 DEF SoundPlan
<1> QED  BY <1>1, PlansSound, TypeCorrect, Given, PTL

\* What nova's setup() asks apt for is declared, requires nothing that is not
\* required by nova or asked for as well, and is required outright where it is
\* reached at all.  This is what is assumed of every module that asks.
THEOREM ProbesAsDeclared ==
  ASSUME NEW I \in SUBSET Modules, NEW p \in NovaOptional
  PROVE  LET d == RepoDeclaration(I) IN
         /\ p \in PredsOf(d, "nova")
         /\ RequiredOf(d, p) \subseteq RequiredOf(d, "nova") \cup NovaOptional
         /\ ~OnlyOptional(d, p)
<1> DEFINE d == RepoDeclaration(I)
<1>1. PredsOf(d, "nova") = NovaDeps \cup NovaOptional /\ RequiredOf(d, "nova") = NovaDeps  BY Edges
<1>2. /\ PredsOf(d, "cinder") = CinderDeps /\ RequiredOf(d, "cinder") = CinderDeps
      /\ PredsOf(d, "ceph") = {} /\ RequiredOf(d, "ceph") = {}
  BY EdgeTable DEF Leaves
<1> SUFFICES /\ p \in PredsOf(d, "nova")
             /\ RequiredOf(d, p) \subseteq RequiredOf(d, "nova") \cup NovaOptional
             /\ ~OnlyOptional(d, p)
  OBVIOUS
<1> HIDE DEF d
<1>3. CASE p = "cinder"
  BY <1>1, <1>2, <1>3 DEF OnlyOptional, CinderDeps, NovaDeps, NovaOptional
<1>4. CASE p = "ceph"  BY <1>1, <1>2, <1>4 DEF OnlyOptional, NovaOptional
<1> QED  BY <1>3, <1>4 DEF NovaOptional
================================================================================
