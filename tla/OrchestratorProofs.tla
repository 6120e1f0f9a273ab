-------------------------- MODULE OrchestratorProofs --------------------------
(***************************************************************************)
(* What the marks mean, for every set of modules, every sound planner, every *)
(* sequence of commands, failures, kills and package changes.                *)
(***************************************************************************)
EXTENDS Orchestrator, GraphProofs

--------------------------------------------------------------------------------
(***************************************************************************)
(* The inductive invariant.                                                 *)
(***************************************************************************)

\* The plan being worked through came from a sound planner.
PlanInv ==
  plan # << >> => plan = << Utils >> \/ \E d \in Databases : SoundPlan(Declared(d), plan)

\* While setup works through the plan, everything behind it has returned here
\* and is marked.
ProgressInv ==
  /\ (cmd = "setup" /\ pc \in {"loop", "setup", "apply", "mark"}) =>
       \A i \in DOMAIN plan : (i < at /\ plan[i] \in HasSetup) => plan[i] \in here \cap marks
  /\ pc \in {"setup", "apply", "mark"} =>
       cmd = "setup" /\ at \in DOMAIN plan /\ plan[at] \in HasSetup
  /\ pc = "mark" => plan[at] \in here \cap returned
  /\ pc \in {"plan", "prepare"} => at = 1
  /\ pc \in {"run", "fetch"} => cmd = "test"
  /\ (pc = "ok" /\ cmd = "setup") => Members(plan) \cap HasSetup \subseteq here \cap marks

\* A mark is only ever left by a setup() that returned, and test configures
\* only what is marked.
HistoryInv == marks \subseteq returned /\ configured \subseteq marks

IInv == TypeOK /\ PlanInv /\ ProgressInv /\ HistoryInv /\ MarksClosed

\* What has been raised is on its way out, or with stestr; and setup's plan, while
\* it is at work, holds the target.
OutcomeInv ==
  /\ raised => pc \in {"collect", "failed"} \/ (pc = "fetch" /\ failing)
  /\ plan # << >> => target \in {NoTarget} \cup Members(plan)
  /\ plan = << >> => pc \notin {"loop", "setup", "apply", "mark", "ok", "run", "fetch"}
  /\ cmd \in {"setup", "test"} <=> pc # "idle"
  /\ pc = "prepare" => cmd = "test"

--------------------------------------------------------------------------------
\* In a plan setup works through, a module's required dependencies come earlier.
LEMMA DependenciesEarlier ==
  ASSUME NEW s \in Seq(Modules), NEW i \in DOMAIN s,
         s = << Utils >> \/ \E d \in Databases : SoundPlan(Declared(d), s),
         NEW r \in RequiredBy(s[i])
  PROVE  \E j \in DOMAIN s : j < i /\ s[j] = r
<1>1. DOMAIN s = 1 .. Len(s) /\ Len(s) \in Nat /\ s[i] \in Modules
  BY LenProperties, ElementOfSeq
<1>2. s[i] # Utils  BY UtilsHasNoDependencies DEF RequiredBy
<1>3. CASE s = << Utils >>
  <2>1. i = 1 /\ s[1] = Utils  BY <1>1, <1>3
  <2> QED  BY <1>2, <2>1
<1>4. ASSUME NEW d \in Databases, SoundPlan(Declared(d), s)
      PROVE  \E j \in DOMAIN s : j < i /\ s[j] = r
  <2> DEFINE D == Declared(d)
             m == s[i]
  <2>1. m \in Members(s) \ {Utils}  BY <1>2 DEF Members
  <2>2. RequiredOf(D, m) = RequiredBy(m)  BY <1>1 DEF RequiredOf, RequiredBy, Declared
  <2>3. RequiredOf(D, m) \cap Doomed(D) = {} /\ r \in RequiredOf(D, m)
    BY <1>4, <2>1, <2>2 DEF SoundPlan
  <2>4. r \in PredsOf(D, m)  BY <2>3 DEF PredsOf
  <2>5. r \in Kept(D)
    <3>1. D.found = Modules  BY DEF Declared
    <3>2. r \in NodesOf(D)  BY <1>1, <2>4, <3>1 DEF NodesOf
    <3> QED  BY <2>3, <3>2 DEF Kept
  <2>6. CASE r = Utils
    <3>1. s[1] = Utils /\ 1 \in DOMAIN s  BY <1>1, <1>4 DEF SoundPlan
    <3>2. i # 1  BY <1>2, <3>1
    <3> QED  BY <1>1, <2>6, <3>1, <3>2
  <2>7. CASE r # Utils
    <3>1. Before(s, r, m)  BY <1>4, <2>1, <2>4, <2>5, <2>7 DEF SoundPlan
    <3>2. PICK j, k \in DOMAIN s : j < k /\ s[j] = r /\ s[k] = m  BY <3>1 DEF Before
    <3>3. k = i  BY <1>4, <3>2 DEF SoundPlan
    <3> QED  BY <3>2, <3>3
  <2> QED  BY <2>6, <2>7
<1> QED  BY <1>3, <1>4

\* While setup runs a module, or is about to mark it, the required dependencies
\* that have a setup() have returned in this process and are marked.
LEMMA DependenciesDone ==
  ASSUME TypeOK, PlanInv, ProgressInv, pc \in {"setup", "apply", "mark"}
  PROVE  RequiredBy(plan[at]) \cap HasSetup \subseteq here \cap marks
<1> SUFFICES ASSUME NEW r \in RequiredBy(plan[at]), r \in HasSetup PROVE r \in here \cap marks
  OBVIOUS
<1>1. plan \in Seq(Modules) /\ at \in DOMAIN plan /\ cmd = "setup"  BY DEF TypeOK, ProgressInv
<1>2. plan # << >>  BY <1>1
<1>3. PICK j \in DOMAIN plan : j < at /\ plan[j] = r
  BY <1>1, <1>2, DependenciesEarlier DEF PlanInv
<1> QED  BY <1>1, <1>3 DEF ProgressInv

--------------------------------------------------------------------------------
\* A fresh disk satisfies the invariant.
LEMMA Initially == Init => IInv
<1> SUFFICES ASSUME Init PROVE IInv  OBVIOUS
<1>1. TypeOK
  <2>1. failing \in BOOLEAN /\ raised \in BOOLEAN /\ silenced \in BOOLEAN  BY Zenon DEF Init
  <2> QED  BY <2>1 DEF Init, TypeOK
<1>2. PlanInv /\ ProgressInv /\ HistoryInv /\ MarksClosed
  BY DEF Init, PlanInv, ProgressInv, HistoryInv, MarksClosed
<1> QED  BY <1>1, <1>2 DEF IInv

\* A step that leaves the plan, the marks and the returned modules alone, and
\* does not enter or advance the loop, keeps everything but the types.
LEMMA QuietStep ==
  ASSUME PlanInv, ProgressInv, HistoryInv, MarksClosed,
         UNCHANGED << marks, returned, cmd, plan, at, here, configured >>,
         \/ pc' \in {"idle", "collect", "failed"}
         \/ pc' \in {"run", "fetch"} /\ cmd = "test"
         \/ pc' = pc
         \/ pc = "setup" /\ pc' = "apply"
         \/ pc = "prepare" /\ pc' = "plan"
  PROVE  PlanInv' /\ ProgressInv' /\ HistoryInv' /\ MarksClosed'
<1>1. PlanInv'
  <2>1. plan' = plan  OBVIOUS
  <2>2. plan' # << >> => plan' = << Utils >> \/ \E d \in Databases : SoundPlan(Declared(d), plan')
    BY <2>1 DEF PlanInv
  <2> QED  BY <2>2 DEF PlanInv
<1>2. ProgressInv'  BY DEF ProgressInv, Members
<1>3. HistoryInv' /\ MarksClosed'  BY DEF HistoryInv, MarksClosed
<1> QED  BY <1>1, <1>2, <1>3

\* Every step of a command, every exit and every package change keeps the types.
LEMMA TypeStep ==
  ASSUME TypeOK, ProgressInv, [Next]_vars
  PROVE  TypeOK'
<1> USE DEF TypeOK
<1>1. Read \in Databases  BY DEF Read
<1>2. ASSUME NEW c \in {"setup", "test"}, NEW t \in Targets \cup {NoTarget}, Start(c, t) PROVE TypeOK'
  <2>1. failing' \in BOOLEAN /\ raised' \in BOOLEAN /\ silenced' \in BOOLEAN
    BY <1>2, Zenon DEF Start
  <2> QED  BY <1>2, <2>1 DEF Start, disk
<1>3. CASE Plan
  <2>1. cache' \in Databases \cup {NoCache}  BY <1>1, <1>3 DEF Plan
  <2>2. plan' \in Seq(Modules)  BY <1>1, <1>3, PlanAssumption DEF Plan, Returnable
  <2>3. raised' \in BOOLEAN /\ failing' \in BOOLEAN /\ silenced' \in BOOLEAN
    BY <1>3, Zenon DEF Plan, Raise, history
  <2>4. pc' \in {"loop", "collect", "failed"}  BY <1>3 DEF Plan, Raise
  <2>5. UNCHANGED << db, marks, returned, cmd, target, at, here, linked, configured >>
    BY <1>3 DEF Plan, disk, args, history
  <2> QED  BY <2>1, <2>2, <2>3, <2>4, <2>5
<1>4. CASE BeginSetup
  BY <1>4 DEF BeginSetup, disk, args
<1>5. CASE Probe
  <2>1. plan[at] \in Modules  BY <1>5, ElementOfSeq, LenProperties DEF Probe, ProgressInv
  <2>2. linked' \subseteq Modules  BY <1>5, <2>1, OrchestratorAssumption DEF Probe
  <2>3. cache' \in Databases \cup {NoCache}  BY <1>1, <1>5 DEF Probe
  <2> QED  BY <1>5, <2>2, <2>3 DEF Probe, disk, args
<1>6. CASE SetupRaises
  <2>1. raised' \in BOOLEAN /\ failing' \in BOOLEAN /\ silenced' \in BOOLEAN
    BY <1>6, Zenon DEF SetupRaises, Raise, history
  <2> QED  BY <1>6, <2>1 DEF SetupRaises, Raise, disk, args, history
<1>7. CASE SetupReturns
  <2>1. plan[at] \in Modules  BY <1>7, ElementOfSeq, LenProperties DEF SetupReturns, ProgressInv
  <2> QED  BY <1>7, <2>1 DEF SetupReturns, args
<1>8. CASE Mark
  <2>1. plan[at] \in Modules  BY <1>8, ElementOfSeq, LenProperties DEF Mark, ProgressInv
  <2>2. raised' \in BOOLEAN /\ failing' \in BOOLEAN /\ silenced' \in BOOLEAN
    BY <1>8, Zenon DEF Mark, Raise, history
  <2>3. at' \in Nat \ {0} /\ marks' \subseteq Modules  BY <1>8, <2>1 DEF Mark
  <2>4. pc' \in {"loop", "collect", "failed"}  BY <1>8 DEF Mark, Raise
  <2>5. UNCHANGED << db, returned, cmd, target, cache, plan, here, linked, configured >>
    BY <1>8 DEF Mark, args, history
  <2> QED  BY <2>2, <2>3, <2>4, <2>5
<1>9. CASE EndSetup  BY <1>9 DEF EndSetup, disk, args, history
<1>10. CASE CollectLogs  BY <1>1, <1>10 DEF CollectLogs, disk, args, history
<1>11. CASE Prepare
  <2>1. raised' \in BOOLEAN /\ failing' \in BOOLEAN /\ silenced' \in BOOLEAN
    BY <1>11, Zenon DEF Prepare, Raise, history
  <2> QED  BY <1>11, <2>1 DEF Prepare, Raise, disk, args, history
<1>12. CASE Configure
  <2>1. at \in DOMAIN plan  BY <1>12, LenProperties DEF Configure
  <2>2. plan[at] \in Modules  BY <2>1, ElementOfSeq, LenProperties
  <2>3. raised' \in BOOLEAN /\ failing' \in BOOLEAN /\ silenced' \in BOOLEAN
    BY <1>12, Zenon DEF Configure, Raise
  <2>4. at' \in Nat \ {0}  BY <1>12 DEF Configure
  <2>5. configured' \subseteq Modules  BY <1>12, <2>2 DEF Configure
  <2>6. pc' \in {"loop", "collect", "failed"}  BY <1>12 DEF Configure, Raise
  <2>7. UNCHANGED << db, marks, returned, cmd, target, cache, plan, here, linked >>
    BY <1>12 DEF Configure, disk, args
  <2> QED  BY <2>3, <2>4, <2>5, <2>6, <2>7
<1>13. CASE ListTests
  <2>1. raised' \in BOOLEAN /\ failing' \in BOOLEAN /\ silenced' \in BOOLEAN
    BY <1>13, Zenon DEF ListTests, Raise, history
  <2> QED  BY <1>13, <2>1 DEF ListTests, Raise, disk, args, history
<1>14. CASE RunTests  BY <1>14 DEF RunTests, disk, args
<1>15. CASE FetchFailing  BY <1>15 DEF FetchFailing, disk, args, history
<1>16. CASE Exit
  <2>1. failing' \in BOOLEAN /\ raised' \in BOOLEAN /\ silenced' \in BOOLEAN
    BY <1>16, Zenon DEF Exit
  <2> QED  BY <1>16, <2>1 DEF Exit, disk
<1>17. CASE ChangePackages  BY <1>17 DEF ChangePackages, args, history
<1>18. CASE UNCHANGED vars  BY <1>18 DEF vars
<1>19. CASE Step
  BY <1>3, <1>4, <1>5, <1>6, <1>7, <1>8, <1>9, <1>10, <1>11, <1>12, <1>13, <1>14, <1>15,
       <1>19 DEF Step
<1>20. CASE Next  BY <1>2, <1>16, <1>17, <1>19, <1>20 DEF Next
<1> QED  BY <1>18, <1>20

\* Every step keeps the four parts about marks and order.
LEMMA InvStep ==
  ASSUME TypeOK, PlanInv, ProgressInv, HistoryInv, MarksClosed, [Next]_vars
  PROVE  PlanInv' /\ ProgressInv' /\ HistoryInv' /\ MarksClosed'
<1> DEFINE Goal == PlanInv' /\ ProgressInv' /\ HistoryInv' /\ MarksClosed'
<1>0. /\ plan \in Seq(Modules) /\ at \in Nat \ {0} /\ db \in Databases /\ Read \in Databases
      /\ DOMAIN plan = 1 .. Len(plan) /\ Len(plan) \in Nat
  BY LenProperties DEF TypeOK, Read
<1>1. ASSUME NEW c, NEW t, Start(c, t) PROVE Goal
  <2>1. plan' = << >> /\ pc' \in {"plan", "prepare"} /\ configured' = {}
        /\ marks' = marks /\ returned' = returned /\ at' = 1
    BY <1>1 DEF Start, disk
  <2> QED  BY <2>1 DEF PlanInv, ProgressInv, HistoryInv, MarksClosed
<1>2. CASE Plan
  <2>1. /\ marks' = marks /\ returned' = returned /\ configured' = configured /\ at' = at
        /\ here' = here /\ cmd' = cmd
        /\ pc' \in {"loop", "collect", "failed"} /\ pc = "plan"
    BY <1>2 DEF Plan, Raise, disk, history, args
  <2>2. PlanInv'
    <3>1. target \in Targets \cup {NoTarget}  BY DEF TypeOK
    <3>2. \E d \in Databases : plan' = PlanOf[<< d, target >>]  BY <1>0, <1>2 DEF Plan
    <3>3. plan' # << >> => plan' = << Utils >> \/ \E d \in Databases : SoundPlan(Declared(d), plan')
      BY <3>1, <3>2, PlanAssumption DEF Returnable
    <3> QED  BY <3>3 DEF PlanInv
  <2>3. ProgressInv'
    <3>1. at' = 1  BY <1>2, <2>1 DEF ProgressInv
    <3>2. plan' \in Seq(Modules)
      BY <1>0, <1>2, PlanAssumption DEF Plan, Returnable, TypeOK
    <3>3. \A i \in DOMAIN plan' : ~(i < at')  BY <3>1, <3>2, LenProperties
    <3> QED  BY <2>1, <3>1, <3>3 DEF ProgressInv
  <2>4. HistoryInv' /\ MarksClosed'  BY <2>1 DEF HistoryInv, MarksClosed
  <2> QED  BY <2>2, <2>3, <2>4
<1>3. CASE BeginSetup
  <2>1. /\ marks' = marks /\ returned' = returned /\ configured' = configured
        /\ here' = here /\ cmd' = cmd /\ plan' = plan
        /\ pc = "loop" /\ cmd = "setup" /\ at \in DOMAIN plan
        /\ \/ plan[at] \in HasSetup /\ pc' = "setup" /\ at' = at
           \/ plan[at] \notin HasSetup /\ at' = at + 1 /\ pc' = pc
    BY <1>0, <1>3 DEF BeginSetup, disk, args
  <2>2. PlanInv'  BY <2>1 DEF PlanInv
  <2>3. ASSUME plan[at] \in HasSetup PROVE ProgressInv'  BY <2>1, <2>3 DEF ProgressInv
  <2>4. ASSUME plan[at] \notin HasSetup PROVE ProgressInv'
    <3>1. \A i \in DOMAIN plan : i < at' => i < at \/ i = at  BY <1>0, <2>1, <2>4
    <3> QED  BY <2>1, <2>4, <3>1 DEF ProgressInv
  <2>5. HistoryInv' /\ MarksClosed'  BY <2>1 DEF HistoryInv, MarksClosed
  <2> QED  BY <2>2, <2>3, <2>4, <2>5
<1>4. CASE SetupReturns
  <2>1. /\ marks' = marks /\ configured' = configured /\ cmd' = cmd /\ plan' = plan /\ at' = at
        /\ pc = "apply" /\ pc' = "mark"
        /\ returned' = returned \cup {plan[at]} /\ here' = here \cup {plan[at]}
    BY <1>4 DEF SetupReturns, args
  <2>2. PlanInv' /\ HistoryInv' /\ MarksClosed'  BY <2>1 DEF PlanInv, HistoryInv, MarksClosed
  <2>3. ProgressInv'  BY <2>1 DEF ProgressInv
  <2> QED  BY <2>2, <2>3
<1>5. CASE Mark
  <2>1. /\ configured' = configured /\ cmd' = cmd /\ plan' = plan /\ here' = here
        /\ returned' = returned /\ pc = "mark"
        /\ \/ marks' = marks \cup {plan[at]} /\ at' = at + 1 /\ pc' = "loop"
           \/ marks' = marks /\ at' = at /\ pc' \in {"collect", "failed"}
    BY <1>5 DEF Mark, Raise, args, history
  <2>2. PlanInv' /\ HistoryInv'  BY <2>1 DEF PlanInv, HistoryInv, ProgressInv
  <2>3. MarksClosed'
    <3>1. RequiredBy(plan[at]) \cap HasSetup \subseteq marks  BY <2>1, DependenciesDone
    <3> QED  BY <2>1, <3>1 DEF MarksClosed
  <2>4. CASE pc' = "loop"
    <3>1. marks' = marks \cup {plan[at]} /\ at' = at + 1 /\ pc' = "loop"  BY <2>1, <2>4
    <3>2. at \in DOMAIN plan /\ \A i \in DOMAIN plan : i < at' => i < at \/ i = at
      BY <1>0, <2>1, <3>1 DEF ProgressInv
    <3>3. ProgressInv'  BY <2>1, <3>1, <3>2 DEF ProgressInv
    <3> QED  BY <2>2, <2>3, <3>3
  <2>5. CASE pc' \in {"collect", "failed"}
    <3>1. ProgressInv'  BY <2>5 DEF ProgressInv
    <3> QED  BY <2>2, <2>3, <3>1
  <2> QED  BY <2>1, <2>4, <2>5
<1>6. CASE EndSetup
  <2>1. /\ marks' = marks /\ returned' = returned /\ configured' = configured /\ here' = here
        /\ cmd' = cmd /\ plan' = plan /\ at' = at /\ pc = "loop" /\ cmd = "setup" /\ pc' = "ok"
        /\ \A i \in DOMAIN plan : i < at
    BY <1>0, <1>6 DEF EndSetup, disk, args, history
  <2>2. \A i \in DOMAIN plan : plan[i] \in HasSetup => plan[i] \in here \cap marks
    BY <2>1 DEF ProgressInv
  <2>3. Members(plan) \cap HasSetup \subseteq here \cap marks  BY <2>2 DEF Members
  <2>4. ProgressInv'  BY <2>1, <2>3 DEF ProgressInv, Members
  <2> QED  BY <2>1, <2>4 DEF PlanInv, HistoryInv, MarksClosed
<1>7. CASE Configure
  <2>1. /\ marks' = marks /\ returned' = returned /\ here' = here /\ cmd' = cmd /\ plan' = plan
        /\ cmd = "test" /\ pc' \in {"loop", "collect", "failed"}
        /\ configured' \subseteq configured \cup marks
    BY <1>7 DEF Configure, Raise, disk, args
  <2> QED  BY <2>1 DEF PlanInv, ProgressInv, HistoryInv, MarksClosed
<1>8. CASE Exit
  <2>1. plan' = << >> /\ pc' = "idle" /\ configured' = {} /\ marks' = marks /\ returned' = returned
    BY <1>8 DEF Exit, disk
  <2> QED  BY <2>1 DEF PlanInv, ProgressInv, HistoryInv, MarksClosed
<1>9. CASE FetchFailing
  <2>1. /\ marks' = marks /\ returned' = returned /\ configured' = configured /\ here' = here
        /\ cmd' = cmd /\ plan' = plan /\ pc' \in {"ok", "collect"} /\ cmd = "test"
    BY <1>9 DEF FetchFailing, disk, args, history, ProgressInv
  <2> QED  BY <2>1 DEF PlanInv, ProgressInv, HistoryInv, MarksClosed
<1>10. CASE Probe \/ SetupRaises \/ CollectLogs \/ Prepare \/ ListTests \/ RunTests \/ ChangePackages
  <2>1. UNCHANGED << marks, returned, cmd, plan, at, here, configured >>
    BY <1>10 DEF Probe, SetupRaises, CollectLogs, Prepare, ListTests, RunTests, ChangePackages,
                 disk, args, history
  <2>2. \/ pc' \in {"idle", "collect", "failed"}
        \/ pc' \in {"run", "fetch"} /\ cmd = "test"
        \/ pc' = pc
        \/ pc = "setup" /\ pc' = "apply"
        \/ pc = "prepare" /\ pc' = "plan"
    BY <1>10 DEF Probe, SetupRaises, CollectLogs, Prepare, ListTests, RunTests, ChangePackages,
         Raise,
                 ProgressInv
  <2> QED  BY <2>1, <2>2, QuietStep
<1>11. CASE UNCHANGED vars  BY <1>11, QuietStep DEF vars
<1>12. CASE Step
  BY <1>2, <1>3, <1>4, <1>5, <1>6, <1>7, <1>9, <1>10, <1>12 DEF Step
<1>13. CASE Next  BY <1>1, <1>8, <1>10, <1>12, <1>13 DEF Next
<1> QED  BY <1>11, <1>13

\* So the invariant is inductive.
LEMMA Inductive == IInv /\ [Next]_vars => IInv'
  BY TypeStep, InvStep DEF IInv

\* The invariant holds in every reachable state of the setup and test commands.
THEOREM OrchestratorInvariant == Spec => []IInv
  BY Initially, Inductive, PTL DEF Spec

--------------------------------------------------------------------------------
(***************************************************************************)
(* The theorems.                                                            *)
(***************************************************************************)

\* Type correctness of the commands' and the disk's variables.
THEOREM OrchestratorTypes == Spec => []TypeOK
<1>1. IInv => TypeOK  BY DEF IInv
<1> QED  BY <1>1, OrchestratorInvariant, PTL

\* The marks on disk always stand for whole stacks.
THEOREM MarksAlwaysClosed == Spec => []MarksClosed
<1>1. IInv => MarksClosed  BY DEF IInv
<1> QED  BY <1>1, OrchestratorInvariant, PTL

\* No setup() starts before those it depends on have returned in its process.
THEOREM SetupsInOrder == Spec => []SetupAfterDependencies
<1>1. IInv => SetupAfterDependencies
  BY DependenciesDone DEF IInv, SetupAfterDependencies
<1> QED  BY <1>1, OrchestratorInvariant, PTL

\* test configures tempest only for what has been set up with all it needs.
THEOREM ConfiguresBacked == Spec => []ConfiguredBacked
<1>1. IInv => ConfiguredBacked
  <2> SUFFICES ASSUME IInv, NEW m \in configured
               PROVE  ({m} \cup RequiredBy(m)) \cap HasSetup \subseteq returned
    BY DEF ConfiguredBacked
  <2>1. m \in marks /\ marks \subseteq returned  BY DEF IInv, HistoryInv
  <2>2. RequiredBy(m) \cap HasSetup \subseteq marks  BY <2>1 DEF IInv, MarksClosed
  <2> QED  BY <2>1, <2>2
<1> QED  BY <1>1, OrchestratorInvariant, PTL

--------------------------------------------------------------------------------
(***************************************************************************)
(* Integrations decided at run time, and the planner.                       *)
(***************************************************************************)

\* A plan with more in it than utils was made from the packages the process has
\* in its cache.
CacheInv == plan \notin {<< >>, << Utils >>} => cache \in Databases /\ SoundPlan(Declared(cache), plan)

\* A declaration of installed packages is one the planner takes.
LEMMA DeclaredType ==
  ASSUME NEW d \in Databases
  PROVE  /\ Declared(d) \in Declaration
         /\ NodesOf(Declared(d)) = Modules /\ InstalledIn(Declared(d)) = d
         /\ \A m \in Modules : /\ RequiredOf(Declared(d), m) = RequiredBy(m)
                               /\ PredsOf(Declared(d), m) = RequiredBy(m) \cup Optional[m]
<1> DEFINE D == Declared(d)
<1>1. d \subseteq Modules  BY OrchestratorAssumption
<1>2. D \in Declaration  BY <1>1, OrchestratorAssumption DEF Declared, Declaration
<1>3. D.found = Modules /\ D.installed = d /\ D.deps = Deps /\ D.optional = Optional
  BY DEF Declared
<1>4. \A m \in Modules : RequiredOf(D, m) = RequiredBy(m) /\ OptionalOf(D, m) = Optional[m]
  BY <1>3 DEF RequiredOf, OptionalOf, RequiredBy
<1>5. \A m \in Modules : PredsOf(D, m) = RequiredBy(m) \cup Optional[m]  BY <1>4 DEF PredsOf
<1>6. InstalledIn(D) = d  BY <1>1, <1>3 DEF InstalledIn
<1>7. NodesOf(D) = Modules  BY <1>2, <1>3, DeclarationTypes DEF NodesOf
<1> QED  BY <1>2, <1>4, <1>5, <1>6, <1>7

\* The modules a planned module finds installed are planned before it.
LEMMA ProbesEarlier ==
  ASSUME NEW d \in Databases, NEW s \in Seq(Modules), SoundPlan(Declared(d), s),
         NEW i \in DOMAIN s, Probes[s[i]] \subseteq d, NEW r \in Probes[s[i]]
  PROVE  \E j \in DOMAIN s : j < i /\ s[j] = r
<1> DEFINE D == Declared(d)
           m == s[i]
           G == Probes[m]
<1>1. DOMAIN s = 1 .. Len(s) /\ Len(s) \in Nat /\ m \in Modules /\ m \in Members(s)
  BY LenProperties, ElementOfSeq DEF Members
<1>2. G \subseteq Modules  BY <1>1, OrchestratorAssumption
<1>3. m # Utils
  <2>1. ASSUME m = Utils PROVE FALSE
    BY <1>1, <2>1, ProbesAssumption, UtilsHasNoDependencies
  <2> QED  BY <2>1
<1>4. /\ D \in Declaration /\ NodesOf(D) = Modules /\ InstalledIn(D) = d
      /\ \A n \in Modules : /\ RequiredOf(D, n) = RequiredBy(n)
                            /\ PredsOf(D, n) = RequiredBy(n) \cup Optional[n]
  BY DeclaredType
<1> HIDE DEF D
<1>5. /\ RequiredBy(m) \cap Doomed(D) = {}
      /\ \A p \in PredsOf(D, m) \ {Utils} : p \in Kept(D) => Before(s, p, m)
  BY <1>1, <1>3, <1>4 DEF SoundPlan, D
<1>6. G \subseteq Kept(D)
  <2>1. ASSUME NEW p \in G
        PROVE  /\ p \in InstalledIn(D) /\ ~OnlyOptional(D, p)
               /\ RequiredOf(D, p) \cap Doomed(D) \subseteq G
    <3>1. p \in Modules /\ p \in d  BY <1>2
    <3>2. /\ RequiredBy(p) \subseteq RequiredBy(m) \cup G
          /\ Optional[p] # {} => RequiredBy(p) # {}
      BY <1>1, ProbesAssumption
    <3>3. ~OnlyOptional(D, p)  BY <1>4, <3>1, <3>2 DEF OnlyOptional
    <3> QED  BY <1>4, <1>5, <3>1, <3>2, <3>3
  <2>2. G \in SUBSET NodesOf(D)  BY <1>2, <1>4
  <2> QED  BY <1>4, <2>1, <2>2, Survivors
<1>7. r \in PredsOf(D, m)  BY <1>1, <1>4, ProbesAssumption DEF RequiredBy
<1>8. CASE r = Utils
  <2>1. s[1] = Utils /\ 1 \in DOMAIN s  BY <1>1 DEF SoundPlan
  <2>2. i # 1  BY <1>3, <2>1
  <2> QED  BY <1>1, <1>8, <2>1, <2>2
<1>9. CASE r # Utils
  <2>1. Before(s, r, m)  BY <1>5, <1>6, <1>7, <1>9
  <2>2. PICK j, k \in DOMAIN s : j < k /\ s[j] = r /\ s[k] = m  BY <2>1 DEF Before
  <2>3. k = i  BY <2>2 DEF SoundPlan
  <2> QED  BY <2>2, <2>3
<1> QED  BY <1>8, <1>9

\* The plan stays the cache's: nothing reads the packages anew in a process.
LEMMA CacheStep ==
  ASSUME TypeOK, CacheInv, [Next]_vars
  PROVE  CacheInv'
<1> SUFFICES ASSUME plan' \notin {<< >>, << Utils >>}
             PROVE  cache' \in Databases /\ SoundPlan(Declared(cache'), plan')
  BY DEF CacheInv, SoundPlan, Before, Members, Declared, Kept, NodesOf, Doomed, DoomClosed,
       Unusable,
         OnlyOptional, InstalledIn, PredsOf, RequiredOf, OptionalOf
<1>1. ASSUME plan' = plan, cache' \in {cache, Read}
      PROVE  cache' \in Databases /\ SoundPlan(Declared(cache'), plan')
  <2>1. cache \in Databases /\ SoundPlan(Declared(cache), plan)  BY <1>1 DEF CacheInv
  <2>2. cache' = cache  BY <1>1, <2>1, OrchestratorAssumption DEF Read
  <2> QED  BY <1>1, <2>1, <2>2
<1>2. ASSUME NEW c, NEW t, Start(c, t) PROVE FALSE  BY <1>2 DEF Start
<1>3. CASE Plan
  <2>1. Read \in Databases /\ db \in Databases /\ target \in Targets \cup {NoTarget}
    BY DEF TypeOK, Read
  <2>2. CASE target = Utils
    <3>1. Returnable(db, target, plan')  BY <1>3, <2>1, <2>2, PlanAssumption DEF Plan
    <3> QED  BY <2>2, <3>1 DEF Returnable
  <2>3. CASE target # Utils
    <3>1. cache' = Read /\ plan' = PlanOf[<< Read, target >>]  BY <1>3, <2>3 DEF Plan
    <3>2. Returnable(Read, target, plan')  BY <2>1, <3>1, PlanAssumption
    <3> QED  BY <2>1, <2>3, <3>1, <3>2 DEF Returnable
  <2> QED  BY <2>2, <2>3
<1>4. CASE Probe  BY <1>1, <1>4 DEF Probe
<1>5. CASE CollectLogs  BY <1>1, <1>5 DEF CollectLogs
<1>6. CASE BeginSetup \/ SetupRaises \/ SetupReturns \/ Mark \/ EndSetup
  BY <1>1, <1>6 DEF BeginSetup, SetupRaises, SetupReturns, Mark, EndSetup
<1>7. CASE Prepare \/ Configure \/ ListTests \/ RunTests \/ FetchFailing
  BY <1>1, <1>7 DEF Prepare, Configure, ListTests, RunTests, FetchFailing
<1>8. CASE Exit  BY <1>8 DEF Exit
<1>9. CASE ChangePackages  BY <1>1, <1>9 DEF ChangePackages
<1>10. CASE UNCHANGED vars  BY <1>1, <1>10 DEF vars
<1> QED  BY <1>2, <1>3, <1>4, <1>5, <1>6, <1>7, <1>8, <1>9, <1>10 DEF Next, Step

\* What a setup links with is decided in Probe, of modules behind it in the plan.
LEMMA LinkedStep ==
  ASSUME TypeOK, ProgressInv, CacheInv, IntegrationBacked, [Next]_vars
  PROVE  IntegrationBacked'
<1>1. ASSUME linked' = linked, here \subseteq here' PROVE IntegrationBacked'
  BY <1>1 DEF IntegrationBacked
<1>2. ASSUME linked' = {} PROVE IntegrationBacked'  BY <1>2 DEF IntegrationBacked
<1>3. CASE Probe
  <2>1. /\ plan \in Seq(Modules) /\ at \in DOMAIN plan /\ cmd = "setup" /\ pc = "setup"
        /\ DOMAIN plan = 1 .. Len(plan) /\ plan[at] \in Modules
    BY <1>3, LenProperties, ElementOfSeq DEF Probe, TypeOK, ProgressInv
  <2>2. here' = here  BY <1>3 DEF Probe
  <2> SUFFICES ASSUME NEW r \in linked', r \in HasSetup PROVE r \in here
    BY <2>2 DEF IntegrationBacked
  <2>3. r \in Probes[plan[at]] /\ Probes[plan[at]] \subseteq cache'  BY <1>3 DEF Probe
  <2>4. plan \notin {<< >>, << Utils >>}
    <3>1. ASSUME plan = << Utils >> PROVE FALSE
      <4>1. plan[at] = Utils  BY <2>1, <3>1
      <4> QED  BY <2>1, <2>3, <4>1, ProbesAssumption, UtilsHasNoDependencies
    <3> QED  BY <2>1, <3>1
  <2>5. cache \in Databases /\ SoundPlan(Declared(cache), plan)  BY <2>4 DEF CacheInv
  <2>6. cache' = cache
    <3>1. cache # NoCache  BY <2>5, OrchestratorAssumption
    <3> QED  BY <1>3, <3>1 DEF Probe, Read
  <2>7. PICK j \in DOMAIN plan : j < at /\ plan[j] = r
    BY <2>1, <2>3, <2>5, <2>6, ProbesEarlier
  <2> QED  BY <2>1, <2>7 DEF ProgressInv
<1>4. ASSUME NEW c, NEW t, Start(c, t) PROVE IntegrationBacked'  BY <1>2, <1>4 DEF Start
<1>5. CASE BeginSetup \/ Exit  BY <1>2, <1>5 DEF BeginSetup, Exit
<1>6. CASE Plan \/ SetupRaises \/ SetupReturns \/ Mark \/ EndSetup \/ CollectLogs
  BY <1>1, <1>6 DEF Plan, SetupRaises, SetupReturns, Mark, EndSetup, CollectLogs, history
<1>7. CASE Prepare \/ Configure \/ ListTests \/ RunTests \/ FetchFailing
  BY <1>1, <1>7 DEF Prepare, Configure, ListTests, RunTests, FetchFailing, history
<1>8. CASE ChangePackages  BY <1>1, <1>8 DEF ChangePackages, history
<1>9. CASE UNCHANGED vars  BY <1>1, <1>9 DEF vars
<1> QED  BY <1>3, <1>4, <1>5, <1>6, <1>7, <1>8, <1>9 DEF Next, Step

\* A setup() that integrates with modules it finds installed finds them set up by
\* its own process, whatever dpkg has done since the plan was made.
THEOREM IntegrationsBacked == Spec => []IntegrationBacked
<1>1. Init => CacheInv /\ IntegrationBacked  BY DEF Init, CacheInv, IntegrationBacked
<1>2. IInv /\ CacheInv /\ IntegrationBacked /\ [Next]_vars => (CacheInv /\ IntegrationBacked)'
  BY CacheStep, LinkedStep DEF IInv
<1> QED  BY <1>1, <1>2, OrchestratorInvariant, PTL DEF Spec

\* The reference planner, which get_execution_order follows whatever it is given,
\* is a planner the commands may run on: what PlanAssumption asks of PlanOf holds
\* of PlanFor.
THEOREM PlannerReturnable ==
  ASSUME NEW d \in Databases, NEW t \in Targets \cup {NoTarget}
  PROVE  Returnable(d, t, PlanFor(Declared(d), t))
<1> DEFINE D == Declared(d)
           p == PlanFor(D, t)
<1>1. D \in Declaration  BY DeclaredType
<1> HIDE DEF D
<1>2. p # << >> => /\ p \in Seq(Modules)
                   /\ t = Utils => p = << Utils >>
                   /\ t # Utils => SoundPlan(D, p)
                   /\ t \in {NoTarget} \cup Members(p)
  BY <1>1, PlanForSound
<1>3. << >> \in Seq(Modules)  OBVIOUS
<1> HIDE DEF p
<1>4. Returnable(d, t, p)  BY <1>2, <1>3 DEF Returnable, D
<1> QED  BY <1>4 DEF p, D

--------------------------------------------------------------------------------
(***************************************************************************)
(* Outcomes, and the ledger.                                                *)
(***************************************************************************)

\* Every step keeps what is known of the outcome.
LEMMA OutcomeStep ==
  ASSUME TypeOK, ProgressInv, OutcomeInv, [Next]_vars
  PROVE  OutcomeInv'
<1> USE DEF OutcomeInv
<1>1. ASSUME NEW c \in {"setup", "test"}, NEW t, Start(c, t) PROVE OutcomeInv'
  BY <1>1 DEF Start
<1>2. CASE Plan
  <2>1. target \in Targets \cup {NoTarget} /\ Read \in Databases /\ db \in Databases
    BY DEF TypeOK, Read
  <2>2. plan' # << >> => target \in {NoTarget} \cup Members(plan')
    BY <1>2, <2>1, PlanAssumption DEF Plan, Returnable
  <2>3. /\ cmd' = cmd /\ target' = target /\ pc = "plan"
        /\ plan' = << >> => pc' \in {"collect", "failed"}
        /\ plan' # << >> => pc' = "loop" /\ raised' = raised
    BY <1>2 DEF Plan, Raise, args
  <2> QED  BY <2>2, <2>3
<1>3. CASE BeginSetup  BY <1>3 DEF BeginSetup, args
<1>4. CASE Probe  BY <1>4 DEF Probe, args
<1>5. CASE SetupRaises  BY <1>5 DEF SetupRaises, Raise, args
<1>6. CASE SetupReturns  BY <1>6 DEF SetupReturns, args
<1>7. CASE Mark  BY <1>7 DEF Mark, Raise, args
<1>8. CASE EndSetup  BY <1>8 DEF EndSetup, args
<1>9. CASE CollectLogs  BY <1>9 DEF CollectLogs, args
<1>10. CASE Prepare  BY <1>10 DEF Prepare, Raise, args
<1>11. CASE Configure  BY <1>11 DEF Configure, Raise, args
<1>12. CASE ListTests  BY <1>12 DEF ListTests, Raise, args
<1>13. CASE RunTests  BY <1>13 DEF RunTests, args
<1>14. CASE FetchFailing  BY <1>14 DEF FetchFailing, args
<1>15. CASE Exit  BY <1>15 DEF Exit
<1>16. CASE ChangePackages  BY <1>16 DEF ChangePackages, args
<1>17. CASE UNCHANGED vars  BY <1>17 DEF vars
<1>18. CASE Step
  BY <1>2, <1>3, <1>4, <1>5, <1>6, <1>7, <1>8, <1>9, <1>10, <1>11, <1>12, <1>13, <1>14, <1>18
    DEF Step
<1>19. CASE Next  BY <1>1, <1>15, <1>16, <1>18, <1>19 DEF Next
<1> QED  BY <1>17, <1>19

\* What is known of the outcome holds in every reachable state.
LEMMA OutcomeInvariant == Spec => []OutcomeInv
<1>1. Init => OutcomeInv  BY DEF Init, OutcomeInv
<1>2. IInv /\ OutcomeInv /\ [Next]_vars => OutcomeInv'  BY OutcomeStep DEF IInv
<1> QED  BY <1>1, <1>2, OrchestratorInvariant, PTL DEF Spec

\* No command that has raised, or has a failing test on record, reports success.
THEOREM FailuresSurface == Spec => []FailureSurfaces
<1>1. OutcomeInv => FailureSurfaces  BY DEF OutcomeInv, FailureSurfaces
<1> QED  BY <1>1, OutcomeInvariant, PTL

\* A setup that succeeds has set up and marked all the target stands on.
THEOREM SuccessesComplete == Spec => []SuccessIsComplete
<1>1. IInv /\ OutcomeInv => SuccessIsComplete
  BY NoTargetAssumption DEF IInv, ProgressInv, OutcomeInv, SuccessIsComplete
<1> QED  BY <1>1, OrchestratorInvariant, OutcomeInvariant, PTL

\* An initial state is one of the ledger's.
LEMMA LedgerInitially == Init => TheLedger!Init
  BY DEF Init, TheLedger!Init

\* Every step is a step of the ledger or leaves it alone.
LEMMA LedgerStep ==
  ASSUME TypeOK, PlanInv, ProgressInv, OutcomeInv, OutcomeInv', [Next]_vars
  PROVE  [TheLedger!Next]_(TheLedger!vars)
<1> DEFINE outcome == IF pc \in {"idle", "ok", "failed"} THEN pc ELSE "running"
           Goal == [TheLedger!Next]_(TheLedger!vars)
<1>1. ASSUME marks' = marks, cmd' = cmd, target' = target, configured' = configured,
             outcome' = outcome
      PROVE  Goal
  BY <1>1 DEF TheLedger!vars
<1>2. ASSUME marks' = marks, cmd' = cmd, target' = target, configured' = configured,
             outcome = "running", outcome' = "failed"
      PROVE  Goal
  BY <1>2 DEF TheLedger!Next, TheLedger!Fail
<1>3. ASSUME NEW c \in {"setup", "test"}, NEW t \in Targets \cup {NoTarget}, Start(c, t) PROVE Goal
  <2>1. TheLedger!Begin  BY <1>3 DEF Start, disk, TheLedger!Begin
  <2> QED  BY <2>1 DEF TheLedger!Next
<1>4. CASE Exit
  <2>1. TheLedger!End  BY <1>4 DEF Exit, disk, TheLedger!End
  <2> QED  BY <2>1 DEF TheLedger!Next
<1>5. CASE Mark /\ pc' = "loop"
  <2>1. /\ pc = "mark" /\ cmd = "setup" /\ plan[at] \in HasSetup /\ plan[at] \in Modules
        /\ RequiredBy(plan[at]) \cap HasSetup \subseteq marks
    BY <1>5, DependenciesDone, OrchestratorAssumption DEF Mark, ProgressInv
  <2>2. /\ marks' = marks \cup {plan[at]} /\ outcome = "running" /\ outcome' = "running"
        /\ cmd' = cmd /\ target' = target /\ configured' = configured
    BY <1>5, <2>1 DEF Mark, Raise, args, history
  <2>3. TheLedger!MarkDone(plan[at])  BY <2>1, <2>2 DEF TheLedger!MarkDone
  <2> QED  BY <2>1, <2>3 DEF TheLedger!Next
<1>6. CASE Configure /\ plan[at] \in marks \cap HasTempest
  <2>1. /\ cmd = "test" /\ pc = "loop" /\ pc' \in {"loop", "failed"}
        /\ configured' = configured \cup {plan[at]}
        /\ marks' = marks /\ cmd' = cmd /\ target' = target
    BY <1>6 DEF Configure, Raise, disk, args
  <2>2. TheLedger!ConfigureFor(plan[at])  BY <2>1 DEF TheLedger!ConfigureFor
  <2> QED  BY <1>6, <2>2 DEF TheLedger!Next
<1>7. CASE pc' = "ok" /\ (EndSetup \/ FetchFailing)
  <2>1. /\ outcome = "running" /\ outcome' = "ok"
        /\ marks' = marks /\ cmd' = cmd /\ target' = target /\ configured' = configured
    BY <1>7 DEF EndSetup, FetchFailing, disk, args, history
  <2>2. cmd = "setup" /\ target \in HasSetup => target \in marks
    <3> SUFFICES ASSUME cmd = "setup", target \in HasSetup PROVE target \in marks  OBVIOUS
    <3>1. pc = "loop" /\ at > Len(plan)  BY <1>7 DEF EndSetup, FetchFailing, ProgressInv
    <3>2. target \in Members(plan)
      BY <3>1, NoTargetAssumption, OrchestratorAssumption DEF OutcomeInv
    <3>3. PICK i \in DOMAIN plan : plan[i] = target  BY <3>2 DEF Members
    <3>4. i < at  BY <3>1, LenProperties DEF TypeOK
    <3> QED  BY <3>1, <3>3, <3>4 DEF ProgressInv
  <2>3. TheLedger!Succeed  BY <2>1, <2>2 DEF TheLedger!Succeed
  <2> QED  BY <2>3 DEF TheLedger!Next
<1>8. CASE Plan  BY <1>1, <1>2, <1>8 DEF Plan, Raise, disk, args, history
<1>9. CASE BeginSetup  BY <1>1, <1>9 DEF BeginSetup, disk, args
<1>10. CASE Probe  BY <1>1, <1>10 DEF Probe, disk, args
<1>11. CASE SetupRaises
  BY <1>1, <1>11 DEF SetupRaises, Raise, ProgressInv, disk, args, history
<1>12. CASE SetupReturns  BY <1>1, <1>12 DEF SetupReturns, args
<1>13. CASE Mark /\ pc' # "loop"
  BY <1>1, <1>13 DEF Mark, Raise, ProgressInv, args, history
<1>14. CASE CollectLogs  BY <1>2, <1>14 DEF CollectLogs, disk, args, history
<1>15. CASE Prepare
  BY <1>1, <1>2, <1>15 DEF Prepare, Raise, OutcomeInv, disk, args, history
<1>16. CASE Configure /\ plan[at] \notin marks \cap HasTempest
  BY <1>1, <1>16 DEF Configure, disk, args
<1>17. CASE ListTests  BY <1>1, <1>2, <1>17 DEF ListTests, Raise, disk, args, history
<1>18. CASE RunTests  BY <1>1, <1>18 DEF RunTests, disk, args
<1>19. CASE FetchFailing /\ pc' # "ok"
  BY <1>1, <1>19 DEF FetchFailing, disk, args, history
<1>20. CASE ChangePackages  BY <1>1, <1>20 DEF ChangePackages, args, history
<1>21. CASE UNCHANGED vars  BY <1>1, <1>21 DEF vars
<1>22. CASE Step
  BY <1>5, <1>6, <1>7, <1>8, <1>9, <1>10, <1>11, <1>12, <1>13, <1>14, <1>15, <1>16, <1>17,
     <1>18, <1>19, <1>22 DEF Step, EndSetup
<1>23. CASE Next  BY <1>3, <1>4, <1>20, <1>22, <1>23 DEF Next
<1> QED  BY <1>21, <1>23

\* The setup and test commands implement the ledger.
THEOREM LedgerImplemented == Spec => ImplementsLedger
  BY LedgerInitially, LedgerStep, OrchestratorInvariant, OutcomeInvariant, PTL
     DEF Spec, IInv, ImplementsLedger, TheLedger!Spec
================================================================================
