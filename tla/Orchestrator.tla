----------------------------- MODULE Orchestrator -----------------------------
(***************************************************************************)
(* The setup and test commands of __main__.py over the marks of              *)
(* core/utils.py and the package cache of core/apt.py.  One process runs at  *)
(* a time; it can be killed between any two steps, a module's setup can      *)
(* raise, and packages come and go underneath.  Planning is the operator     *)
(* Planner.tla implements; here it is any planner whose plans are sound.     *)
(***************************************************************************)
EXTENDS ModuleGraph

CONSTANTS
  Deps, Optional,  \* DEPENDENCIES and OPTIONAL_DEPENDENCIES of every module
  HasSetup,        \* the modules that define setup()
  HasTempest,      \* the modules that define configure_tempest()
  Probes,          \* the modules whose installed() a module's setup() consults
  Databases,       \* the sets of modules whose packages dpkg may have
  Targets,
  NoCache,         \* APT_CACHE before the first get_cache
  PlanOf           \* what get_execution_order returns, << >> when it raises

Declared(db) == [found |-> Modules, deps |-> Deps, optional |-> Optional, installed |-> db]

ASSUME OrchestratorAssumption ==
  /\ Deps \in [Modules -> SUBSET Modules]
  /\ Optional \in [Modules -> SUBSET Modules]
  /\ Probes \in [Modules -> SUBSET Modules]
  /\ HasSetup \subseteq Modules
  /\ HasTempest \subseteq Modules
  /\ Databases \subseteq SUBSET Modules
  /\ NoCache \notin Databases

\* What get_execution_order may return for the packages d and the target t.
Returnable(d, t, p) ==
  /\ p \in Seq(Modules)
  /\ p # << >> => /\ IF t = Utils THEN p = << Utils >> ELSE SoundPlan(Declared(d), p)
                  /\ t \in {NoTarget} \cup Members(p)

ASSUME PlanAssumption ==
  \A d \in Databases : \A t \in Targets \cup {NoTarget} : Returnable(d, t, PlanOf[<< d, t >>])

ASSUME UtilsHasNoDependencies == Deps[Utils] = {} /\ Optional[Utils] = {}

RequiredBy(m) == Deps[m] \ Optional[m]

\* setup() looks only for modules its file declares, required or optional; they
\* require nothing but each other and what it requires itself, and they are not
\* reached by optional dependencies only.
ASSUME ProbesAssumption ==
  \A m \in Modules : \A p \in Probes[m] :
    /\ p \in Deps[m] \cup Optional[m]
    /\ RequiredBy(p) \subseteq RequiredBy(m) \cup Probes[m]
    /\ Optional[p] # {} => RequiredBy(p) # {}

VARIABLES
  db,        \* the modules whose packages dpkg has now
  marks,     \* the .setup files
  cmd,       \* the running command
  target,    \* its argument
  cache,     \* APT_CACHE of the process: the installed modules it was opened on
  plan,      \* the order being worked through
  at,        \* the position in it
  pc,
  failing,   \* stestr has failing tests of this run on record
  returned,  \* history: the modules whose setup() has returned, ever
  here,      \* history: those whose setup() has returned in this process
  linked,    \* history: the probed modules the current setup() integrates with
  configured,\* history: the modules test has configured tempest for
  raised,    \* history: a step of this process raised, or a failing test is on record
  silenced   \* history: tempest run exited with an error

vars == << db, marks, cmd, target, cache, plan, at, pc, failing,
           returned, here, linked, configured, raised, silenced >>

disk    == << db, marks, returned >>
args    == << cmd, target >>
history == << here, linked, configured, silenced >>

\* Mutant: the database is read every time.
ReadAnew == db

\* get_cache: the first read opens the database, later ones see that snapshot.
Read == IF cache = NoCache THEN db ELSE cache

--------------------------------------------------------------------------------
Init ==
  /\ db \in Databases
  /\ marks = {} /\ returned = {}
  /\ cmd = "none" /\ target = NoTarget
  /\ cache = NoCache /\ plan = << >> /\ at = 1
  /\ pc = "idle" /\ failing = FALSE
  /\ here = {} /\ linked = {} /\ configured = {} /\ raised = FALSE /\ silenced = FALSE

\* Mutant: positions start at 0.
StartAtZero(c, t) ==
  /\ pc = "idle"
  /\ cmd' = c
  /\ target' = t
  /\ pc' = IF c = "setup" THEN "plan" ELSE "prepare"
  /\ at' = 0
  /\ UNCHANGED << disk, cache, plan, failing, here, linked, configured, raised, silenced >>

\* A new process: regress-stack setup [target], or regress-stack test.
Start(c, t) ==
  /\ pc = "idle"
  /\ cmd' = c
  /\ target' = t
  /\ pc' = IF c = "setup" THEN "plan" ELSE "prepare"
  /\ cache' = NoCache /\ plan' = << >> /\ at' = 1 /\ failing' = FALSE
  /\ here' = {} /\ linked' = {} /\ configured' = {} /\ raised' = FALSE
  /\ silenced' = FALSE
  /\ UNCHANGED disk

\* Mutants: the exception is not raised again; the command starts over.
RaiseNothing == pc' = "ok" /\ raised' = TRUE

RaiseAndRetry == pc' = "plan" /\ raised' = TRUE

\* An exception inside setup's try goes through collect_logs; the test command
\* has no such protection around its preparation.
Raise == pc' = (IF cmd = "setup" THEN "collect" ELSE "failed") /\ raised' = TRUE

\* get_execution_order returns the plan for the cached packages, or raises.
Plan ==
  /\ pc = "plan"
  /\ LET seen == IF target = Utils THEN db ELSE Read IN
       /\ cache' = IF target = Utils THEN cache ELSE Read
       /\ plan' = PlanOf[<< seen, target >>]
  /\ IF plan' = << >> THEN Raise ELSE pc' = "loop" /\ UNCHANGED raised
  /\ UNCHANGED << disk, args, at, failing, history >>

--------------------------------------------------------------------------------
(***************************************************************************)
(* The setup command.                                                       *)
(***************************************************************************)

\* Mutant: a module marked by an earlier run is not set up again.
BeginSetupUnlessMarked ==
  /\ pc = "loop" /\ cmd = "setup"
  /\ at <= Len(plan)
  /\ linked' = {}
  /\ IF plan[at] \in HasSetup \ marks
     THEN pc' = "setup" /\ UNCHANGED at
     ELSE at' = at + 1 /\ UNCHANGED pc
  /\ UNCHANGED << disk, args, cache, plan, failing, here, configured, raised, silenced >>

\* The loop reaches a module; one without setup() is passed over.
BeginSetup ==
  /\ pc = "loop" /\ cmd = "setup"
  /\ at <= Len(plan)
  /\ linked' = {}
  /\ IF plan[at] \in HasSetup
     THEN pc' = "setup" /\ UNCHANGED at
     ELSE at' = at + 1 /\ UNCHANGED pc
  /\ UNCHANGED << disk, args, cache, plan, failing, here, configured, raised, silenced >>

\* Inside setup(): which of the modules it can integrate with are installed,
\* asked of the cache and not of the plan; it takes all of them or none.
Probe ==
  /\ pc = "setup"
  /\ cache' = IF Probes[plan[at]] = {} THEN cache ELSE Read
  /\ linked' = IF Probes[plan[at]] \subseteq cache' THEN Probes[plan[at]] ELSE {}
  /\ pc' = "apply"
  /\ UNCHANGED << disk, args, plan, at, failing, here, configured, raised, silenced >>

\* Mutant: the error is logged and the next module's turn comes.
SetupRaisesUnheard ==
  /\ pc \in {"setup", "apply"}
  /\ at' = at + 1 /\ pc' = "loop" /\ raised' = TRUE
  /\ UNCHANGED << disk, args, cache, plan, failing, history >>

\* Some command run by setup() fails.
SetupRaises ==
  /\ pc \in {"setup", "apply"}
  /\ Raise
  /\ UNCHANGED << disk, args, cache, plan, at, failing, history >>

SetupReturns ==
  /\ pc = "apply"
  /\ returned' = returned \cup {plan[at]}
  /\ here' = here \cup {plan[at]}
  /\ pc' = "mark"
  /\ UNCHANGED << db, marks, args, cache, plan, at, failing, linked, configured, raised, silenced >>

\* Mutant: a mark that cannot be made is done without.
MarkIfPossible ==
  /\ pc = "mark"
  /\ marks' \in {marks, marks \cup {plan[at]}}
  /\ at' = at + 1
  /\ pc' = "loop"
  /\ UNCHANGED << db, returned, args, cache, plan, failing, raised, history >>

\* mark_setup, which may itself fail to create the file.
Mark ==
  /\ pc = "mark"
  /\ \/ /\ marks' = marks \cup {plan[at]}
        /\ at' = at + 1
        /\ pc' = "loop"
        /\ UNCHANGED raised
     \/ Raise /\ UNCHANGED << marks, at >>
  /\ UNCHANGED << db, returned, args, cache, plan, failing, history >>

EndSetup ==
  /\ pc = "loop" /\ cmd = "setup"
  /\ at > Len(plan)
  /\ pc' = "ok"
  /\ UNCHANGED << disk, args, cache, plan, at, failing, history, raised >>

\* collect_logs plans again for everything (reading the cache if the target was
\* utils), prints what it can, and whether or not it raises on the way the
\* process ends with an exception.
CollectLogs ==
  /\ pc = "collect"
  /\ cache' = Read
  /\ pc' = "failed"
  /\ UNCHANGED << disk, args, plan, at, failing, history, raised >>

--------------------------------------------------------------------------------
(***************************************************************************)
(* The test command.                                                        *)
(***************************************************************************)

\* tempest init, discover-tempest-config and cfg_set.
Prepare ==
  /\ pc = "prepare"
  /\ (pc' = "plan" /\ UNCHANGED raised) \/ Raise
  /\ UNCHANGED << disk, args, cache, plan, at, failing, history >>

\* Mutant: modules without a mark are configured as well.
ConfigureUnmarked ==
  /\ pc = "loop" /\ cmd = "test"
  /\ at <= Len(plan)
  /\ IF plan[at] \in HasTempest
     THEN /\ configured' = configured \cup {plan[at]}
          /\ (at' = at + 1 /\ UNCHANGED << pc, raised >>) \/ (Raise /\ UNCHANGED at)
     ELSE at' = at + 1 /\ UNCHANGED << pc, raised, configured >>
  /\ UNCHANGED << disk, args, cache, plan, failing, here, linked, silenced >>

\* One module of the loop: skipped unless marked, else configured, which for a
\* module with configure_tempest() talks to the services it depends on.
Configure ==
  /\ pc = "loop" /\ cmd = "test"
  /\ at <= Len(plan)
  /\ IF plan[at] \in marks \cap HasTempest
     THEN /\ configured' = configured \cup {plan[at]}
          /\ (at' = at + 1 /\ UNCHANGED << pc, raised >>) \/ (Raise /\ UNCHANGED at)
     ELSE at' = at + 1 /\ UNCHANGED << pc, raised, configured >>
  /\ UNCHANGED << disk, args, cache, plan, failing, here, linked, silenced >>

\* The list of tests is built from the smoke list and each module's regexes.
ListTests ==
  /\ pc = "loop" /\ cmd = "test"
  /\ at > Len(plan)
  /\ (pc' = "run" /\ UNCHANGED raised) \/ Raise
  /\ UNCHANGED << disk, args, cache, plan, at, failing, history >>

\* tempest run exits with an error when a test fails, and also when it breaks
\* down by itself; the error is discarded.  Failing tests are on stestr's record.
RunTests ==
  /\ pc = "run"
  /\ failing' \in BOOLEAN
  /\ silenced' \in BOOLEAN
  /\ failing' => silenced'
  /\ raised' = failing'
  /\ pc' = "fetch"
  /\ UNCHANGED << disk, args, cache, plan, at, here, linked, configured >>

\* stestr failing --list exits with an error when it lists anything.
FetchFailing ==
  /\ pc = "fetch"
  /\ pc' = IF failing THEN "collect" ELSE "ok"
  /\ UNCHANGED << disk, args, cache, plan, at, failing, history, raised >>

--------------------------------------------------------------------------------
Step ==
  \/ Plan
  \/ BeginSetup \/ Probe \/ SetupRaises \/ SetupReturns \/ Mark \/ EndSetup
  \/ CollectLogs
  \/ Prepare \/ Configure \/ ListTests \/ RunTests \/ FetchFailing

\* The process exits, by itself or killed at any point; only the disk stays.
Exit ==
  /\ pc # "idle"
  /\ pc' = "idle"
  /\ cmd' = "none" /\ target' = NoTarget
  /\ cache' = NoCache /\ plan' = << >> /\ at' = 1 /\ failing' = FALSE
  /\ here' = {} /\ linked' = {} /\ configured' = {} /\ raised' = FALSE
  /\ silenced' = FALSE
  /\ UNCHANGED disk

\* Packages are installed or removed, also while a command runs.
ChangePackages ==
  /\ db' \in Databases \ {db}
  /\ UNCHANGED << marks, returned, args, cache, plan, at, pc, failing, history, raised >>

Next ==
  \/ \E t \in Targets : Start("setup", t)
  \/ Start("test", NoTarget)
  \/ Step
  \/ Exit
  \/ ChangePackages

Spec == Init /\ [][Next]_vars /\ WF_vars(Step)

--------------------------------------------------------------------------------
\* The types of the processes' and the disk's variables.
TypeOK ==
  /\ db \in Databases
  /\ marks \subseteq Modules /\ returned \subseteq Modules
  /\ cmd \in {"none", "setup", "test"} /\ target \in Targets \cup {NoTarget}
  /\ cache \in Databases \cup {NoCache}
  /\ plan \in Seq(Modules) /\ at \in Nat \ {0}
  /\ pc \in {"idle", "prepare", "plan", "loop", "setup", "apply", "mark", "collect",
             "run", "fetch", "ok", "failed"}
  /\ failing \in BOOLEAN /\ raised \in BOOLEAN /\ silenced \in BOOLEAN
  /\ here \subseteq Modules /\ linked \subseteq Modules /\ configured \subseteq Modules

\* A mark stands for a stack: across failures, kills, partial targets and
\* changing packages, a marked module's required dependencies are marked too,
\* so the test command never tests a module on top of one it would skip.
MarksClosed == \A m \in marks : RequiredBy(m) \cap HasSetup \subseteq marks

\* setup() of a module runs only after the setup() of each of its required
\* dependencies has returned in the same process, marks left by earlier runs
\* notwithstanding.
SetupAfterDependencies ==
  pc \in {"setup", "apply"} => RequiredBy(plan[at]) \cap HasSetup \subseteq here

\* A module that decides at run time to integrate with others (nova with ceph
\* and cinder) finds them set up by this process: the packages it sees are those
\* the plan was made from, although dpkg may have changed since.
IntegrationBacked == linked \cap HasSetup \subseteq here

\* What test configures tempest for has been set up, with all it needs, by some
\* earlier command.
ConfiguredBacked ==
  \A m \in configured : ({m} \cup RequiredBy(m)) \cap HasSetup \subseteq returned

\* A command never reports success after an exception, whatever collect_logs then
\* does, or with a failing test on stestr's record, although the status of tempest
\* run is discarded.  A tempest run that breaks down by itself and leaves no such
\* record is not counted here but by SilencedErrorSurfaces.
FailureSurfaces == pc = "ok" => ~raised

\* __main__.py:133, on discarding an error of tempest run: "silence to fail on
\* the next command".
SilencedErrorSurfaces == pc = "ok" => ~silenced

\* A setup that succeeds has run and marked everything the target stands on.
SuccessIsComplete ==
  (pc = "ok" /\ cmd = "setup") =>
    /\ Members(plan) \cap HasSetup \subseteq here \cap marks
    /\ target \in Modules => target \in Members(plan)

TheLedger == INSTANCE Ledger WITH
  Modules <- HasSetup, Requires <- [m \in Modules |-> RequiredBy(m)],
  Targets <- Targets \cup {NoTarget}, command <- cmd,
  outcome <- IF pc \in {"idle", "ok", "failed"} THEN pc ELSE "running"

\* The commands implement the ledger: through failures, kills and changing
\* packages marks only grow, one at a time, each on top of those it requires; a
\* setup that reports success has marked its target; test marks nothing and
\* configures only what is marked.
ImplementsLedger == TheLedger!Spec

\* Every command ends.
CommandEnds == (pc # "idle") ~> (pc \in {"ok", "failed", "idle"})
================================================================================
