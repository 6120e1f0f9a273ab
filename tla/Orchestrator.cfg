\* setup and test commands in any sequence, with failures, kills and package
\* changes between any two steps.
SPECIFICATION Spec
CONSTANTS
  Modules <- MCModules
  Rank <- MCRank
  Utils = "utils"
  NoTarget = "none"
  Deps <- MCDeps
  Optional <- MCOptional
  Probes <- MCProbes
  HasSetup <- MCModules
  HasTempest = {"heat"}
  Databases <- MCDatabases
  Targets <- MCTargets
  NoCache = NoCache
  PlanOf <- MCPlanOf
INVARIANTS
  TypeOK
  MarksClosed
  SetupAfterDependencies
  IntegrationBacked
  ConfiguredBacked
  FailureSurfaces
  SuccessIsComplete
PROPERTIES
  ImplementsLedger
  CommandEnds
