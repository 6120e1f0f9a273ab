\* An error of tempest run that nothing reports.
SPECIFICATION Spec
CONSTANTS
  Modules <- MCModules
  Rank <- MCRank
  Utils = "utils"
  NoTarget = "none"
  Deps <- MCDeps
  Optional <- MCOptional
  Probes <- MCProbes
  HasSetup <- MCModules
  HasTempest = {"heat"}
  Databases <- MCDatabases
  Targets <- MCTargets
  NoCache = NoCache
  PlanOf <- MCPlanOf
INVARIANT
  SilencedErrorSurfaces
