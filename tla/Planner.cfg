\* Which modules survive filtering, and in which order: every combination of
\* required and optional dependencies of a few modules, cycles, uninstalled
\* modules and modules that are only named, with and without a target.
SPECIFICATION Spec
CONSTANTS
  Modules <- MCModules
  Rank <- MCRank
  Utils = "utils"
  NoTarget = "none"
  Declarations <- MCDeclarations
  Targets = {"none", "utils", "b", "ghost"}
INVARIANTS
  TypeOK
  FilterExact
  PlanSound
  TargetIsProjection
  Deterministic
PROPERTIES
  ImplementsPlanService
  Termination
