\* The repository's own modules, planned with up to three of them uninstalled.
SPECIFICATION Spec
CONSTANTS
  Modules <- RepoModules
  Rank <- RepoRank
  Utils = "utils"
  NoTarget = "none"
  Declarations <- RepoDeclarations
  Targets = {"none", "nova", "heat", "cinder"}
INVARIANTS
  ServicesPlannedFirst
  NeverCircular
  OptionalNeverBlocks
