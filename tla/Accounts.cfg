\* Any number of setups of the whole plan or of neutron alone, each cut short
\* anywhere or complete.
SPECIFICATION Spec
CONSTANTS
  Plans <- MCPlans
  NoCatalog = NoCatalog
INVARIANTS
  TypeOK
  MarkedAccountIsWhole
  RegisteredOnce
  CatalogCurrent
  OnlyHalfMadeUsersBlock
