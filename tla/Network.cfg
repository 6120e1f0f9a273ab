\* ovn's, neutron's and heat's networks over any number of cut short commands,
\* while neutron-server comes and goes.
SPECIFICATION Spec
CONSTANT
  Attempts = 10
INVARIANTS
  TypeOK
  TempestPath
  MissingOnlyAfterRefusals
PROPERTY
  RetriesEnd
