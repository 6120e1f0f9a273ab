\* A marked neutron without its public network.
SPECIFICATION Spec
CONSTANT
  Attempts = 10
INVARIANT
  MarkedHasPublicNetwork
