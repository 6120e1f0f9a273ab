\* A marked cinder whose key was never imported.
SPECIFICATION Spec
CONSTANTS
  Uuids = {u1, u2, u3}
  CephxKeys = {k1, k2, k3}
  Absent = Absent
  Empty = Empty
  Machines <- MCMachines
INVARIANT
  CinderCanConnect
