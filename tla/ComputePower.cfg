\* A POWER machine whose kvm is not used.
SPECIFICATION Spec
CONSTANTS
  Uuids = {u1, u2, u3}
  CephxKeys = {k1, k2, k3}
  Absent = Absent
  Empty = Empty
  Machines <- MCMachines
INVARIANT
  KvmOnPower
