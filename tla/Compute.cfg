\* Any number of runs of cinder's and nova's setup, each cut short anywhere, with
\* nova-compute registering the host at any time.
SPECIFICATION Spec
CONSTANTS
  Uuids = {u1, u2, u3}
  CephxKeys = {k1, k2, k3}
  Absent = Absent
  Empty = Empty
  Machines <- MCMachines
INVARIANTS
  TypeOK
  KeysAgree
  NovaCanAttach
  KnownHostMapped
PROPERTIES
  MarkedHostRegisters
  RerunsMapHost
