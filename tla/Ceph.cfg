\* Any number of runs of ceph's setup, each cut short anywhere or complete.
SPECIFICATION Spec
CONSTANTS
  Uuids = {u1, u2, u3, u4}
  Absent = Absent
  Empty = Empty
  NumOsds = 3
SYMMETRY UuidSymmetry
INVARIANTS
  TypeOK
  FsidAgreement
  StoreHasAllKeys
  OsdOnOwnDevice
  MarkedHasMonitor
PROPERTY
  ImplementsCluster
