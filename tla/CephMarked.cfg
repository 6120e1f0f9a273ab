\* A marked ceph whose osds were never activated.
SPECIFICATION Spec
CONSTANTS
  Uuids = {u1, u2, u3, u4}
  Absent = Absent
  Empty = Empty
  NumOsds = 3
SYMMETRY UuidSymmetry
INVARIANT
  MarkedIsDone
