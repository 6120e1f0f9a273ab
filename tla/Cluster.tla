-------------------------------- MODULE Cluster --------------------------------
(***************************************************************************)
(* What modules/ceph.py promises whoever stores data in its cluster, however *)
(* often setup() is cut short and run again: the cluster is made once, and   *)
(* from then on only grows, but for osd ids that no device bears yet, which  *)
(* can be taken back.  Ceph.tla implements it.                               *)
(***************************************************************************)
EXTENDS Naturals

CONSTANTS
  Uuids,    \* the fsids a cluster can have
  Devices,  \* the devices of its osds
  Absent

VARIABLES
  fsid,     \* of the monitor's store
  ids,      \* the osd ids in use are those below
  osdId,    \* the id each device is labelled with
  serving   \* the device each osd serves

vars == << fsid, ids, osdId, serving >>

Init ==
  /\ fsid = Absent /\ ids = 0
  /\ osdId = [d \in Devices |-> Absent] /\ serving = [i \in Devices |-> Absent]

\* A store is made when there is none.
Create ==
  /\ fsid = Absent
  /\ fsid' \in Uuids
  /\ UNCHANGED << ids, osdId, serving >>

\* The monitor hands out the lowest id that no osd has.
HandOut ==
  /\ fsid # Absent
  /\ ids' = ids + 1
  /\ UNCHANGED << fsid, osdId, serving >>

\* An id is taken back while no device bears it.
TakeBack ==
  /\ ids > 0
  /\ \A d \in Devices : osdId[d] # ids - 1
  /\ ids' = ids - 1
  /\ UNCHANGED << fsid, osdId, serving >>

\* A device that holds nothing is labelled with an id no other device has.
Label(d) ==
  /\ osdId[d] = Absent
  /\ \E i \in 0..ids - 1 :
       /\ \A e \in Devices : osdId[e] # i
       /\ osdId' = [osdId EXCEPT ![d] = i]
  /\ UNCHANGED << fsid, ids, serving >>

\* An osd serves the device of its own number.
Serve(d) ==
  /\ osdId[d] = d
  /\ serving' = [serving EXCEPT ![d] = d]
  /\ UNCHANGED << fsid, ids, osdId >>

Next == Create \/ HandOut \/ TakeBack \/ \E d \in Devices : Label(d) \/ Serve(d)

Spec == Init /\ [][Next]_vars
================================================================================
