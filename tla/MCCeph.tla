-------------------------------- MODULE MCCeph --------------------------------
(* Three devices, as in the code, and interchangeable uuids: more than the     *)
(* files that can hold different ones.                                        *)
EXTENDS Ceph, TLC

UuidSymmetry == Permutations(Uuids)
================================================================================
