----------------------------- MODULE MCRepository -----------------------------
(***************************************************************************)
(* The twelve modules of the repository, with the packages of any three of   *)
(* them missing.                                                            *)
(***************************************************************************)
EXTENDS Repository

RepoModules == {"ceph", "cinder", "glance", "heat", "keystone", "mysql",
                "neutron", "nova", "ovn", "placement", "rabbitmq", "utils"}

\* The string order of the names.
RepoRank == [m \in RepoModules |->
  CASE m = "ceph" -> 1 [] m = "cinder" -> 2 [] m = "glance" -> 3 [] m = "heat" -> 4
    [] m = "keystone" -> 5 [] m = "mysql" -> 6 [] m = "neutron" -> 7 [] m = "nova" -> 8
    [] m = "ovn" -> 9 [] m = "placement" -> 10 [] m = "rabbitmq" -> 11 [] m = "utils" -> 12]

\* At most MaxMissing modules lack packages.
MaxMissing == 3
RepoDeclarations ==
  {RepoDeclaration(RepoModules \ missing) :
     missing \in {S \in SUBSET RepoModules : Cardinality(S) <= MaxMissing}}
================================================================================
