---------------------------- MODULE MCOrchestrator ----------------------------
(***************************************************************************)
(* A six module cut of the repository: the storage stack, nova, which        *)
(* integrates with it when it is installed, and heat, which is built on nova *)
(* and is the one module test configures tempest for.  PlanOf is the         *)
(* reference planner that Planner is checked against.                       *)
(***************************************************************************)
EXTENDS Orchestrator

MCModules == {"ceph", "cinder", "heat", "mysql", "nova", "utils"}
MCRank == [m \in MCModules |->
  CASE m = "ceph" -> 1 [] m = "cinder" -> 2 [] m = "heat" -> 3 [] m = "mysql" -> 4
    [] m = "nova" -> 5 [] m = "utils" -> 6]
MCDeps == [m \in MCModules |->
  CASE m = "cinder" -> {"ceph", "mysql"} [] m = "nova" -> {"mysql"}
    [] m = "heat" -> {"mysql", "nova"} [] OTHER -> {}]
MCOptional == [m \in MCModules |-> IF m = "nova" THEN {"ceph", "cinder"} ELSE {}]
MCProbes == MCOptional

MCTargets == {NoTarget, "utils", "nova", "cinder"}
\* Everything, or one package set missing.
MCDatabases == {MCModules} \cup {MCModules \ {m} : m \in {"ceph", "cinder", "mysql"}}

\* A set of pairs, so that TLC plans once.
MCPlans ==
  {<< x, PlanFor([found |-> MCModules, deps |-> MCDeps, optional |-> MCOptional, installed |-> x[1]], x[2]) >> :
     x \in MCDatabases \X MCTargets}
MCPlanOf == [x \in MCDatabases \X MCTargets |-> (CHOOSE p \in MCPlans : p[1] = x)[2]]
================================================================================
