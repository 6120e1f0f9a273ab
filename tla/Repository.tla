------------------------------ MODULE Repository ------------------------------
(***************************************************************************)
(* The module files of src/regress_stack/modules as the planner sees them,   *)
(* and which other modules' services the code of each setup (and             *)
(* configure_tempest) calls.                                                 *)
(***************************************************************************)
EXTENDS Planner, ModuleFiles

RepoDeps == [m \in Modules |-> DependenciesOf(m)]

RepoOptional == [m \in Modules |-> IF m = "nova" THEN NovaOptional ELSE {}]

RepoDeclaration(installedModules) ==
  [ found     |-> Modules,
    deps      |-> RepoDeps,
    optional  |-> RepoOptional,
    installed |-> installedModules ]

ASSUME RepositoryAssumption ==
  /\ Modules = {"ceph", "cinder", "glance", "heat", "keystone", "mysql", "neutron", "nova", "ovn",
                "placement", "rabbitmq", "utils"}
  /\ Utils = "utils"
  /\ \A d \in Declarations : d = RepoDeclaration(d.installed)

(***************************************************************************)
(* The services each setup talks to.  nova.setup decides at run time: it      *)
(* integrates with ceph and cinder when apt has the packages of both.        *)
(***************************************************************************)
CinderUses == {"mysql", "rabbitmq", "keystone", "ceph"}
GlanceUses == {"mysql", "keystone"}
HeatUses == {"mysql", "rabbitmq", "keystone"}
HeatTempestUses == {"keystone", "neutron"}
KeystoneUses == {"mysql"}
NeutronUses == {"mysql", "rabbitmq", "keystone", "ovn"}
NovaUses(installedModules) ==
  {"mysql", "rabbitmq", "keystone", "placement", "neutron", "glance", "ovn"}
    \cup IF {"ceph", "cinder"} \subseteq installedModules THEN {"ceph", "cinder"} ELSE {}
PlacementUses == {"mysql", "keystone"}

Uses(m, installedModules) ==
  CASE m = "cinder"    -> CinderUses
    [] m = "glance"    -> GlanceUses
    [] m = "heat"      -> HeatUses \cup HeatTempestUses
    [] m = "keystone"  -> KeystoneUses
    [] m = "neutron"   -> NeutronUses
    [] m = "nova"      -> NovaUses(installedModules)
    [] m = "placement" -> PlacementUses
    [] m \in Leaves    -> {}

--------------------------------------------------------------------------------
\* Whatever is installed and whatever the target, every service a planned
\* module's setup talks to belongs to a module planned before it: also ceph and
\* cinder, which nova.setup looks for by package and not in the plan.
ServicesPlannedFirst ==
  pc = "done" =>
    \A m \in Members(order) : \A s \in Uses(m, decl.installed) : Before(order, s, m)

\* As declared, the modules are never circular.
NeverCircular == pc # "circular"

\* The optional storage stack never stands in nova's way: with whatever nova
\* requires, directly or through others, installed, it is planned, with or
\* without the packages of ceph and of cinder.
OptionalNeverBlocks ==
  (pc = "done" /\ target = NoTarget /\ NovaDeps \cup {"nova"} \subseteq decl.installed)
    => "nova" \in Members(order)
================================================================================
