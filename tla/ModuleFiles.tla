------------------------------ MODULE ModuleFiles ------------------------------
(***************************************************************************)
(* What the module files of src/regress_stack/modules declare: their        *)
(* DEPENDENCIES and OPTIONAL_DEPENDENCIES.                                  *)
(***************************************************************************)
CinderDeps    == {"ceph", "keystone", "mysql", "rabbitmq"}
GlanceDeps    == {"keystone", "mysql"}
HeatDeps      == {"keystone", "mysql", "rabbitmq", "nova", "neutron"}
KeystoneDeps  == {"mysql"}
\* Mutant: neutron, which notifies nova, depends on it.
NeutronDepsWithNova == {"keystone", "mysql", "nova", "ovn", "rabbitmq"}

NeutronDeps   == {"keystone", "mysql", "ovn", "rabbitmq"}
NovaDeps      == {"glance", "keystone", "mysql", "neutron", "ovn", "rabbitmq", "placement"}
\* Mutant: nova's optional dependencies are forgotten.
NovaOptionalForgotten == {}

NovaOptional  == {"ceph", "cinder"}
PlacementDeps == {"keystone", "mysql"}

\* modules/ceph.py, mysql.py, ovn.py, rabbitmq.py and utils.py declare neither.
Leaves == {"ceph", "mysql", "ovn", "rabbitmq", "utils"}

DependenciesOf(m) ==
  CASE m = "cinder"    -> CinderDeps
    [] m = "glance"    -> GlanceDeps
    [] m = "heat"      -> HeatDeps
    [] m = "keystone"  -> KeystoneDeps
    [] m = "neutron"   -> NeutronDeps
    [] m = "nova"      -> NovaDeps
    [] m = "placement" -> PlacementDeps
    [] m \in Leaves    -> {}
================================================================================
