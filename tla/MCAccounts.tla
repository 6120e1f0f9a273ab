------------------------------ MODULE MCAccounts ------------------------------
(* The whole repository's plan, of which ovn and ceph make no accounts, and the *)
(* plan of a target: what the one has left the other starts from.              *)
EXTENDS Accounts

MCPlans ==
  { << "mysql", "rabbitmq", "keystone", "glance", "placement", "neutron", "cinder", "nova", "heat" >>,
    << "mysql", "rabbitmq", "keystone", "neutron" >> }
================================================================================
