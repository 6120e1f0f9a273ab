-------------------------------- MODULE Compute --------------------------------
(***************************************************************************)
(* nova's setup() on top of Storage.tla: its configuration for the machine   *)
(* it runs on, its databases and cells, the restarts of its services, and    *)
(* the discovery of the host, done once, fifteen seconds after nova-compute  *)
(* was restarted.  nova-compute is an actor of its own: it registers the     *)
(* host when it gets there, maybe later, maybe after the command has ended.   *)
(***************************************************************************)
EXTENDS Storage, VirtType

CONSTANT
  Machines   \* the machines it is set up on: what lscpu and /dev/kvm report

Databases == {"api", "cell0", "cell1", "main"}

\* Mutant: one of the services is forgotten.
ServicesButConductor == << "nova-api", "nova-scheduler", "nova-compute" >>

\* The services restarted at the end.
Services == << "nova-api", "nova-scheduler", "nova-conductor", "nova-compute" >>

VARIABLES
  machine,
  virt,        \* libvirt's virt_type in nova.conf
  databases,   \* nova_api's and main's tables, the mapped cells cell0 and cell1
  running,     \* the services restarted with their configuration written
  registered,  \* nova-compute has recorded the host
  mapped,      \* the host is mapped to cell1: instances can be placed on it
  seen         \* history: the host was registered when this command began

nova == << virt, databases, running, registered, mapped >>
vars == << storage, machine, nova, seen >>

--------------------------------------------------------------------------------
Init ==
  /\ InitStorage
  /\ machine \in Machines
  /\ virt = Absent /\ databases = {} /\ running = {}
  /\ registered = FALSE /\ mapped = FALSE /\ seen = FALSE

Begin == Start /\ seen' = registered /\ UNCHANGED << machine, nova >>

End == Stop /\ UNCHANGED << machine, nova, seen >>

IntegrateStorage == StorageStep /\ UNCHANGED << machine, nova, seen >>

\* What every step below leaves alone.
Frame == UNCHANGED << uuids, pool, keys, secret, confs, machine, seen >>

\* The first cfg_set of nova.conf; the second computes virt_type to the same.
ConfigureVirt ==
  /\ Step("nova", "nova_pool")
  /\ virt' = VirtTypeOf(machine)
  /\ UNCHANGED << marks, databases, running, registered, mapped >> /\ Frame

\* nova-manage api_db sync, cell_v2 map_cell0 and db sync, which keep what
\* is there.
SyncDatabase(from, database, to) ==
  /\ Step(from, to)
  /\ databases' = databases \cup {database}
  /\ UNCHANGED << marks, virt, running, registered, mapped >> /\ Frame

\* Mutant: the cell is made only in the run that maps cell0.
HasCellZero == "cell0" \in databases

HasCell == "cell1" \in databases

\* cell_v2 list_cells.
ListCells ==
  /\ Step("list_cells", IF HasCell THEN "db_sync" ELSE "create_cell")
  /\ UNCHANGED << marks, nova >> /\ Frame

RestartService(n) ==
  /\ Step(Services[n], IF n < Len(Services) THEN Services[n + 1] ELSE "sleep")
  /\ running' = running \cup {Services[n]}
  /\ UNCHANGED << marks, virt, databases, registered, mapped >> /\ Frame

\* Mutant: the host is mapped by the first setup() or never.
DiscoverableOnce == registered /\ "nova" \notin marks

\* discover_hosts maps what it finds recorded in the cells; cell1 is where
\* nova.conf has the host recorded.
Discoverable == registered /\ "cell1" \in databases

\* The fifteen seconds are over, whatever nova-compute has done meanwhile.
DiscoverHosts ==
  /\ Step("sleep", "nova_mark")
  /\ mapped' = (mapped \/ Discoverable)
  /\ UNCHANGED << marks, virt, databases, running, registered >> /\ Frame

\* setup() has returned: mark_setup("nova"), and the command ends.
MarkNova ==
  /\ Step("nova_mark", "idle") /\ uuid' = Absent
  /\ marks' = marks \cup {"nova"}
  /\ UNCHANGED << rbdFile, pool, keys, secret, confs, machine, nova, seen >>

\* nova-compute reaches the main database by way of nova-conductor.
Registers ==
  /\ {"nova-compute", "nova-conductor"} \subseteq running /\ "main" \in databases
  /\ registered' = TRUE
  /\ UNCHANGED << storage, machine, virt, databases, running, mapped, seen >>

SetupNova ==
  \/ ConfigureVirt
  \/ SyncDatabase("api_db", "api", "map_cell0")
  \/ SyncDatabase("map_cell0", "cell0", "list_cells")
  \/ ListCells \/ SyncDatabase("create_cell", "cell1", "db_sync")
  \/ SyncDatabase("db_sync", "main", Services[1])
  \/ \E n \in 1..Len(Services) : RestartService(n)
  \/ DiscoverHosts \/ MarkNova

Next == Begin \/ End \/ IntegrateStorage \/ SetupNova \/ Registers

Spec == Init /\ [][Next]_vars /\ WF_vars(Registers)

--------------------------------------------------------------------------------
\* The types of the variables.
TypeOK ==
  /\ StorageTypes
  /\ pc \in {"idle", "pool", "keyring", "import", "chown", "rbd_uuid", "write_uuid",
             "cinder_conf", "cinder_mark", "nova", "nova_pool", "secret", "set_value",
             "nova_conf", "api_db", "map_cell0", "list_cells", "create_cell", "db_sync",
             "sleep", "nova_mark"} \cup {Services[n] : n \in 1..Len(Services)}
  /\ machine \in Machines /\ virt \in {Absent, "kvm", "qemu"}
  /\ databases \subseteq Databases /\ running \subseteq {Services[n] : n \in 1..Len(Services)}
  /\ registered \in BOOLEAN /\ mapped \in BOOLEAN /\ seen \in BOOLEAN

\* The fifteen seconds only matter the first time: a setup() of nova that began
\* with the host registered, whatever earlier commands got done, ends with the
\* host mapped to the cell.
KnownHostMapped == (pc = "nova_mark" /\ seen) => mapped

\* A marked nova's host registers, however late: what nova-compute needs to do so,
\* being started itself, a conductor that runs and the main tables, is there
\* whatever commands the mark took.
MarkedHostRegisters == ("nova" \in marks) ~> registered

\* Running setup again is a cure for a host that registered too late: if nova's
\* setup() completes over and over the host ends up mapped for good.
RerunsMapHost == ([]<>(pc = "nova_mark") /\ []<>(pc = "idle")) => <>[]mapped

\* nova.py:221, "Mimic virt-host-validate code (from libvirt) and assume nested
\* support on ppc64 LE or BE.": such a machine with a /dev/kvm gets kvm.
KvmOnPower ==
  (virt # Absent /\ machine.architecture \in {"ppc64", "ppc64le"} /\ KvmApiAvailable(machine))
    => virt = "kvm"
================================================================================
