----------------------------- MODULE ComputeProofs -----------------------------
(***************************************************************************)
(* The storage cinder and nova share, and the discovery of the host, for any *)
(* sequence of setups, each cut short anywhere.                              *)
(***************************************************************************)
EXTENDS Compute, TLAPS

--------------------------------------------------------------------------------
(***************************************************************************)
(* The inductive invariant.                                                 *)
(***************************************************************************)

Programs == {"idle", "pool", "keyring", "import", "chown", "rbd_uuid", "write_uuid",
             "cinder_conf", "cinder_mark", "nova", "nova_pool", "secret", "set_value",
             "nova_conf", "api_db", "map_cell0", "list_cells", "create_cell", "db_sync",
             "nova-api", "nova-scheduler", "nova-conductor", "nova-compute",
             "sleep", "nova_mark"}

BeforeUuid == {"idle", "pool", "keyring", "import", "chown", "rbd_uuid", "write_uuid"}
BeforeNova == BeforeUuid \cup {"cinder_conf", "cinder_mark"}
BeforeSecret == BeforeNova \cup {"nova", "nova_pool", "secret"}

\* The uuid at hand is the file's once it has been read or written, and is in
\* the configurations once they have been.
UuidInv ==
  /\ pc = "write_uuid" => uuid \in Uuids /\ rbdFile = Empty
  /\ pc \notin BeforeUuid => uuid = rbdFile /\ uuid # Absent
  /\ pc \notin BeforeUuid \cup {"cinder_conf"} => cinderConf = uuid
  /\ pc \notin BeforeSecret \cup {"set_value", "nova_conf"} => novaConf = uuid
  /\ secret.uuid # Empty

\* From its own check on nova has a secret with a value, unless it is just being
\* given one; a marked nova always has.
SecretInv ==
  /\ KeysAgree
  /\ pc = "import" => keyring.key # Absent
  /\ pc \notin {"idle", "pool"} => pool
  /\ pc = "set_value" => secret.uuid = uuid /\ "nova" \notin marks
  /\ pc \notin BeforeSecret \cup {"set_value"} =>
       secret.uuid = uuid /\ secret.key = auth /\ auth # Absent
  /\ NovaCanAttach
  /\ "nova" \in marks => rbdFile \in Uuids

\* The cell is there when the host is looked for.
HostInv ==
  /\ seen => registered
  /\ pc \in {"db_sync", "nova-api", "nova-scheduler", "nova-conductor", "nova-compute", "sleep"}
       => "cell1" \in databases
  /\ KnownHostMapped

IInv == TypeOK /\ UuidInv /\ SecretInv /\ HostInv

--------------------------------------------------------------------------------
\* The services by name.
LEMMA ServiceNames ==
  /\ Len(Services) = 4
  /\ Services[1] = "nova-api" /\ Services[2] = "nova-scheduler"
  /\ Services[3] = "nova-conductor" /\ Services[4] = "nova-compute"
  /\ {Services[n] : n \in 1..Len(Services)} =
       {"nova-api", "nova-scheduler", "nova-conductor", "nova-compute"}
  BY DEF Services

\* The types in three parts.
StorageTypesInv == StorageTypes /\ pc \in Programs
ComputeTypes ==
  /\ machine \in Machines /\ virt \in {Absent, "kvm", "qemu"}
  /\ databases \subseteq Databases
  /\ running \subseteq {"nova-api", "nova-scheduler", "nova-conductor", "nova-compute"}
HostTypes == registered \in BOOLEAN /\ mapped \in BOOLEAN /\ seen \in BOOLEAN

\* Together they are the module's types.
LEMMA TypesInParts == TypeOK <=> StorageTypesInv /\ ComputeTypes /\ HostTypes
  BY ServiceNames DEF TypeOK, StorageTypesInv, ComputeTypes, HostTypes, Programs

\* Every step keeps the types of the storage.
LEMMA StorageTypeStep ==
  ASSUME StorageTypesInv, [Next]_vars
  PROVE  StorageTypesInv'
<1> USE StorageAssumption
      DEF Step, Frame, uuids, keys, confs, nova, storage, StorageTypesInv, StorageTypes,
          Programs
<1>1. CASE Begin  BY <1>1 DEF Begin, Start
<1>2. CASE End  BY <1>2 DEF End, Stop
<1>3. CASE IntegrateStorage /\ EnsurePool  BY <1>3 DEF IntegrateStorage, EnsurePool
<1>4. CASE IntegrateStorage /\ CreateKeyring
  BY <1>4 DEF IntegrateStorage, CreateKeyring, HasKeyring, NoKeyring
<1>5. CASE IntegrateStorage /\ ImportKey  BY <1>5 DEF IntegrateStorage, ImportKey
<1>6. CASE IntegrateStorage /\ Chown  BY <1>6 DEF IntegrateStorage, Chown, KeyringUser
<1>7. CASE IntegrateStorage /\ RbdUuid  BY <1>7 DEF IntegrateStorage, RbdUuid
<1>8. CASE IntegrateStorage /\ WriteUuid  BY <1>8 DEF IntegrateStorage, WriteUuid
<1>9. CASE IntegrateStorage /\ ConfigureCinder  BY <1>9 DEF IntegrateStorage, ConfigureCinder
<1>10. CASE IntegrateStorage /\ MarkCinder  BY <1>10 DEF IntegrateStorage, MarkCinder
<1>11. CASE IntegrateStorage /\ DefineSecret
  BY <1>11 DEF IntegrateStorage, DefineSecret, SecretHasValue
<1>12. CASE IntegrateStorage /\ SetSecretValue  BY <1>12 DEF IntegrateStorage, SetSecretValue
<1>13. CASE IntegrateStorage /\ ConfigureNova  BY <1>13 DEF IntegrateStorage, ConfigureNova
<1>14. CASE ConfigureVirt  BY <1>14 DEF ConfigureVirt
<1>15. CASE SyncDatabase("api_db", "api", "map_cell0")  BY <1>15 DEF SyncDatabase
<1>16. CASE SyncDatabase("map_cell0", "cell0", "list_cells")  BY <1>16 DEF SyncDatabase
<1>17. CASE ListCells  BY <1>17 DEF ListCells, HasCell
<1>18. CASE SyncDatabase("create_cell", "cell1", "db_sync")  BY <1>18 DEF SyncDatabase
<1>19. CASE SyncDatabase("db_sync", "main", Services[1])
  BY <1>19, ServiceNames DEF SyncDatabase
<1>20. ASSUME NEW n \in 1..Len(Services), RestartService(n) PROVE StorageTypesInv'
  BY <1>20, ServiceNames DEF RestartService
<1>21. CASE DiscoverHosts  BY <1>21 DEF DiscoverHosts, Discoverable
<1>22. CASE MarkNova  BY <1>22 DEF MarkNova
<1>23. CASE Registers  BY <1>23 DEF Registers
<1>24. CASE UNCHANGED vars  BY <1>24 DEF vars
<1> QED
  BY <1>1, <1>2, <1>3, <1>4, <1>5, <1>6, <1>7, <1>8, <1>9, <1>10, <1>11, <1>12, <1>13, <1>14,
       <1>15, <1>16, <1>17, <1>18, <1>19, <1>20, <1>21, <1>22, <1>23, <1>24
     DEF Next, IntegrateStorage, StorageStep, SetupNova

\* Every step keeps the types of nova's own variables.
LEMMA ComputeTypeStep ==
  ASSUME ComputeTypes, [Next]_vars
  PROVE  ComputeTypes'
<1> USE StorageAssumption
      DEF Step, Frame, uuids, keys, confs, nova, storage, ComputeTypes, Databases
<1>1. CASE Begin  BY <1>1 DEF Begin, Start
<1>2. CASE End  BY <1>2 DEF End, Stop
<1>3. CASE IntegrateStorage /\ EnsurePool  BY <1>3 DEF IntegrateStorage, EnsurePool
<1>4. CASE IntegrateStorage /\ CreateKeyring
  BY <1>4 DEF IntegrateStorage, CreateKeyring, HasKeyring, NoKeyring
<1>5. CASE IntegrateStorage /\ ImportKey  BY <1>5 DEF IntegrateStorage, ImportKey
<1>6. CASE IntegrateStorage /\ Chown  BY <1>6 DEF IntegrateStorage, Chown, KeyringUser
<1>7. CASE IntegrateStorage /\ RbdUuid  BY <1>7 DEF IntegrateStorage, RbdUuid
<1>8. CASE IntegrateStorage /\ WriteUuid  BY <1>8 DEF IntegrateStorage, WriteUuid
<1>9. CASE IntegrateStorage /\ ConfigureCinder  BY <1>9 DEF IntegrateStorage, ConfigureCinder
<1>10. CASE IntegrateStorage /\ MarkCinder  BY <1>10 DEF IntegrateStorage, MarkCinder
<1>11. CASE IntegrateStorage /\ DefineSecret
  BY <1>11 DEF IntegrateStorage, DefineSecret, SecretHasValue
<1>12. CASE IntegrateStorage /\ SetSecretValue  BY <1>12 DEF IntegrateStorage, SetSecretValue
<1>13. CASE IntegrateStorage /\ ConfigureNova  BY <1>13 DEF IntegrateStorage, ConfigureNova
<1>14. CASE ConfigureVirt  BY <1>14 DEF ConfigureVirt, VirtTypeOf
<1>15. CASE SyncDatabase("api_db", "api", "map_cell0")  BY <1>15 DEF SyncDatabase
<1>16. CASE SyncDatabase("map_cell0", "cell0", "list_cells")  BY <1>16 DEF SyncDatabase
<1>17. CASE ListCells  BY <1>17 DEF ListCells, HasCell
<1>18. CASE SyncDatabase("create_cell", "cell1", "db_sync")  BY <1>18 DEF SyncDatabase
<1>19. CASE SyncDatabase("db_sync", "main", Services[1])
  BY <1>19, ServiceNames DEF SyncDatabase
<1>20. ASSUME NEW n \in 1..Len(Services), RestartService(n) PROVE ComputeTypes'
  BY <1>20, ServiceNames DEF RestartService
<1>21. CASE DiscoverHosts  BY <1>21 DEF DiscoverHosts, Discoverable
<1>22. CASE MarkNova  BY <1>22 DEF MarkNova
<1>23. CASE Registers  BY <1>23 DEF Registers
<1>24. CASE UNCHANGED vars  BY <1>24 DEF vars
<1> QED
  BY <1>1, <1>2, <1>3, <1>4, <1>5, <1>6, <1>7, <1>8, <1>9, <1>10, <1>11, <1>12, <1>13, <1>14,
       <1>15, <1>16, <1>17, <1>18, <1>19, <1>20, <1>21, <1>22, <1>23, <1>24
     DEF Next, IntegrateStorage, StorageStep, SetupNova

\* Every step keeps what is known of the host a truth value.
LEMMA HostTypeStep ==
  ASSUME HostTypes, [Next]_vars
  PROVE  HostTypes'
  BY Zenon DEF Next, vars, HostTypes, IntegrateStorage, StorageStep, SetupNova, Step, Frame,
       uuids, keys, confs, nova, storage, Begin, Start, End, Stop, EnsurePool, CreateKeyring,
       ImportKey, Chown, RbdUuid, WriteUuid, ConfigureCinder, MarkCinder, DefineSecret,
       SetSecretValue, ConfigureNova, ConfigureVirt, SyncDatabase, ListCells, RestartService,
       DiscoverHosts, MarkNova, Registers

\* Every step keeps the uuid's copies together.
LEMMA UuidStep ==
  ASSUME StorageTypesInv, UuidInv, [Next]_vars
  PROVE  UuidInv'
<1> USE StorageAssumption
      DEF Step, Frame, uuids, keys, confs, nova, storage, UuidInv, StorageTypesInv,
          StorageTypes, BeforeUuid, BeforeNova, BeforeSecret, Programs
<1>1. CASE Begin  BY <1>1 DEF Begin, Start
<1>2. CASE End  BY <1>2 DEF End, Stop
<1>3. CASE IntegrateStorage /\ EnsurePool  BY <1>3 DEF IntegrateStorage, EnsurePool
<1>4. CASE IntegrateStorage /\ CreateKeyring
  BY <1>4 DEF IntegrateStorage, CreateKeyring, HasKeyring, NoKeyring
<1>5. CASE IntegrateStorage /\ ImportKey  BY <1>5 DEF IntegrateStorage, ImportKey
<1>6. CASE IntegrateStorage /\ Chown  BY <1>6 DEF IntegrateStorage, Chown, KeyringUser
<1>7. CASE IntegrateStorage /\ RbdUuid  BY <1>7 DEF IntegrateStorage, RbdUuid
<1>8. CASE IntegrateStorage /\ WriteUuid  BY <1>8 DEF IntegrateStorage, WriteUuid
<1>9. CASE IntegrateStorage /\ ConfigureCinder  BY <1>9 DEF IntegrateStorage, ConfigureCinder
<1>10. CASE IntegrateStorage /\ MarkCinder  BY <1>10 DEF IntegrateStorage, MarkCinder
<1>11. CASE IntegrateStorage /\ DefineSecret
  BY <1>11 DEF IntegrateStorage, DefineSecret, SecretHasValue
<1>12. CASE IntegrateStorage /\ SetSecretValue  BY <1>12 DEF IntegrateStorage, SetSecretValue
<1>13. CASE IntegrateStorage /\ ConfigureNova  BY <1>13 DEF IntegrateStorage, ConfigureNova
<1>14. CASE ConfigureVirt  BY <1>14 DEF ConfigureVirt
<1>15. CASE SyncDatabase("api_db", "api", "map_cell0")  BY <1>15 DEF SyncDatabase
<1>16. CASE SyncDatabase("map_cell0", "cell0", "list_cells")  BY <1>16 DEF SyncDatabase
<1>17. CASE ListCells  BY <1>17 DEF ListCells, HasCell
<1>18. CASE SyncDatabase("create_cell", "cell1", "db_sync")  BY <1>18 DEF SyncDatabase
<1>19. CASE SyncDatabase("db_sync", "main", Services[1])
  BY <1>19, ServiceNames DEF SyncDatabase
<1>20. ASSUME NEW n \in 1..Len(Services), RestartService(n) PROVE UuidInv'
  BY <1>20, ServiceNames DEF RestartService
<1>21. CASE DiscoverHosts  BY <1>21 DEF DiscoverHosts, Discoverable
<1>22. CASE MarkNova  BY <1>22 DEF MarkNova
<1>23. CASE Registers  BY <1>23 DEF Registers
<1>24. CASE UNCHANGED vars  BY <1>24 DEF vars
<1> QED
  BY <1>1, <1>2, <1>3, <1>4, <1>5, <1>6, <1>7, <1>8, <1>9, <1>10, <1>11, <1>12, <1>13, <1>14,
       <1>15, <1>16, <1>17, <1>18, <1>19, <1>20, <1>21, <1>22, <1>23, <1>24
     DEF Next, IntegrateStorage, StorageStep, SetupNova

\* Every step keeps the key's copies together, and the marked nova's secret.
LEMMA SecretStep ==
  ASSUME StorageTypesInv, UuidInv, SecretInv, [Next]_vars
  PROVE  SecretInv'
<1> USE StorageAssumption
      DEF Step, Frame, uuids, keys, confs, nova, storage, SecretInv, KeysAgree, NovaCanAttach,
          UuidInv, StorageTypesInv, StorageTypes, BeforeUuid, BeforeNova, BeforeSecret, Programs
<1>1. CASE Begin  BY <1>1 DEF Begin, Start
<1>2. CASE End  BY <1>2 DEF End, Stop
<1>3. CASE IntegrateStorage /\ EnsurePool  BY <1>3 DEF IntegrateStorage, EnsurePool
<1>4. CASE IntegrateStorage /\ CreateKeyring
  BY <1>4 DEF IntegrateStorage, CreateKeyring, HasKeyring, NoKeyring
<1>5. CASE IntegrateStorage /\ ImportKey  BY <1>5 DEF IntegrateStorage, ImportKey
<1>6. CASE IntegrateStorage /\ Chown  BY <1>6 DEF IntegrateStorage, Chown, KeyringUser
<1>7. CASE IntegrateStorage /\ RbdUuid  BY <1>7 DEF IntegrateStorage, RbdUuid
<1>8. CASE IntegrateStorage /\ WriteUuid  BY <1>8 DEF IntegrateStorage, WriteUuid
<1>9. CASE IntegrateStorage /\ ConfigureCinder  BY <1>9 DEF IntegrateStorage, ConfigureCinder
<1>10. CASE IntegrateStorage /\ MarkCinder  BY <1>10 DEF IntegrateStorage, MarkCinder
<1>11. CASE IntegrateStorage /\ DefineSecret
  BY <1>11 DEF IntegrateStorage, DefineSecret, SecretHasValue
<1>12. CASE IntegrateStorage /\ SetSecretValue  BY <1>12 DEF IntegrateStorage, SetSecretValue
<1>13. CASE IntegrateStorage /\ ConfigureNova  BY <1>13 DEF IntegrateStorage, ConfigureNova
<1>14. CASE ConfigureVirt  BY <1>14 DEF ConfigureVirt
<1>15. CASE SyncDatabase("api_db", "api", "map_cell0")  BY <1>15 DEF SyncDatabase
<1>16. CASE SyncDatabase("map_cell0", "cell0", "list_cells")  BY <1>16 DEF SyncDatabase
<1>17. CASE ListCells  BY <1>17 DEF ListCells, HasCell
<1>18. CASE SyncDatabase("create_cell", "cell1", "db_sync")  BY <1>18 DEF SyncDatabase
<1>19. CASE SyncDatabase("db_sync", "main", Services[1])
  BY <1>19, ServiceNames DEF SyncDatabase
<1>20. ASSUME NEW n \in 1..Len(Services), RestartService(n) PROVE SecretInv'
  BY <1>20, ServiceNames DEF RestartService
<1>21. CASE DiscoverHosts  BY <1>21 DEF DiscoverHosts, Discoverable
<1>22. CASE MarkNova  BY <1>22 DEF MarkNova
<1>23. CASE Registers  BY <1>23 DEF Registers
<1>24. CASE UNCHANGED vars  BY <1>24 DEF vars
<1> QED
  BY <1>1, <1>2, <1>3, <1>4, <1>5, <1>6, <1>7, <1>8, <1>9, <1>10, <1>11, <1>12, <1>13, <1>14,
       <1>15, <1>16, <1>17, <1>18, <1>19, <1>20, <1>21, <1>22, <1>23, <1>24
     DEF Next, IntegrateStorage, StorageStep, SetupNova

\* Every step keeps what is known of the host.
LEMMA HostStep ==
  ASSUME HostInv, [Next]_vars
  PROVE  HostInv'
<1> USE StorageAssumption
      DEF Step, Frame, uuids, keys, confs, nova, storage, HostInv, KnownHostMapped
<1>1. CASE Begin  BY <1>1 DEF Begin, Start
<1>2. CASE End  BY <1>2 DEF End, Stop
<1>3. CASE IntegrateStorage /\ EnsurePool  BY <1>3 DEF IntegrateStorage, EnsurePool
<1>4. CASE IntegrateStorage /\ CreateKeyring
  BY <1>4 DEF IntegrateStorage, CreateKeyring, HasKeyring, NoKeyring
<1>5. CASE IntegrateStorage /\ ImportKey  BY <1>5 DEF IntegrateStorage, ImportKey
<1>6. CASE IntegrateStorage /\ Chown  BY <1>6 DEF IntegrateStorage, Chown, KeyringUser
<1>7. CASE IntegrateStorage /\ RbdUuid  BY <1>7 DEF IntegrateStorage, RbdUuid
<1>8. CASE IntegrateStorage /\ WriteUuid  BY <1>8 DEF IntegrateStorage, WriteUuid
<1>9. CASE IntegrateStorage /\ ConfigureCinder  BY <1>9 DEF IntegrateStorage, ConfigureCinder
<1>10. CASE IntegrateStorage /\ MarkCinder  BY <1>10 DEF IntegrateStorage, MarkCinder
<1>11. CASE IntegrateStorage /\ DefineSecret
  BY <1>11 DEF IntegrateStorage, DefineSecret, SecretHasValue
<1>12. CASE IntegrateStorage /\ SetSecretValue  BY <1>12 DEF IntegrateStorage, SetSecretValue
<1>13. CASE IntegrateStorage /\ ConfigureNova  BY <1>13 DEF IntegrateStorage, ConfigureNova
<1>14. CASE ConfigureVirt  BY <1>14 DEF ConfigureVirt
<1>15. CASE SyncDatabase("api_db", "api", "map_cell0")  BY <1>15 DEF SyncDatabase
<1>16. CASE SyncDatabase("map_cell0", "cell0", "list_cells")  BY <1>16 DEF SyncDatabase
<1>17. CASE ListCells  BY <1>17 DEF ListCells, HasCell
<1>18. CASE SyncDatabase("create_cell", "cell1", "db_sync")  BY <1>18 DEF SyncDatabase
<1>19. CASE SyncDatabase("db_sync", "main", Services[1])
  BY <1>19, ServiceNames DEF SyncDatabase
<1>20. ASSUME NEW n \in 1..Len(Services), RestartService(n) PROVE HostInv'
  BY <1>20, ServiceNames DEF RestartService
<1>21. CASE DiscoverHosts  BY <1>21 DEF DiscoverHosts, Discoverable
<1>22. CASE MarkNova  BY <1>22 DEF MarkNova
<1>23. CASE Registers  BY <1>23 DEF Registers
<1>24. CASE UNCHANGED vars  BY <1>24 DEF vars
<1> QED
  BY <1>1, <1>2, <1>3, <1>4, <1>5, <1>6, <1>7, <1>8, <1>9, <1>10, <1>11, <1>12, <1>13, <1>14,
       <1>15, <1>16, <1>17, <1>18, <1>19, <1>20, <1>21, <1>22, <1>23, <1>24
     DEF Next, IntegrateStorage, StorageStep, SetupNova

--------------------------------------------------------------------------------
(***************************************************************************)
(* The theorems.                                                            *)
(***************************************************************************)

\* Before the first command nothing of cinder's or nova's is there.
LEMMA Initially == Init => IInv
<1> SUFFICES ASSUME Init PROVE IInv
  OBVIOUS
<1> USE DEF Init, InitStorage
<1>1. StorageTypesInv
  BY DEF StorageTypesInv, StorageTypes, Programs, NoKeyring, NoSecret
<1>2. ComputeTypes  BY DEF ComputeTypes
<1>3. HostTypes  BY Zenon DEF HostTypes
<1>4. UuidInv  BY StorageAssumption DEF UuidInv, BeforeUuid, BeforeSecret, BeforeNova, NoSecret
<1>5. SecretInv
  BY DEF SecretInv, KeysAgree, NovaCanAttach, BeforeSecret, BeforeNova, BeforeUuid, NoSecret
<1>6. HostInv  BY DEF HostInv, KnownHostMapped
<1> QED  BY <1>1, <1>2, <1>3, <1>4, <1>5, <1>6, TypesInParts DEF IInv

\* Every step keeps the invariant.
LEMMA Inductive == IInv /\ [Next]_vars => IInv'
<1> SUFFICES ASSUME IInv, [Next]_vars PROVE IInv'
  OBVIOUS
<1>1. StorageTypesInv /\ ComputeTypes /\ HostTypes /\ UuidInv /\ SecretInv /\ HostInv
  BY TypesInParts DEF IInv
<1>2. StorageTypesInv'  BY <1>1, StorageTypeStep
<1>3. ComputeTypes'  BY <1>1, ComputeTypeStep
<1>4. HostTypes'  BY <1>1, HostTypeStep
<1>5. UuidInv'  BY <1>1, UuidStep
<1>6. SecretInv'  BY <1>1, SecretStep
<1>7. HostInv'  BY <1>1, HostStep
<1>8. TypeOK' <=> StorageTypesInv' /\ ComputeTypes' /\ HostTypes'
  BY ServiceNames DEF TypeOK, StorageTypesInv, ComputeTypes, HostTypes, Programs
<1> QED  BY <1>2, <1>3, <1>4, <1>5, <1>6, <1>7, <1>8 DEF IInv

\* The invariant holds, whatever is cut short where.
THEOREM ComputeInvariant == Spec => []IInv
  BY Initially, Inductive, PTL DEF Spec

\* The types of the files, the secret, the configurations and the cells.
THEOREM ComputeTypesHold == Spec => []TypeOK
<1>1. IInv => TypeOK  BY DEF IInv
<1> QED  BY <1>1, ComputeInvariant, PTL

\* ensure_authenticate and ensure_libvirt_ceph_secret: the keyring, the cluster
\* and the secret never hold different keys.
THEOREM OneKey == Spec => []KeysAgree
<1>1. IInv => KeysAgree  BY DEF IInv, SecretInv
<1> QED  BY <1>1, ComputeInvariant, PTL

\* A marked nova, and cinder's configuration, name a secret that holds the key.
THEOREM MarkedNovaAttaches == Spec => []NovaCanAttach
<1>1. IInv => NovaCanAttach  BY DEF IInv, SecretInv
<1> QED  BY <1>1, ComputeInvariant, PTL

\* A host that was registered before the command that marked nova is mapped.
THEOREM KnownHostsMapped == Spec => []KnownHostMapped
<1>1. IInv => KnownHostMapped  BY DEF IInv, HostInv
<1> QED  BY <1>1, ComputeInvariant, PTL
================================================================================
