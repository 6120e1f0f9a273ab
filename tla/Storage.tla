-------------------------------- MODULE Storage --------------------------------
(***************************************************************************)
(* The users of the cluster Ceph.tla sets up: cinder's setup() and then      *)
(* nova's integration with it, in this order in one process, cut short       *)
(* anywhere and run again.  They share a pool, the key of client.volumes (in *)
(* a file, in the cluster and in libvirt's secret) and the secret's uuid (in *)
(* a file and in both services' configurations).  Compute.tla goes on to the  *)
(* rest of nova's setup().                                                  *)
(***************************************************************************)
EXTENDS Naturals

CONSTANTS
  Uuids,   \* what uuid4 returns
  CephxKeys,  \* what ceph-authtool --gen-key returns
  Absent,  \* no such file, key, option or secret
  Empty    \* a file opened for writing and never written

VARIABLES
  pc,
  uuid,       \* lru_cache of rbd_uuid
  rbdFile,    \* RBD_UUID
  pool,       \* the pool volumes exists
  keyring,    \* /etc/ceph/ceph.client.volumes.keyring: its key and owner
  auth,       \* the key the cluster knows client.volumes by
  secret,     \* libvirt's secret: its uuid and value
  cinderConf, novaConf,  \* rbd_secret_uuid in either file
  marks       \* the marks of cinder and nova

uuids == << uuid, rbdFile >>
keys  == << keyring, auth >>
confs == << cinderConf, novaConf >>
storage == << pc, uuids, pool, keys, secret, confs, marks >>

Step(from, to) == pc = from /\ pc' = to

NoSecret  == [uuid |-> Absent, key |-> Absent]
NoKeyring == [key |-> Absent, owner |-> Absent]

ASSUME StorageAssumption ==
  Absent \notin Uuids /\ Empty \notin Uuids /\ Absent # Empty /\ Absent \notin CephxKeys

--------------------------------------------------------------------------------
InitStorage ==
  /\ pc = "idle" /\ uuid = Absent /\ rbdFile = Absent /\ pool = FALSE
  /\ keyring = NoKeyring /\ auth = Absent /\ secret = NoSecret
  /\ cinderConf = Absent /\ novaConf = Absent /\ marks = {}

\* cinder's setup() gets to the cluster; nova's, of the same plan, follows.
Start == Step("idle", "pool") /\ UNCHANGED << uuids, pool, keys, secret, confs, marks >>

\* A command raises, or the process is killed.
Stop ==
  /\ pc # "idle" /\ pc' = "idle" /\ uuid' = Absent
  /\ UNCHANGED << rbdFile, pool, keys, secret, confs, marks >>

\* ensure_pool, of cinder's setup() and of nova's.
EnsurePool ==
  /\ Step("pool", "keyring") \/ Step("nova_pool", "secret")
  /\ pool' = TRUE
  /\ UNCHANGED << uuids, keys, secret, confs, marks >>

\* Mutant: the keyring is made in every run.
NeverHasKeyring == FALSE

HasKeyring == keyring # NoKeyring

\* ensure_authenticate up to ceph-authtool.
CreateKeyring ==
  /\ pc = "keyring"
  /\ IF HasKeyring
     THEN pc' = "rbd_uuid" /\ UNCHANGED keyring
     ELSE /\ pc' = "import"
          /\ \E k \in CephxKeys \ {auth, secret.key} : keyring' = [key |-> k, owner |-> "root"]
  /\ UNCHANGED << uuids, pool, auth, secret, confs, marks >>

\* ceph auth import.
ImportKey ==
  /\ Step("import", "chown")
  /\ auth' = keyring.key
  /\ UNCHANGED << uuids, pool, keyring, secret, confs, marks >>

\* Mutant: the keyring is given to the user in ceph, not to the service's.
KeyringUserInCeph == "volumes"

KeyringUser == "cinder"

\* chown, and a chmod that changes nothing ceph-authtool had not done.
Chown ==
  /\ Step("chown", "rbd_uuid")
  /\ keyring' = [keyring EXCEPT !.owner = KeyringUser]
  /\ UNCHANGED << uuids, pool, auth, secret, confs, marks >>

\* rbd_uuid reads the file or, with a new uuid at hand, opens it.
RbdUuid ==
  /\ pc = "rbd_uuid"
  /\ IF rbdFile # Absent
     THEN uuid' = rbdFile /\ pc' = "cinder_conf" /\ UNCHANGED rbdFile
     ELSE /\ uuid' \in Uuids \ {secret.uuid, cinderConf, novaConf}
          /\ rbdFile' = Empty /\ pc' = "write_uuid"
  /\ UNCHANGED << pool, keys, secret, confs, marks >>

WriteUuid ==
  /\ Step("write_uuid", "cinder_conf")
  /\ rbdFile' = uuid
  /\ UNCHANGED << uuid, pool, keys, secret, confs, marks >>

\* cfg_set of cinder.conf.
ConfigureCinder ==
  /\ Step("cinder_conf", "cinder_mark")
  /\ cinderConf' = uuid
  /\ UNCHANGED << uuids, pool, keys, secret, novaConf, marks >>

\* cinder's database and services, and its mark; nova's setup() begins.
MarkCinder ==
  /\ Step("cinder_mark", "nova")
  /\ marks' = marks \cup {"cinder"}
  /\ UNCHANGED << uuids, pool, keys, secret, confs >>

--------------------------------------------------------------------------------
\* Mutant: a secret that is defined is taken to have a value.
SecretDefined == secret.uuid = uuid

SecretHasValue == secret.uuid = uuid /\ secret.key # Absent

\* ensure_libvirt_ceph_secret: a secret that has a value is kept, else it is
\* defined (again).  libvirt defines none with an empty uuid.
DefineSecret ==
  /\ pc = "secret"
  /\ IF SecretHasValue
     THEN pc' = "nova_conf" /\ UNCHANGED secret
     ELSE uuid # Empty /\ secret' = [uuid |-> uuid, key |-> Absent] /\ pc' = "set_value"
  /\ UNCHANGED << uuids, pool, keys, confs, marks >>

\* ceph auth get-key fails for a name the cluster does not know.
SetSecretValue ==
  /\ Step("set_value", "nova_conf")
  /\ auth # Absent
  /\ secret' = [secret EXCEPT !.key = auth]
  /\ UNCHANGED << uuids, pool, keys, confs, marks >>

\* The second cfg_set of nova.conf: all its arguments have been computed.
ConfigureNova ==
  /\ Step("nova_conf", "api_db")
  /\ novaConf' = uuid
  /\ UNCHANGED << uuids, pool, keys, secret, cinderConf, marks >>

StorageStep ==
  \/ EnsurePool \/ CreateKeyring \/ ImportKey \/ Chown \/ RbdUuid \/ WriteUuid
  \/ ConfigureCinder \/ MarkCinder
  \/ DefineSecret \/ SetSecretValue \/ ConfigureNova

--------------------------------------------------------------------------------
\* The types of the variables but the process's position.
StorageTypes ==
  /\ {uuid, rbdFile, cinderConf, novaConf} \subseteq Uuids \cup {Absent, Empty}
  /\ pool \in BOOLEAN
  /\ keyring \in [key : CephxKeys \cup {Absent}, owner : {Absent, "root", "cinder"}]
  /\ auth \in CephxKeys \cup {Absent}
  /\ secret \in [uuid : Uuids \cup {Absent, Empty}, key : CephxKeys \cup {Absent}]
  /\ marks \subseteq {"cinder", "nova"}

\* The three copies of the key never diverge: the secret that qemu presents
\* holds the key the cluster knows, which is the one in cinder's keyring,
\* whichever runs made them.
KeysAgree ==
  /\ auth # Absent => keyring.key = auth
  /\ secret.key # Absent => secret.key = auth

\* A marked nova can attach cinder's volumes: both services name the secret of
\* the uuid file, and that one has a value.  Runs that were cut short in cinder's
\* half or in nova's leave no nova marked without it.
NovaCanAttach ==
  "nova" \in marks =>
    /\ novaConf = rbdFile /\ cinderConf = rbdFile
    /\ secret.uuid = rbdFile /\ secret.key = auth /\ auth # Absent
    /\ pool

\* utils.py:174 and utils.py:182, "Mark task as done." and "Check if task is
\* done.": the cluster knows the key of a marked cinder, which can read it.
CinderCanConnect ==
  "cinder" \in marks => auth = keyring.key /\ keyring.owner = "cinder"
================================================================================
