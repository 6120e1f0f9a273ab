--------------------------------- MODULE Ceph ---------------------------------
(***************************************************************************)
(* modules/ceph.py: setup() of a one node cluster, run again after a command *)
(* of it failed, its process was killed or the machine was rebooted.  Every  *)
(* step keeps what earlier runs left (exists_cache), so what matters is      *)
(* which file a step is skipped for and what has not been done yet when that *)
(* file exists.                                                             *)
(***************************************************************************)
EXTENDS Integers, Sequences, FiniteSets

CONSTANTS
  Uuids,     \* what uuid4 returns
  Absent,    \* no such file, or nothing in the process's cache
  Empty,     \* a file opened for writing and never written
  NumOsds    \* the loop devices, three in the code

Keyrings == << "mon", "mgr", "admin", "osd" >>
Keys == {Keyrings[k] : k \in 1..4}
Devices == 0..NumOsds - 1

\* my_ip: the address of the default route's interface, or the loopback's when
\* asking for it fails.
MyIp(routed) == IF routed THEN "route" ELSE "127.0.0.1"
Addresses == {MyIp(routed) : routed \in BOOLEAN}

\* The contents of ceph.conf, of the monitor's map and of its store, and the ids
\* a device can be labelled with.
Conf == [fsid : Uuids \cup {Empty}, host : Addresses]
Monmap == [fsid : Uuids, host : Addresses]
Store == [fsid : Uuids, keys : SUBSET Keys]
Numbers == Devices \cup {Absent}

ASSUME CephAssumption ==
  /\ NumOsds \in Nat \ {0}
  /\ Absent \notin Uuids /\ Empty \notin Uuids /\ Absent # Empty
  /\ Absent \notin Conf /\ Absent \notin Monmap /\ Absent \notin Store
  /\ Absent \notin Devices /\ Absent \notin {"root", "ceph"}

VARIABLES
  pc,
  at,        \* position in Keyrings, or the number of the device
  uuid,      \* lru_cache of ceph_uuid
  fsidFile,
  conf,      \* ceph.conf: its fsid and mon host
  keyring,   \* who owns each keyring file
  imported,  \* the keys imported into the monitor's keyring file
  monmap,    \* the fsid and the address in the map
  store,     \* what mkfs made the monitor's store from
  done,      \* MON_SETUP_DONE and MGR_SETUP_DONE
  image,     \* the files ceph-i behind the loop devices
  loop,      \* the files losetup has attached
  ids,       \* the monitor's osd ids are those below
  osdId,     \* the id each device was prepared with
  unit,      \* CEPH_OSD_UNIT_PATH
  serving,   \* the device each osd was activated on
  up, osdUp, \* the daemons and the osds systemd has started
  marked     \* ceph.setup

files == << fsidFile, conf, keyring, imported >>
mons  == << monmap, store, done >>
osds  == << image, loop, ids, osdId, unit, serving >>
units == << up, osdUp, marked >>
vars  == << pc, at, uuid, files, mons, osds, units >>

Step(from, to) == pc = from /\ pc' = to

--------------------------------------------------------------------------------
Init ==
  /\ pc = "idle" /\ at = 0 /\ uuid = Absent
  /\ fsidFile = Absent /\ conf = Absent /\ monmap = Absent /\ store = Absent
  /\ keyring = [k \in Keys |-> Absent] /\ imported = {} /\ done = {}
  /\ image = {} /\ loop = {} /\ ids = 0
  /\ osdId = [d \in Devices |-> Absent] /\ serving = [i \in Devices |-> Absent]
  /\ unit = Absent /\ up = {} /\ osdUp = {} /\ marked = FALSE

Start == Step("idle", "fsid") /\ UNCHANGED << at, uuid, files, mons, osds, units >>

Exit == pc' = "idle" /\ at' = 0 /\ uuid' = Absent

\* A command raises and the exception ends the process, or it is killed.
Stop == pc # "idle" /\ Exit /\ UNCHANGED << files, mons, osds, units >>

\* Loop devices do not survive a reboot, nor do osds without them; the other
\* daemons come back if their units have been enabled.
Reboot ==
  /\ Exit
  /\ loop' = {} /\ osdUp' = {}
  /\ up' \in {{}, up}
  /\ UNCHANGED << files, mons, image, ids, osdId, unit, serving, marked >>

NewUuids ==
  Uuids \ {f.fsid : f \in {conf, monmap, store} \ {Absent}}

\* Mutant: the file is not read back.
NeverHasFsidFile == FALSE

HasFsidFile == fsidFile # Absent

\* ceph_uuid reads the file or, with a new uuid at hand, opens it.
CephUuid ==
  /\ pc = "fsid"
  /\ IF HasFsidFile
     THEN uuid' = fsidFile /\ pc' = "conf" /\ UNCHANGED fsidFile
     ELSE uuid' \in NewUuids /\ fsidFile' = Empty /\ pc' = "write_fsid"
  /\ UNCHANGED << at, conf, keyring, imported, mons, osds, units >>

WriteUuid ==
  /\ Step("write_fsid", "conf")
  /\ fsidFile' = uuid
  /\ UNCHANGED << at, uuid, conf, keyring, imported, mons, osds, units >>

\* cfg_set of ceph.conf, with the address my_ip then caches.
Configure ==
  /\ Step("conf", "keyring")
  /\ \E routed \in BOOLEAN : conf' = [fsid |-> uuid, host |-> MyIp(routed)]
  /\ at' = 1
  /\ UNCHANGED << uuid, fsidFile, keyring, imported, mons, osds, units >>

--------------------------------------------------------------------------------
\* setup_*_keyring: made by ceph-authtool, as root; two are then handed over.
CreateKeyring ==
  /\ pc = "keyring" /\ at <= 4
  /\ LET k == Keyrings[at]
         shared == keyring[k] = Absent /\ k \in {"mon", "mgr"}
     IN  /\ keyring' = IF keyring[k] = Absent THEN [keyring EXCEPT ![k] = "root"] ELSE keyring
         /\ at' = IF shared THEN at ELSE at + 1
         /\ pc' = IF shared THEN "chown" ELSE pc
  /\ UNCHANGED << uuid, fsidFile, conf, imported, mons, osds, units >>

\* ln -s of the monitor's, and shutil.chown.
Chown ==
  /\ Step("chown", "keyring")
  /\ keyring' = [keyring EXCEPT ![Keyrings[at]] = "ceph"]
  /\ at' = at + 1
  /\ UNCHANGED << uuid, fsidFile, conf, imported, mons, osds, units >>

\* Mutant: the import is not taken up again where it was cut short.
FirstToImportOnce == IF imported = {} THEN 2 ELSE 5

\* import_keyrings: the other three into the monitor's, in every run.
FirstToImport == 2

BeginImport ==
  /\ Step("keyring", "import")
  /\ at > 4 /\ at' = FirstToImport
  /\ UNCHANGED << uuid, files, mons, osds, units >>

ImportKeyring ==
  /\ pc = "import" /\ at <= 4
  /\ imported' = imported \cup {Keyrings[at]}
  /\ at' = at + 1
  /\ UNCHANGED << pc, uuid, fsidFile, conf, keyring, mons, osds, units >>

\* Mutant: setup_mon looks for the folder that ensure_ceph_folders makes.
MonFolderExists == TRUE

MonDone == "mon" \in done

EndImport ==
  /\ Step("import", IF MonDone THEN "mgr" ELSE "monmap")
  /\ at > 4
  /\ UNCHANGED << at, uuid, files, mons, osds, units >>

--------------------------------------------------------------------------------
\* Mutant: monmaptool takes whatever the file held.
MonmaptoolTakesAny(f) == TRUE

\* monmaptool refuses an empty --fsid.
MonmaptoolTakes(f) == f # Empty

\* monmap(), with the address of the configuration this process has written.
CreateMonmap ==
  /\ Step("monmap", "mkfs")
  /\ \/ monmap # Absent /\ UNCHANGED monmap
     \/ /\ monmap = Absent /\ MonmaptoolTakes(uuid)
        /\ monmap' = [fsid |-> uuid, host |-> conf.host]
  /\ UNCHANGED << at, uuid, files, store, done, osds, units >>

\* ceph-mon --mkfs runs as user ceph, and leaves a store that exists alone.
Mkfs ==
  /\ Step("mkfs", "touch_mon")
  /\ keyring["mon"] = "ceph"
  /\ store' = IF store = Absent
              THEN [fsid |-> monmap.fsid, keys |-> {"mon"} \cup imported] ELSE store
  /\ UNCHANGED << at, uuid, files, monmap, done, osds, units >>

TouchMon ==
  /\ Step("touch_mon", "restart_mon")
  /\ done' = done \cup {"mon"}
  /\ UNCHANGED << at, uuid, files, monmap, store, osds, units >>

RestartMon ==
  /\ Step("restart_mon", "mgr")
  /\ up' = up \cup {"mon"}
  /\ UNCHANGED << at, uuid, files, mons, osds, osdUp, marked >>

\* setup_mgr up to the restart; then the loop over the devices begins.
SetupMgr ==
  /\ pc = "mgr"
  /\ at' = 0
  /\ IF "mgr" \in done
     THEN pc' = "osd" /\ UNCHANGED up
     ELSE pc' = "touch_mgr" /\ up' = up \cup {"mgr"}
  /\ UNCHANGED << uuid, files, mons, osds, osdUp, marked >>

TouchMgr ==
  /\ Step("touch_mgr", "osd")
  /\ done' = done \cup {"mgr"}
  /\ UNCHANGED << at, uuid, files, monmap, store, osds, units >>

--------------------------------------------------------------------------------
\* Mutant: a device is passed over only once its osd is up.
PassedOverOnceUp(d) == d \in osdUp

\* exists_cache around setup_osd(d) looks for the file that dd creates first.
PassedOver(d) == d \in image

NextOsd ==
  /\ pc = "osd" /\ at < NumOsds
  /\ IF PassedOver(at)
     THEN at' = at + 1 /\ UNCHANGED << pc, image >>
     ELSE image' = image \cup {at} /\ pc' = "prepare" /\ UNCHANGED at
  /\ UNCHANGED << uuid, files, mons, loop, ids, osdId, unit, serving, units >>

\* losetup, wipefs, sgdisk, and the first half of ceph-volume raw prepare, which
\* has the monitor hand out the lowest free id to the bootstrap-osd key.  The
\* monitor is looked for at the address in ceph.conf.
NewOsdId ==
  /\ Step("prepare", "label")
  /\ "mon" \in up /\ "osd" \in store.keys /\ conf.host = monmap.host
  /\ loop' = loop \cup {at}
  /\ ids' = ids + 1
  /\ UNCHANGED << at, uuid, files, mons, image, osdId, unit, serving, units >>

\* The second half labels the device.
Label ==
  /\ Step("label", "activate")
  /\ osdId' = [osdId EXCEPT ![at] = ids - 1]
  /\ UNCHANGED << at, uuid, files, mons, image, loop, ids, unit, serving, units >>

\* When the first half fails after it has an id, ceph-volume has the monitor take
\* that id back, and then fails.  Where that fails too, or is killed, see Stop.
RollBack ==
  /\ pc = "label"
  /\ ids' = ids - 1
  /\ Exit
  /\ UNCHANGED << files, mons, image, loop, osdId, unit, serving, units >>

\* Mutant: activate without --osd-id takes any device that is free.
HoldsAny(d, i) == osdId[d] # Absent /\ \A j \in Devices : serving[j] # d

Holds(d, i) == osdId[d] = i

\* ceph-volume raw activate --osd-id works on the attached device with that
\* label, and fails when there is none.
Activated == \E d \in loop : Holds(d, at) /\ serving' = [serving EXCEPT ![at] = d]

\* Without systemd support it fails, is told so, and makes the unit first.
Activate ==
  /\ pc = "activate"
  /\ \/ Activated /\ pc' = "restart_osd" /\ UNCHANGED unit
     \/ unit = Absent /\ unit' = Empty /\ pc' = "write_unit" /\ UNCHANGED serving
     \/ unit # Absent /\ pc' = "no_systemd" /\ UNCHANGED << unit, serving >>
  /\ UNCHANGED << at, uuid, files, mons, image, loop, ids, osdId, units >>

WriteUnit ==
  /\ Step("write_unit", "no_systemd")
  /\ unit' = "whole"
  /\ UNCHANGED << at, uuid, files, mons, image, loop, ids, osdId, serving, units >>

ActivateNoSystemd ==
  /\ Step("no_systemd", "restart_osd")
  /\ Activated
  /\ UNCHANGED << at, uuid, files, mons, image, loop, ids, osdId, unit, units >>

\* systemd refuses an empty unit.
RestartOsd ==
  /\ Step("restart_osd", "osd")
  /\ unit # Empty
  /\ osdUp' = osdUp \cup {at}
  /\ at' = at + 1
  /\ UNCHANGED << uuid, files, mons, osds, up, marked >>

Returned == pc = "osd" /\ at >= NumOsds

\* setup() has returned: mark_setup("ceph").
Mark ==
  /\ Returned
  /\ marked' = TRUE
  /\ Exit
  /\ UNCHANGED << files, mons, osds, up, osdUp >>

Next ==
  \/ Start \/ Stop \/ Reboot
  \/ CephUuid \/ WriteUuid \/ Configure
  \/ CreateKeyring \/ Chown \/ BeginImport \/ ImportKeyring \/ EndImport
  \/ CreateMonmap \/ Mkfs \/ TouchMon \/ RestartMon \/ SetupMgr \/ TouchMgr
  \/ NextOsd \/ NewOsdId \/ Label \/ RollBack \/ Activate \/ WriteUnit
  \/ ActivateNoSystemd \/ RestartOsd \/ Mark

Spec == Init /\ [][Next]_vars

--------------------------------------------------------------------------------
\* The types of the variables of the process and of the disk.
TypeOK ==
  /\ pc \in {"idle", "fsid", "write_fsid", "conf", "keyring", "chown", "import", "monmap",
             "mkfs", "touch_mon", "restart_mon", "mgr", "touch_mgr", "osd", "prepare",
             "label", "activate", "write_unit", "no_systemd", "restart_osd"}
  /\ at \in 0..NumOsds + 5
  /\ uuid \in Uuids \cup {Absent, Empty} /\ fsidFile \in Uuids \cup {Absent, Empty}
  /\ conf \in Conf \cup {Absent} /\ monmap \in Monmap \cup {Absent}
  /\ store \in Store \cup {Absent}
  /\ keyring \in [Keys -> {Absent, "root", "ceph"}] /\ imported \subseteq Keys
  /\ done \subseteq {"mon", "mgr"} /\ up \subseteq {"mon", "mgr"} /\ marked \in BOOLEAN
  /\ image \subseteq Devices /\ loop \subseteq Devices /\ osdUp \subseteq Devices
  /\ ids \in 0..NumOsds /\ osdId \in [Devices -> Numbers] /\ serving \in [Devices -> Numbers]
  /\ unit \in {Absent, Empty, "whole"}

\* The cluster has one fsid: whichever run wrote the configuration last, it and
\* the file name the cluster the monitor's store and map were made for, although
\* each run computes the uuid again.
FsidAgreement ==
  /\ store # Absent => monmap # Absent /\ store.fsid = monmap.fsid
  /\ monmap # Absent => conf.fsid = monmap.fsid /\ fsidFile = monmap.fsid

\* The monitor's store is made from a keyring with all four keys in it, even
\* when the runs that created and imported them were cut short: a store made
\* without one can never be given it by running setup again.
StoreHasAllKeys == store # Absent => store.keys = Keys

\* Devices are told apart by their place in the loop, osds by the ids the
\* monitor hands out and may be given back, and failures leave gaps between the
\* two: still, an osd is only ever activated on the device of its own number.
OsdOnOwnDevice == \A i \in Devices : serving[i] \in {i, Absent}

\* The mark ceph.setup stands for a cluster with a monitor made from whole
\* inputs and a manager that has been started: the steps before the osds.
MarkedHasMonitor ==
  marked =>
    /\ store # Absent /\ done = {"mon", "mgr"}
    /\ keyring["mon"] = "ceph" /\ conf.fsid = store.fsid

TheCluster ==
  INSTANCE Cluster WITH fsid <- IF store = Absent THEN Absent ELSE store.fsid

\* setup() implements the cluster that is made once and keeps what it holds: no rerun,
\* whatever file it is skipped for, makes the store again, takes a label off a
\* device or puts an osd on a device that is not its own.
ImplementsCluster == TheCluster!Spec

\* utils.py:174 and utils.py:182, "Mark task as done." and "Check if task is
\* done.": when setup() returns, and is about to be marked, the cluster is up
\* and its clients look for it where it is.
MarkedIsDone ==
  Returned => up = {"mon", "mgr"} /\ osdUp = Devices /\ conf.host = monmap.host
================================================================================
