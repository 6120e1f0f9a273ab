------------------------------ MODULE CephProofs ------------------------------
(***************************************************************************)
(* The cluster of modules/ceph.py, for any number of osds and any sequence   *)
(* of setups, each cut short anywhere, and reboots.                          *)
(***************************************************************************)
EXTENDS Ceph, TLAPS

--------------------------------------------------------------------------------
(***************************************************************************)
(* The inductive invariant.                                                 *)
(***************************************************************************)

\* The fsid at hand is the file's from the moment it has been read or written,
\* and the configuration's from the moment that is; the file is only written
\* while there is no map.
FsidInv ==
  /\ pc = "write_fsid" => uuid \in Uuids /\ monmap = Absent
  /\ pc \notin {"idle", "fsid", "write_fsid"} => uuid = fsidFile /\ uuid # Absent
  /\ pc \notin {"idle", "fsid", "write_fsid", "conf"} => conf # Absent /\ conf.fsid = uuid
  /\ FsidAgreement

\* Keyrings are imported in their order, and all of them before mkfs.
KeyInv ==
  /\ pc = "keyring" => at \in 1..5
  /\ pc = "chown" => at \in 1..2
  /\ pc = "import" => at \in 2..5 /\ \A k \in 2..4 : k < at => Keyrings[k] \in imported
  /\ pc \in {"monmap", "mkfs"} => {"mgr", "admin", "osd"} \subseteq imported
  /\ StoreHasAllKeys

OsdPhase == {"prepare", "label", "activate", "write_unit", "no_systemd", "restart_osd"}

\* What the files and daemons of the monitor and the manager stand for.
MonInv ==
  /\ pc = "mkfs" => monmap # Absent
  /\ pc \in {"touch_mon", "restart_mon"} => store # Absent
  /\ "mon" \in done \/ "mon" \in up => store # Absent
  /\ store # Absent => keyring["mon"] = "ceph"
  /\ pc \in {"restart_mon", "mgr", "touch_mgr"} => "mon" \in done
  /\ pc \in {"osd"} \cup OsdPhase \/ marked => done = {"mon", "mgr"}

\* The files of the devices are a prefix of them, n long, and no more ids than
\* that are in use, as each run that has the monitor hand one out makes a file
\* first; an id is never greater than its device's number.
Prefix(n) ==
  /\ image = 0..n - 1 /\ ids <= n
  /\ pc = "touch_mgr" => at = 0
  /\ pc = "osd" => at <= n
  /\ pc \in OsdPhase => at = n - 1
  /\ pc = "prepare" => ids < n

OsdInv ==
  /\ \E n \in 0..NumOsds : Prefix(n)
  /\ \A d \in Devices : osdId[d] # Absent => d \in image /\ osdId[d] <= d /\ osdId[d] < ids
  /\ pc \in {"prepare", "label"} => osdId[at] = Absent
  /\ pc = "label" => ids > 0 /\ \A d \in Devices : osdId[d] # ids - 1
  /\ OsdOnOwnDevice

IInv == TypeOK /\ FsidInv /\ KeyInv /\ MonInv /\ OsdInv

--------------------------------------------------------------------------------
\* A machine without a cluster satisfies the invariant.
LEMMA Initially == Init => IInv
<1> SUFFICES ASSUME Init PROVE IInv  OBVIOUS
<1>1. TypeOK
  <2>1. marked \in BOOLEAN  BY Zenon DEF Init
  <2>2. ids = 0 /\ NumOsds \in Nat /\ at = 0  BY CephAssumption DEF Init
  <2>3. /\ osdId \in [Devices -> Numbers] /\ serving \in [Devices -> Numbers]
        /\ keyring \in [Keys -> {Absent, "root", "ceph"}]
    BY DEF Init, Numbers
  <2> QED  BY <2>1, <2>2, <2>3 DEF Init, TypeOK
<1>2. FsidInv /\ KeyInv /\ MonInv
  BY CephAssumption DEF Init, FsidInv, FsidAgreement, KeyInv, StoreHasAllKeys, MonInv, OsdPhase
<1>3. OsdInv
  <2>1. Prefix(0) /\ 0 \in 0..NumOsds  BY CephAssumption DEF Init, Prefix, OsdPhase
  <2> QED  BY <2>1 DEF Init, OsdInv, OsdOnOwnDevice
<1> QED  BY <1>1, <1>2, <1>3 DEF IInv

\* The types in four parts.
ProcessTypes ==
  /\ pc \in {"idle", "fsid", "write_fsid", "conf", "keyring", "chown", "import", "monmap",
             "mkfs", "touch_mon", "restart_mon", "mgr", "touch_mgr", "osd", "prepare",
             "label", "activate", "write_unit", "no_systemd", "restart_osd"}
  /\ at \in 0..NumOsds + 5
FileTypes ==
  /\ uuid \in Uuids \cup {Absent, Empty} /\ fsidFile \in Uuids \cup {Absent, Empty}
  /\ conf \in Conf \cup {Absent} /\ monmap \in Monmap \cup {Absent}
  /\ keyring \in [Keys -> {Absent, "root", "ceph"}] /\ imported \subseteq Keys
  /\ unit \in {Absent, Empty, "whole"}
MonTypes == store \in Store \cup {Absent} /\ done \subseteq {"mon", "mgr"} /\ up \subseteq {"mon", "mgr"}
OsdTypes ==
  /\ image \subseteq Devices /\ loop \subseteq Devices /\ osdUp \subseteq Devices
  /\ ids \in 0..NumOsds /\ osdId \in [Devices -> Numbers] /\ serving \in [Devices -> Numbers]

\* The types of the process, the files, the monitor and the osds are the module's.
LEMMA TypesInParts ==
  TypeOK <=> ProcessTypes /\ FileTypes /\ MonTypes /\ OsdTypes /\ marked \in BOOLEAN
  BY DEF TypeOK, ProcessTypes, FileTypes, MonTypes, OsdTypes

\* mkfs makes a store of the map's fsid from the keys imported, unless there is one.
LEMMA MkfsMakes ==
  ASSUME FileTypes, MonTypes, monmap # Absent, Mkfs
  PROVE  /\ store' \in Store /\ store' # Absent
         /\ store # Absent => store' = store
         /\ store = Absent => store'.fsid = monmap.fsid /\ store'.keys = {"mon"} \cup imported
<1>1. CASE store # Absent  BY <1>1, CephAssumption DEF Mkfs, MonTypes
<1>2. CASE store = Absent
  <2>1. store' = [fsid |-> monmap.fsid, keys |-> {"mon"} \cup imported]  BY <1>2 DEF Mkfs
  <2>2. monmap.fsid \in Uuids  BY DEF FileTypes, Monmap
  <2>3. {"mon"} \cup imported \subseteq Keys
    <3>1. "mon" \in Keys  BY DEF Keys, Keyrings
    <3> QED  BY <3>1 DEF FileTypes
  <2>4. store' \in Store  BY <2>1, <2>2, <2>3 DEF Store
  <2> QED  BY <1>2, <2>1, <2>4, CephAssumption
<1> QED  BY <1>1, <1>2

\* monmaptool makes a map of the uuid at hand, which is not empty, unless there is one.
LEMMA MonmapMade ==
  ASSUME FileTypes, conf # Absent, uuid # Absent, CreateMonmap
  PROVE  /\ monmap' \in Monmap /\ monmap' # Absent
         /\ monmap # Absent => monmap' = monmap
         /\ monmap = Absent => monmap'.fsid = uuid
<1>1. CASE monmap # Absent  BY <1>1, CephAssumption DEF CreateMonmap, FileTypes
<1>2. CASE monmap = Absent
  <2>1. monmap' = [fsid |-> uuid, host |-> conf.host] /\ uuid # Empty
    BY <1>2 DEF CreateMonmap, MonmaptoolTakes
  <2>2. uuid \in Uuids /\ conf.host \in Addresses  BY <2>1 DEF FileTypes, Conf
  <2>3. monmap' \in Monmap  BY <2>1, <2>2 DEF Monmap
  <2> QED  BY <1>2, <2>1, <2>3, CephAssumption
<1> QED  BY <1>1, <1>2

\* An activated osd is on the device of its own number.
LEMMA OwnDevice ==
  ASSUME ProcessTypes, OsdTypes, OsdInv, pc \in OsdPhase, Activated
  PROVE  at \in Devices /\ osdId[at] = at /\ serving' = [serving EXCEPT ![at] = at]
<1>1. PICK d \in loop : osdId[d] = at /\ serving' = [serving EXCEPT ![at] = d]
  BY DEF Activated, Holds
<1>2. PICK n \in 0..NumOsds : Prefix(n)  BY DEF OsdInv
<1>3. /\ n \in Nat /\ NumOsds \in Nat /\ Devices = 0..NumOsds - 1
      /\ image = 0..n - 1 /\ at = n - 1 /\ at \in Nat
  BY <1>2, CephAssumption DEF Prefix, ProcessTypes, Devices
<1>4. at \in Devices /\ d \in Devices  BY <1>1, <1>2, <1>3 DEF OsdTypes
<1>5. osdId[d] # Absent  BY <1>1, <1>4, CephAssumption
<1>6. d \in image /\ osdId[d] <= d  BY <1>4, <1>5 DEF OsdInv
<1>7. d = at  BY <1>1, <1>3, <1>6
<1> QED  BY <1>1, <1>4, <1>7

\* Every step keeps the process in its program.
LEMMA ProcessStep ==
  ASSUME ProcessTypes, KeyInv, OsdInv, [Next]_vars
  PROVE  ProcessTypes'
<1> USE CephAssumption
      DEF Step, Exit, files, mons, osds, units, ProcessTypes, KeyInv, OsdInv, Prefix, OsdPhase,
          FirstToImport
<1>1. CASE Start  BY <1>1 DEF Start
<1>2. CASE Stop  BY <1>2 DEF Stop
<1>3. CASE Reboot  BY <1>3 DEF Reboot
<1>4. CASE CephUuid  BY <1>4 DEF CephUuid
<1>5. CASE WriteUuid  BY <1>5 DEF WriteUuid
<1>6. CASE Configure  BY <1>6 DEF Configure
<1>7. CASE CreateKeyring  BY <1>7 DEF CreateKeyring
<1>8. CASE Chown  BY <1>8 DEF Chown
<1>9. CASE BeginImport  BY <1>9 DEF BeginImport
<1>10. CASE ImportKeyring  BY <1>10 DEF ImportKeyring
<1>11. CASE EndImport  BY <1>11 DEF EndImport
<1>12. CASE CreateMonmap  BY <1>12 DEF CreateMonmap
<1>13. CASE Mkfs  BY <1>13 DEF Mkfs
<1>14. CASE TouchMon  BY <1>14 DEF TouchMon
<1>15. CASE RestartMon  BY <1>15 DEF RestartMon
<1>16. CASE SetupMgr  BY <1>16 DEF SetupMgr
<1>17. CASE TouchMgr  BY <1>17 DEF TouchMgr
<1>18. CASE NextOsd  BY <1>18 DEF NextOsd
<1>19. CASE NewOsdId  BY <1>19 DEF NewOsdId
<1>20. CASE Label  BY <1>20 DEF Label
<1>21. CASE Activate  BY <1>21 DEF Activate
<1>22. CASE WriteUnit  BY <1>22 DEF WriteUnit
<1>23. CASE ActivateNoSystemd  BY <1>23 DEF ActivateNoSystemd
<1>24. CASE RestartOsd  BY <1>24 DEF RestartOsd
<1>25. CASE Mark  BY <1>25 DEF Mark
<1>26. CASE UNCHANGED vars  BY <1>26 DEF vars
<1>27. CASE RollBack  BY <1>27 DEF RollBack
<1> QED
  BY <1>1, <1>2, <1>3, <1>4, <1>5, <1>6, <1>7, <1>8, <1>9, <1>10, <1>11, <1>12, <1>13, <1>14,
       <1>15, <1>16, <1>17, <1>18, <1>19, <1>20, <1>21, <1>22, <1>23, <1>24, <1>25, <1>26,
       <1>27 DEF Next

\* Every step keeps the types of the files.
LEMMA FileStep ==
  ASSUME FileTypes, MonTypes, KeyInv, FsidInv, [Next]_vars
  PROVE  FileTypes'
<1> USE CephAssumption
      DEF Step, Exit, files, mons, osds, units, FileTypes, KeyInv, FsidInv, Keys, Keyrings,
          Conf, Monmap, Addresses
<1>1. CASE Start  BY <1>1 DEF Start
<1>2. CASE Stop  BY <1>2 DEF Stop
<1>3. CASE Reboot  BY <1>3 DEF Reboot
<1>4. CASE CephUuid
  <2>1. uuid' \in Uuids \cup {Absent, Empty} /\ fsidFile' \in Uuids \cup {Absent, Empty}
    BY <1>4 DEF CephUuid, NewUuids, HasFsidFile
  <2> QED  BY <1>4, <2>1 DEF CephUuid

<1>5. CASE WriteUuid  BY <1>5 DEF WriteUuid
<1>6. CASE Configure  BY <1>6 DEF Configure
<1>7. CASE CreateKeyring  BY <1>7 DEF CreateKeyring
<1>8. CASE Chown  BY <1>8 DEF Chown
<1>9. CASE BeginImport  BY <1>9 DEF BeginImport
<1>10. CASE ImportKeyring  BY <1>10 DEF ImportKeyring
<1>11. CASE EndImport  BY <1>11 DEF EndImport
<1>12. CASE CreateMonmap
  <2>1. monmap' \in Monmap  BY <1>12, MonmapMade DEF CreateMonmap
  <2> QED  BY <1>12, <2>1 DEF CreateMonmap

<1>13. CASE Mkfs  BY <1>13 DEF Mkfs
<1>14. CASE TouchMon  BY <1>14 DEF TouchMon
<1>15. CASE RestartMon  BY <1>15 DEF RestartMon
<1>16. CASE SetupMgr  BY <1>16 DEF SetupMgr
<1>17. CASE TouchMgr  BY <1>17 DEF TouchMgr
<1>18. CASE NextOsd  BY <1>18 DEF NextOsd
<1>19. CASE NewOsdId  BY <1>19 DEF NewOsdId
<1>20. CASE Label  BY <1>20 DEF Label
<1>21. CASE Activate  BY <1>21 DEF Activate
<1>22. CASE WriteUnit  BY <1>22 DEF WriteUnit
<1>23. CASE ActivateNoSystemd  BY <1>23 DEF ActivateNoSystemd
<1>24. CASE RestartOsd  BY <1>24 DEF RestartOsd
<1>25. CASE Mark  BY <1>25 DEF Mark
<1>26. CASE UNCHANGED vars  BY <1>26 DEF vars
<1>27. CASE RollBack  BY <1>27 DEF RollBack
<1> QED
  BY <1>1, <1>2, <1>3, <1>4, <1>5, <1>6, <1>7, <1>8, <1>9, <1>10, <1>11, <1>12, <1>13, <1>14,
       <1>15, <1>16, <1>17, <1>18, <1>19, <1>20, <1>21, <1>22, <1>23, <1>24, <1>25, <1>26,
       <1>27 DEF Next

\* Every step keeps the types of the monitor's store and daemons.
LEMMA MonTypeStep ==
  ASSUME FileTypes, MonTypes, MonInv, KeyInv, [Next]_vars
  PROVE  MonTypes'
<1> USE CephAssumption DEF Step, Exit, files, mons, osds, units, MonTypes, FileTypes, MonInv
<1>1. CASE Start  BY <1>1 DEF Start
<1>2. CASE Stop  BY <1>2 DEF Stop
<1>3. CASE Reboot  BY <1>3 DEF Reboot
<1>4. CASE CephUuid  BY <1>4 DEF CephUuid
<1>5. CASE WriteUuid  BY <1>5 DEF WriteUuid
<1>6. CASE Configure  BY <1>6 DEF Configure
<1>7. CASE CreateKeyring  BY <1>7 DEF CreateKeyring
<1>8. CASE Chown  BY <1>8 DEF Chown
<1>9. CASE BeginImport  BY <1>9 DEF BeginImport
<1>10. CASE ImportKeyring  BY <1>10 DEF ImportKeyring
<1>11. CASE EndImport  BY <1>11 DEF EndImport
<1>12. CASE CreateMonmap  BY <1>12 DEF CreateMonmap
<1>13. CASE Mkfs
  <2>1. store' \in Store  BY <1>13, MkfsMakes DEF Mkfs
  <2> QED  BY <1>13, <2>1 DEF Mkfs

<1>14. CASE TouchMon  BY <1>14 DEF TouchMon
<1>15. CASE RestartMon  BY <1>15 DEF RestartMon
<1>16. CASE SetupMgr
  <2>1. up' = up \/ up' = up \cup {"mgr"}  BY <1>16 DEF SetupMgr
  <2> QED  BY <1>16, <2>1 DEF SetupMgr

<1>17. CASE TouchMgr  BY <1>17 DEF TouchMgr
<1>18. CASE NextOsd  BY <1>18 DEF NextOsd
<1>19. CASE NewOsdId  BY <1>19 DEF NewOsdId
<1>20. CASE Label  BY <1>20 DEF Label
<1>21. CASE Activate  BY <1>21 DEF Activate
<1>22. CASE WriteUnit  BY <1>22 DEF WriteUnit
<1>23. CASE ActivateNoSystemd  BY <1>23 DEF ActivateNoSystemd
<1>24. CASE RestartOsd  BY <1>24 DEF RestartOsd
<1>25. CASE Mark  BY <1>25 DEF Mark
<1>26. CASE UNCHANGED vars  BY <1>26 DEF vars
<1>27. CASE RollBack  BY <1>27 DEF RollBack
<1> QED
  BY <1>1, <1>2, <1>3, <1>4, <1>5, <1>6, <1>7, <1>8, <1>9, <1>10, <1>11, <1>12, <1>13, <1>14,
       <1>15, <1>16, <1>17, <1>18, <1>19, <1>20, <1>21, <1>22, <1>23, <1>24, <1>25, <1>26,
       <1>27 DEF Next

\* Every step keeps the types of the devices.
LEMMA OsdTypeStep ==
  ASSUME ProcessTypes, OsdTypes, OsdInv, [Next]_vars
  PROVE  OsdTypes'
<1> USE CephAssumption
      DEF Step, Exit, files, mons, osds, units, OsdTypes, ProcessTypes, OsdInv, Prefix,
          OsdPhase, Devices, Numbers
<1>1. CASE Start  BY <1>1 DEF Start
<1>2. CASE Stop  BY <1>2 DEF Stop
<1>3. CASE Reboot  BY <1>3 DEF Reboot
<1>4. CASE CephUuid  BY <1>4 DEF CephUuid
<1>5. CASE WriteUuid  BY <1>5 DEF WriteUuid
<1>6. CASE Configure  BY <1>6 DEF Configure
<1>7. CASE CreateKeyring  BY <1>7 DEF CreateKeyring
<1>8. CASE Chown  BY <1>8 DEF Chown
<1>9. CASE BeginImport  BY <1>9 DEF BeginImport
<1>10. CASE ImportKeyring  BY <1>10 DEF ImportKeyring
<1>11. CASE EndImport  BY <1>11 DEF EndImport
<1>12. CASE CreateMonmap  BY <1>12 DEF CreateMonmap
<1>13. CASE Mkfs  BY <1>13 DEF Mkfs
<1>14. CASE TouchMon  BY <1>14 DEF TouchMon
<1>15. CASE RestartMon  BY <1>15 DEF RestartMon
<1>16. CASE SetupMgr  BY <1>16 DEF SetupMgr
<1>17. CASE TouchMgr  BY <1>17 DEF TouchMgr
<1>18. CASE NextOsd  BY <1>18 DEF NextOsd
<1>19. CASE NewOsdId  BY <1>19 DEF NewOsdId
<1>20. CASE Label  BY <1>20 DEF Label
<1>21. CASE Activate
  <2>1. serving' = serving \/ (at \in Devices /\ serving' = [serving EXCEPT ![at] = at])
    BY <1>21, OwnDevice DEF Activate
  <2> QED  BY <1>21, <2>1 DEF Activate

<1>22. CASE WriteUnit  BY <1>22 DEF WriteUnit
<1>23. CASE ActivateNoSystemd
  <2>1. serving' = serving \/ (at \in Devices /\ serving' = [serving EXCEPT ![at] = at])
    BY <1>23, OwnDevice DEF ActivateNoSystemd
  <2> QED  BY <1>23, <2>1 DEF ActivateNoSystemd

<1>24. CASE RestartOsd  BY <1>24 DEF RestartOsd
<1>25. CASE Mark  BY <1>25 DEF Mark
<1>26. CASE UNCHANGED vars  BY <1>26 DEF vars
<1>27. CASE RollBack  BY <1>27 DEF RollBack
<1> QED
  BY <1>1, <1>2, <1>3, <1>4, <1>5, <1>6, <1>7, <1>8, <1>9, <1>10, <1>11, <1>12, <1>13, <1>14,
       <1>15, <1>16, <1>17, <1>18, <1>19, <1>20, <1>21, <1>22, <1>23, <1>24, <1>25, <1>26,
       <1>27 DEF Next

\* Every step keeps the mark what it is.
LEMMA MarkedStep ==
  ASSUME marked \in BOOLEAN, [Next]_vars
  PROVE  marked' \in BOOLEAN
  BY Zenon DEF Next, vars, Step, Exit, files, mons, osds, units, Start, Stop, Reboot, CephUuid,
       WriteUuid, Configure, CreateKeyring, Chown, BeginImport, ImportKeyring, EndImport,
       CreateMonmap, Mkfs, TouchMon, RestartMon, SetupMgr, TouchMgr, NextOsd, NewOsdId, Label,
       RollBack, Activate, WriteUnit, ActivateNoSystemd, RestartOsd, Mark

\* Every step keeps the fsid's copies together.
LEMMA FsidStep ==
  ASSUME FileTypes, MonTypes, FsidInv, MonInv, [Next]_vars
  PROVE  FsidInv'
<1> USE CephAssumption DEF Step, Exit, files, mons, osds, units, FsidInv, FsidAgreement
<1>1. CASE Start  BY <1>1 DEF Start
<1>2. CASE Stop  BY <1>2 DEF Stop
<1>3. CASE Reboot  BY <1>3 DEF Reboot
<1>4. CASE CephUuid
  <2>1. fsidFile # Absent => uuid' = fsidFile /\ fsidFile' = fsidFile /\ pc' = "conf"
    BY <1>4 DEF CephUuid, HasFsidFile
  <2>2. fsidFile = Absent => uuid' \in Uuids /\ fsidFile' = Empty /\ pc' = "write_fsid"
    BY <1>4 DEF CephUuid, HasFsidFile, NewUuids
  <2>3. fsidFile = Absent => monmap = Absent  BY DEF FileTypes, Monmap
  <2> QED  BY <1>4, <2>1, <2>2, <2>3 DEF CephUuid

<1>5. CASE WriteUuid  BY <1>5 DEF WriteUuid
<1>6. CASE Configure
  <2>1. conf' \in Conf /\ conf'.fsid = uuid
    BY <1>6 DEF Configure, FileTypes, Conf, Addresses
  <2> QED  BY <1>6, <2>1 DEF Configure

<1>7. CASE CreateKeyring  BY <1>7 DEF CreateKeyring
<1>8. CASE Chown  BY <1>8 DEF Chown
<1>9. CASE BeginImport  BY <1>9 DEF BeginImport
<1>10. CASE ImportKeyring  BY <1>10 DEF ImportKeyring
<1>11. CASE EndImport  BY <1>11 DEF EndImport
<1>12. CASE CreateMonmap
  <2>1. /\ monmap' # Absent /\ monmap # Absent => monmap' = monmap
        /\ monmap = Absent => monmap'.fsid = uuid
    BY <1>12, MonmapMade DEF CreateMonmap
  <2> QED  BY <1>12, <2>1 DEF CreateMonmap

<1>13. CASE Mkfs
  <2>1. /\ store' # Absent /\ store # Absent => store' = store
        /\ store = Absent => store'.fsid = monmap.fsid
        /\ monmap # Absent
    BY <1>13, MkfsMakes DEF Mkfs, MonInv
  <2> QED  BY <1>13, <2>1 DEF Mkfs

<1>14. CASE TouchMon  BY <1>14 DEF TouchMon
<1>15. CASE RestartMon  BY <1>15 DEF RestartMon
<1>16. CASE SetupMgr  BY <1>16 DEF SetupMgr
<1>17. CASE TouchMgr  BY <1>17 DEF TouchMgr
<1>18. CASE NextOsd  BY <1>18 DEF NextOsd
<1>19. CASE NewOsdId  BY <1>19 DEF NewOsdId
<1>20. CASE Label  BY <1>20 DEF Label
<1>21. CASE Activate  BY <1>21 DEF Activate
<1>22. CASE WriteUnit  BY <1>22 DEF WriteUnit
<1>23. CASE ActivateNoSystemd  BY <1>23 DEF ActivateNoSystemd
<1>24. CASE RestartOsd  BY <1>24 DEF RestartOsd
<1>25. CASE Mark  BY <1>25 DEF Mark
<1>26. CASE UNCHANGED vars  BY <1>26 DEF vars
<1>27. CASE RollBack  BY <1>27 DEF RollBack
<1> QED
  BY <1>1, <1>2, <1>3, <1>4, <1>5, <1>6, <1>7, <1>8, <1>9, <1>10, <1>11, <1>12, <1>13, <1>14,
       <1>15, <1>16, <1>17, <1>18, <1>19, <1>20, <1>21, <1>22, <1>23, <1>24, <1>25, <1>26,
       <1>27 DEF Next

\* Every step keeps the keys' order.
LEMMA KeyStep ==
  ASSUME FileTypes, MonTypes, MonInv, KeyInv, [Next]_vars
  PROVE  KeyInv'
<1> USE CephAssumption DEF Step, Exit, files, mons, osds, units, KeyInv, StoreHasAllKeys
<1>1. CASE Start  BY <1>1 DEF Start
<1>2. CASE Stop  BY <1>2 DEF Stop
<1>3. CASE Reboot  BY <1>3 DEF Reboot
<1>4. CASE CephUuid  BY <1>4 DEF CephUuid
<1>5. CASE WriteUuid  BY <1>5 DEF WriteUuid
<1>6. CASE Configure  BY <1>6 DEF Configure
<1>7. CASE CreateKeyring  BY <1>7 DEF CreateKeyring, Keyrings
<1>8. CASE Chown  BY <1>8 DEF Chown
<1>9. CASE BeginImport  BY <1>9 DEF BeginImport, FirstToImport
<1>10. CASE ImportKeyring  BY <1>10 DEF ImportKeyring
<1>11. CASE EndImport
  <2>1. {"mgr", "admin", "osd"} \subseteq imported  BY <1>11 DEF EndImport, Keyrings
  <2> QED  BY <1>11, <2>1 DEF EndImport

<1>12. CASE CreateMonmap  BY <1>12 DEF CreateMonmap
<1>13. CASE Mkfs
  <2>1. store # Absent => store' = store  BY <1>13, MkfsMakes DEF Mkfs, MonInv
  <2>2. store = Absent => store'.keys = {"mon"} \cup imported  BY <1>13, MkfsMakes DEF Mkfs, MonInv
  <2>3. {"mon"} \cup imported = Keys  BY <1>13 DEF Mkfs, FileTypes, Keys, Keyrings
  <2> QED  BY <1>13, <2>1, <2>2, <2>3 DEF Mkfs

<1>14. CASE TouchMon  BY <1>14 DEF TouchMon
<1>15. CASE RestartMon  BY <1>15 DEF RestartMon
<1>16. CASE SetupMgr  BY <1>16 DEF SetupMgr
<1>17. CASE TouchMgr  BY <1>17 DEF TouchMgr
<1>18. CASE NextOsd  BY <1>18 DEF NextOsd
<1>19. CASE NewOsdId  BY <1>19 DEF NewOsdId
<1>20. CASE Label  BY <1>20 DEF Label
<1>21. CASE Activate  BY <1>21 DEF Activate
<1>22. CASE WriteUnit  BY <1>22 DEF WriteUnit
<1>23. CASE ActivateNoSystemd  BY <1>23 DEF ActivateNoSystemd
<1>24. CASE RestartOsd  BY <1>24 DEF RestartOsd
<1>25. CASE Mark  BY <1>25 DEF Mark
<1>26. CASE UNCHANGED vars  BY <1>26 DEF vars
<1>27. CASE RollBack  BY <1>27 DEF RollBack
<1> QED
  BY <1>1, <1>2, <1>3, <1>4, <1>5, <1>6, <1>7, <1>8, <1>9, <1>10, <1>11, <1>12, <1>13, <1>14,
       <1>15, <1>16, <1>17, <1>18, <1>19, <1>20, <1>21, <1>22, <1>23, <1>24, <1>25, <1>26,
       <1>27 DEF Next

\* Every step keeps what the monitor's files stand for.
LEMMA MonStep ==
  ASSUME FileTypes, MonTypes, FsidInv, MonInv, [Next]_vars
  PROVE  MonInv'
<1> USE CephAssumption DEF Step, Exit, files, mons, osds, units, MonInv, OsdPhase
<1>1. CASE Start  BY <1>1 DEF Start
<1>2. CASE Stop  BY <1>2 DEF Stop
<1>3. CASE Reboot  BY <1>3 DEF Reboot
<1>4. CASE CephUuid  BY <1>4 DEF CephUuid
<1>5. CASE WriteUuid  BY <1>5 DEF WriteUuid
<1>6. CASE Configure  BY <1>6 DEF Configure
<1>7. CASE CreateKeyring  BY <1>7 DEF CreateKeyring
<1>8. CASE Chown  BY <1>8 DEF Chown
<1>9. CASE BeginImport  BY <1>9 DEF BeginImport
<1>10. CASE ImportKeyring  BY <1>10 DEF ImportKeyring
<1>11. CASE EndImport  BY <1>11 DEF EndImport, MonDone
<1>12. CASE CreateMonmap
  <2>1. monmap' # Absent  BY <1>12, MonmapMade DEF CreateMonmap, FsidInv
  <2> QED  BY <1>12, <2>1 DEF CreateMonmap

<1>13. CASE Mkfs
  <2>1. store' # Absent  BY <1>13, MkfsMakes DEF Mkfs
  <2> QED  BY <1>13, <2>1 DEF Mkfs

<1>14. CASE TouchMon  BY <1>14 DEF TouchMon
<1>15. CASE RestartMon  BY <1>15 DEF RestartMon
<1>16. CASE SetupMgr
  <2>1. "mgr" \in done => done = {"mon", "mgr"}  BY <1>16 DEF SetupMgr, MonTypes
  <2> QED  BY <1>16, <2>1 DEF SetupMgr

<1>17. CASE TouchMgr
  <2>1. done' = {"mon", "mgr"}  BY <1>17 DEF TouchMgr, MonTypes
  <2> QED  BY <1>17, <2>1 DEF TouchMgr

<1>18. CASE NextOsd  BY <1>18 DEF NextOsd
<1>19. CASE NewOsdId  BY <1>19 DEF NewOsdId
<1>20. CASE Label  BY <1>20 DEF Label
<1>21. CASE Activate  BY <1>21 DEF Activate
<1>22. CASE WriteUnit  BY <1>22 DEF WriteUnit
<1>23. CASE ActivateNoSystemd  BY <1>23 DEF ActivateNoSystemd
<1>24. CASE RestartOsd  BY <1>24 DEF RestartOsd
<1>25. CASE Mark  BY <1>25 DEF Mark, Returned
<1>26. CASE UNCHANGED vars  BY <1>26 DEF vars
<1>27. CASE RollBack  BY <1>27 DEF RollBack
<1> QED
  BY <1>1, <1>2, <1>3, <1>4, <1>5, <1>6, <1>7, <1>8, <1>9, <1>10, <1>11, <1>12, <1>13, <1>14,
       <1>15, <1>16, <1>17, <1>18, <1>19, <1>20, <1>21, <1>22, <1>23, <1>24, <1>25, <1>26,
       <1>27 DEF Next

\* Every step keeps the osds on their devices.
LEMMA OsdStep ==
  ASSUME ProcessTypes, OsdTypes, OsdInv, [Next]_vars
  PROVE  OsdInv'
<1> USE CephAssumption
      DEF Step, Exit, files, mons, osds, units, OsdInv, OsdPhase, OsdOnOwnDevice, ProcessTypes,
          OsdTypes, Devices, Prefix
<1>1. CASE Start  BY <1>1 DEF Start
<1>2. CASE Stop  BY <1>2 DEF Stop
<1>3. CASE Reboot  BY <1>3 DEF Reboot
<1>4. CASE CephUuid  BY <1>4 DEF CephUuid
<1>5. CASE WriteUuid  BY <1>5 DEF WriteUuid
<1>6. CASE Configure  BY <1>6 DEF Configure
<1>7. CASE CreateKeyring  BY <1>7 DEF CreateKeyring
<1>8. CASE Chown  BY <1>8 DEF Chown
<1>9. CASE BeginImport  BY <1>9 DEF BeginImport
<1>10. CASE ImportKeyring  BY <1>10 DEF ImportKeyring
<1>11. CASE EndImport  BY <1>11 DEF EndImport
<1>12. CASE CreateMonmap  BY <1>12 DEF CreateMonmap
<1>13. CASE Mkfs  BY <1>13 DEF Mkfs
<1>14. CASE TouchMon  BY <1>14 DEF TouchMon
<1>15. CASE RestartMon  BY <1>15 DEF RestartMon
<1>16. CASE SetupMgr
  <2>1. PICK n \in 0..NumOsds : Prefix(n)  OBVIOUS
  <2>2. /\ at' = 0 /\ pc = "mgr" /\ pc' \in {"osd", "touch_mgr"}
        /\ UNCHANGED << image, ids, osdId, serving >>
    BY <1>16 DEF SetupMgr
  <2>3. Prefix(n)'  BY <2>1, <2>2
  <2> QED  BY <2>2, <2>3

<1>17. CASE TouchMgr  BY <1>17 DEF TouchMgr
<1>18. CASE NextOsd
  <2>1. PICK n \in 0..NumOsds : Prefix(n)  OBVIOUS
  <2>2. /\ pc = "osd" /\ at \in Nat /\ at <= n /\ at < NumOsds /\ n \in Nat /\ NumOsds \in Nat
        /\ image = 0..n - 1 /\ UNCHANGED << ids, osdId, serving >>
    BY <1>18, <2>1 DEF NextOsd
  <2>3. CASE at \in image
    <3>1. at' = at + 1 /\ pc' = "osd" /\ image' = image
      BY <1>18, <2>2, <2>3 DEF NextOsd, PassedOver
    <3>2. at + 1 <= n  BY <2>2, <2>3
    <3>3. Prefix(n)'  BY <2>1, <2>2, <3>1, <3>2
    <3> QED  BY <2>2, <3>1, <3>3
  <2>4. CASE at \notin image
    <3>1. at' = at /\ pc' = "prepare" /\ image' = image \cup {at}
      BY <1>18, <2>4 DEF NextOsd, PassedOver
    <3>2. n = at  BY <2>2, <2>4
    <3>3. image' = 0..(n + 1) - 1  BY <2>2, <3>1, <3>2
    <3>4. n + 1 \in 0..NumOsds /\ ids <= n /\ ids \in Nat  BY <2>1, <2>2, <3>2
    <3>5. Prefix(n + 1)'  BY <2>2, <3>1, <3>2, <3>3, <3>4
    <3>6. at \in Devices /\ osdId[at] = Absent  BY <2>2, <2>4
    <3> QED  BY <2>2, <3>1, <3>4, <3>5, <3>6
  <2> QED  BY <2>3, <2>4

<1>19. CASE NewOsdId
  <2>1. PICK n \in 0..NumOsds : Prefix(n)  OBVIOUS
  <2>2. /\ pc = "prepare" /\ pc' = "label" /\ ids' = ids + 1 /\ ids \in Nat
        /\ UNCHANGED << at, image, osdId, serving >>
    BY <1>19 DEF NewOsdId
  <2>3. Prefix(n)'  BY <2>1, <2>2
  <2>4. \A d \in Devices : osdId[d] # Absent => osdId[d] \in Devices /\ osdId[d] < ids
    BY DEF Numbers
  <2>5. ids' > 0 /\ \A d \in Devices : osdId'[d] # ids' - 1
    <3> SUFFICES ASSUME NEW d \in Devices PROVE osdId[d] # ids  BY <2>2
    <3>1. CASE osdId[d] = Absent
      <4>1. n \in Nat /\ NumOsds \in Nat /\ ids < n  BY <2>1, <2>2
      <4>2. ids \in Devices  BY <2>2, <4>1
      <4> QED  BY <3>1, <4>2
    <3>2. CASE osdId[d] # Absent  BY <2>2, <2>4, <3>2
    <3> QED  BY <3>1, <3>2
  <2>6. \A d \in Devices : osdId'[d] # Absent => d \in image' /\ osdId'[d] <= d /\ osdId'[d] < ids'
    <3> SUFFICES ASSUME NEW d \in Devices, osdId[d] # Absent
                 PROVE  d \in image /\ osdId[d] <= d /\ osdId[d] < ids + 1
      BY <2>2
    <3> QED  BY <2>2, <2>4
  <2> QED  BY <2>2, <2>3, <2>5, <2>6

<1>20. CASE Label  BY <1>20 DEF Label
<1>21. CASE Activate
  <2>1. serving' = serving \/ (at \in Devices /\ serving' = [serving EXCEPT ![at] = at])
    BY <1>21, OwnDevice DEF Activate
  <2> QED  BY <1>21, <2>1 DEF Activate

<1>22. CASE WriteUnit  BY <1>22 DEF WriteUnit
<1>23. CASE ActivateNoSystemd
  <2>1. serving' = serving \/ (at \in Devices /\ serving' = [serving EXCEPT ![at] = at])
    BY <1>23, OwnDevice DEF ActivateNoSystemd
  <2> QED  BY <1>23, <2>1 DEF ActivateNoSystemd

<1>24. CASE RestartOsd  BY <1>24 DEF RestartOsd
<1>25. CASE Mark  BY <1>25 DEF Mark
<1>26. CASE UNCHANGED vars  BY <1>26 DEF vars
<1>27. CASE RollBack
  <2>1. PICK n \in 0..NumOsds : Prefix(n)  OBVIOUS
  <2>2. /\ pc = "label" /\ pc' = "idle" /\ ids' = ids - 1 /\ ids \in Nat /\ ids > 0
        /\ UNCHANGED << image, osdId, serving >>
    BY <1>27 DEF RollBack
  <2>3. Prefix(n)'  BY <2>1, <2>2
  <2>4. ASSUME NEW d \in Devices, osdId[d] # Absent
        PROVE  d \in image /\ osdId[d] <= d /\ osdId[d] < ids - 1
    <3>1. osdId[d] \in Nat /\ osdId[d] < ids /\ osdId[d] # ids - 1  BY <2>2, <2>4 DEF Numbers
    <3> QED  BY <2>2, <2>4, <3>1
  <2> QED  BY <2>2, <2>3, <2>4
<1> QED
  BY <1>1, <1>2, <1>3, <1>4, <1>5, <1>6, <1>7, <1>8, <1>9, <1>10, <1>11, <1>12, <1>13, <1>14,
       <1>15, <1>16, <1>17, <1>18, <1>19, <1>20, <1>21, <1>22, <1>23, <1>24, <1>25, <1>26,
       <1>27 DEF Next

\* So the invariant is inductive.
LEMMA Inductive == IInv /\ [Next]_vars => IInv'
<1> SUFFICES ASSUME IInv, [Next]_vars PROVE IInv'  OBVIOUS
<1>1. /\ TypeOK /\ FsidInv /\ KeyInv /\ MonInv /\ OsdInv
      /\ ProcessTypes /\ FileTypes /\ MonTypes /\ OsdTypes /\ marked \in BOOLEAN
  BY TypesInParts DEF IInv
<1>2. ProcessTypes' /\ FileTypes' /\ MonTypes' /\ OsdTypes' /\ marked' \in BOOLEAN
  BY <1>1, ProcessStep, FileStep, MonTypeStep, OsdTypeStep, MarkedStep
<1>3. TypeOK'
  BY <1>2 DEF TypeOK, ProcessTypes, FileTypes, MonTypes, OsdTypes
<1>4. FsidInv' /\ KeyInv' /\ MonInv' /\ OsdInv'
  BY <1>1, FsidStep, KeyStep, MonStep, OsdStep
<1> QED  BY <1>3, <1>4 DEF IInv

\* The invariant holds in every reachable state of ceph's setup.
THEOREM CephInvariant == Spec => []IInv
  BY Initially, Inductive, PTL DEF Spec

--------------------------------------------------------------------------------
(***************************************************************************)
(* The theorems.                                                            *)
(***************************************************************************)

\* Type correctness of the process and the disk.
THEOREM CephTypes == Spec => []TypeOK
<1>1. IInv => TypeOK  BY DEF IInv
<1> QED  BY <1>1, CephInvariant, PTL

\* Configuration, map, store and file agree on one fsid.
THEOREM OneFsid == Spec => []FsidAgreement
<1>1. IInv => FsidAgreement  BY DEF IInv, FsidInv
<1> QED  BY <1>1, CephInvariant, PTL

\* The monitor's store is made of all keys.
THEOREM StoreIsWhole == Spec => []StoreHasAllKeys
<1>1. IInv => StoreHasAllKeys  BY DEF IInv, KeyInv
<1> QED  BY <1>1, CephInvariant, PTL

\* An osd is activated on its own device, for any number of osds.
THEOREM OsdsOnTheirDevices == Spec => []OsdOnOwnDevice
<1>1. IInv => OsdOnOwnDevice  BY DEF IInv, OsdInv
<1> QED  BY <1>1, CephInvariant, PTL

\* A marked ceph has its monitor and its manager.
THEOREM MarkedCephHasMonitor == Spec => []MarkedHasMonitor
<1>1. IInv => MarkedHasMonitor
  <2> SUFFICES ASSUME IInv, marked PROVE store # Absent /\ done = {"mon", "mgr"}
                                         /\ keyring["mon"] = "ceph" /\ conf.fsid = store.fsid
    BY DEF MarkedHasMonitor
  <2> QED  BY DEF IInv, MonInv, FsidInv, FsidAgreement
<1> QED  BY <1>1, CephInvariant, PTL

--------------------------------------------------------------------------------
(***************************************************************************)
(* The refinement.                                                          *)
(***************************************************************************)
\* Before the first setup there is no cluster.
LEMMA ClusterInitially == Init => TheCluster!Init
  BY DEF Init, TheCluster!Init

\* Every step of a setup, and every reboot, is a step of the cluster or leaves it alone.
LEMMA ClusterStep ==
  ASSUME IInv, [Next]_vars
  PROVE  [TheCluster!Next]_(TheCluster!vars)
<1> DEFINE Goal == [TheCluster!Next]_(TheCluster!vars)
<1>1. /\ FsidInv /\ MonInv /\ OsdInv /\ ProcessTypes /\ FileTypes /\ MonTypes /\ OsdTypes
  BY TypesInParts DEF IInv
<1>2. ASSUME UNCHANGED << store, ids, osdId, serving >> PROVE Goal
  BY <1>2 DEF TheCluster!vars
<1>3. CASE Mkfs
  <2>1. /\ store # Absent => store' = store
        /\ store = Absent => store' # Absent /\ store'.fsid = monmap.fsid /\ monmap.fsid \in Uuids
        /\ UNCHANGED << ids, osdId, serving >>
    BY <1>1, <1>3, MkfsMakes DEF Mkfs, Step, MonInv, FileTypes, Monmap, osds
  <2>2. CASE store # Absent  BY <1>2, <2>1, <2>2
  <2>3. CASE store = Absent
    <3>1. TheCluster!Create  BY <2>1, <2>3 DEF TheCluster!Create
    <3> QED  BY <3>1 DEF TheCluster!Next
  <2> QED  BY <2>2, <2>3
<1>4. CASE NewOsdId
  <2>1. store # Absent /\ store.fsid \in Uuids  BY <1>1, <1>4 DEF NewOsdId, MonInv, MonTypes, Store
  <2>2. TheCluster!HandOut
    BY <1>4, <2>1, CephAssumption DEF NewOsdId, Step, mons, TheCluster!HandOut
  <2> QED  BY <2>2 DEF TheCluster!Next
<1>5. CASE Label
  <2>1. /\ at \in Devices /\ osdId[at] = Absent /\ ids - 1 \in 0..ids - 1
        /\ \A d \in Devices : osdId[d] # ids - 1
    BY <1>1, <1>5, CephAssumption DEF Label, Step, OsdInv, OsdPhase, Prefix, Devices, OsdTypes
  <2>2. /\ osdId' = [osdId EXCEPT ![at] = ids - 1]
        /\ UNCHANGED << store, ids, serving >>
    BY <1>5 DEF Label, mons
  <2>3. TheCluster!Label(at)  BY <2>1, <2>2 DEF TheCluster!Label
  <2> QED  BY <2>1, <2>3 DEF TheCluster!Next
<1>6. CASE Activate \/ ActivateNoSystemd
  <2>1. UNCHANGED << store, ids, osdId >> /\ (serving' = serving \/ Activated) /\ pc \in OsdPhase
    BY <1>6 DEF Activate, ActivateNoSystemd, Step, mons, OsdPhase
  <2>2. CASE serving' = serving  BY <1>2, <2>1, <2>2
  <2>3. CASE Activated
    <3>1. at \in Devices /\ osdId[at] = at /\ serving' = [serving EXCEPT ![at] = at]
      BY <1>1, <2>1, <2>3, OwnDevice
    <3>2. TheCluster!Serve(at)  BY <2>1, <3>1 DEF TheCluster!Serve
    <3> QED  BY <3>1, <3>2 DEF TheCluster!Next
  <2> QED  BY <2>1, <2>2, <2>3
<1>7. CASE Start \/ Stop \/ Reboot \/ CephUuid \/ WriteUuid \/ Configure \/ CreateKeyring \/ Chown
  BY <1>2, <1>7 DEF Start, Stop, Reboot, CephUuid, WriteUuid, Configure, CreateKeyring, Chown,
       mons, osds
<1>8. CASE BeginImport \/ ImportKeyring \/ EndImport \/ CreateMonmap \/ TouchMon \/ RestartMon
  BY <1>2, <1>8 DEF BeginImport, ImportKeyring, EndImport, CreateMonmap, TouchMon, RestartMon,
       mons, osds
<1>9. CASE SetupMgr \/ TouchMgr \/ NextOsd \/ WriteUnit \/ RestartOsd \/ Mark
  BY <1>2, <1>9 DEF SetupMgr, TouchMgr, NextOsd, WriteUnit, RestartOsd, Mark, mons, osds
<1>10. CASE UNCHANGED vars  BY <1>2, <1>10 DEF vars, mons, osds
<1>11. CASE RollBack
  <2>1. ids \in Nat /\ ids > 0 /\ \A d \in Devices : osdId[d] # ids - 1
    BY <1>1, <1>11, CephAssumption DEF RollBack, OsdInv, OsdTypes
  <2>2. ids' = ids - 1 /\ UNCHANGED << store, osdId, serving >>  BY <1>11 DEF RollBack, mons
  <2>3. TheCluster!TakeBack  BY <2>1, <2>2 DEF TheCluster!TakeBack
  <2> QED  BY <2>3 DEF TheCluster!Next
<1> QED  BY <1>3, <1>4, <1>5, <1>6, <1>7, <1>8, <1>9, <1>10, <1>11 DEF Next

\* setup() implements the cluster that is made once and keeps what it holds.
THEOREM ClusterImplemented == Spec => ImplementsCluster
  BY ClusterInitially, ClusterStep, CephInvariant, PTL
     DEF Spec, ImplementsCluster, TheCluster!Spec
================================================================================
