----------------------------- MODULE NetworkProofs -----------------------------
(***************************************************************************)
(* The network path of a tempest server and neutron's retry loop, for any    *)
(* number of attempts and any sequence of setups, tests and reboots.          *)
(***************************************************************************)
EXTENDS Network, TLAPS

--------------------------------------------------------------------------------
(***************************************************************************)
(* The inductive invariant.                                                 *)
(***************************************************************************)
Programs == {"idle", "bridge", "address", "rule", "append", "ovn_mark", "restart", "network",
             "subnet", "neutron_mark", "heat_mark", "project", "role", "demo_network",
             "demo_subnet", "router", "find_port", "create_port", "add", "find_again",
             "remove", "configure"}

\* The types in three parts: the truth values, the attempts and the rest.
Flags ==
  /\ up \in BOOLEAN /\ rule \in BOOLEAN /\ gateway \in BOOLEAN /\ configured \in BOOLEAN
  /\ sinceBoot \in BOOLEAN /\ gaveUp \in BOOLEAN
Values ==
  /\ pc \in Programs
  /\ bridge \in {"absent", "added", "up"} /\ public \subseteq {"network", "subnet"}
  /\ project \in {"absent", "made", "granted"} /\ demo \subseteq {"network", "subnet", "router"}
  /\ port \in {"absent", "no device", "router"} /\ marks \subseteq {"ovn", "neutron", "heat"}

Count == tries \in 0..Attempts

\* Where configure_tempest() has a part behind it.
AfterRouter == {"find_port", "create_port", "add", "find_again", "remove", "configure"}
AfterSubnet == {"router"} \cup AfterRouter
AfterNetwork == {"demo_subnet"} \cup AfterSubnet
AfterRole == {"demo_network"} \cup AfterNetwork

\* ovn's half of the path is up from its setup to the next reboot.
BridgeInv ==
  /\ pc \in {"rule", "append", "ovn_mark"} => bridge = "up"
  /\ pc = "ovn_mark" => rule
  /\ sinceBoot => bridge = "up" /\ rule

\* Each part heat made is there for the next, and for good.  A port is made only
\* where there is none, so that an attached one stays attached.
TenantInv ==
  /\ pc \in AfterRole \/ configured => project = "granted"
  /\ pc \in AfterNetwork \/ configured => "network" \in demo
  /\ pc \in AfterSubnet \/ configured => "subnet" \in demo
  /\ pc \in AfterRouter \/ configured => "router" \in demo
  /\ "router" \in demo => gateway /\ "network" \in public
  /\ pc = "create_port" => port = "absent"
  /\ pc = "add" => port = "no device"
  /\ pc = "configure" \/ configured => port = "router"

\* Neutron's half of its public network is behind the loop unless it ran out.
PublicInv ==
  /\ pc = "subnet" => "network" \in public
  /\ pc = "neutron_mark" /\ public # {"network", "subnet"} => gaveUp
  /\ MissingOnlyAfterRefusals

IInv == TypeOK /\ BridgeInv /\ TenantInv /\ PublicInv

--------------------------------------------------------------------------------
\* The three parts are the module's types.
LEMMA TypesInParts == TypeOK <=> Flags /\ Values /\ Count
  BY Zenon DEF TypeOK, Flags, Values, Count, Programs

\* Every step keeps the types of the values.
LEMMA ValuesStep ==
  ASSUME Values, [Next]_vars
  PROVE  Values'
<1> USE NetworkAssumption DEF Step, ovn, tenant, history, Values, Programs
<1>1. CASE StartSetup  BY <1>1 DEF StartSetup
<1>2. CASE StartTest  BY <1>2 DEF StartTest
<1>3. CASE Stop  BY <1>3 DEF Stop, AfterError
<1>4. CASE Reboot  BY <1>4 DEF Reboot
<1>5. CASE ServerChanges  BY <1>5 DEF ServerChanges
<1>6. CASE AddBridge  BY <1>6 DEF AddBridge
<1>7. CASE ConfigureBridge  BY <1>7 DEF ConfigureBridge
<1>8. CASE CheckRule  BY <1>8 DEF CheckRule
<1>9. CASE AppendRule  BY <1>9 DEF AppendRule
<1>10. CASE MarkOvn  BY <1>10 DEF MarkOvn
<1>11. CASE RestartServer  BY <1>11 DEF RestartServer
<1>12. CASE EnsurePublicNetwork  BY <1>12 DEF EnsurePublicNetwork
<1>13. CASE EnsurePublicSubnet  BY <1>13 DEF EnsurePublicSubnet
<1>14. CASE Refused  BY <1>14 DEF Refused, AttemptsLeft, NextAttempt
<1>15. CASE MarkNeutron  BY <1>15 DEF MarkNeutron
<1>16. CASE MarkHeat  BY <1>16 DEF MarkHeat
<1>17. CASE EnsureProject  BY <1>17 DEF EnsureProject
<1>18. CASE GrantProjectRole  BY <1>18 DEF GrantProjectRole
<1>19. CASE EnsureNetwork  BY <1>19 DEF EnsureNetwork
<1>20. CASE EnsureSubnet  BY <1>20 DEF EnsureSubnet
<1>21. CASE EnsureRouter  BY <1>21 DEF EnsureRouter, NoIdToTake
<1>22. CASE FindPort  BY <1>22 DEF FindPort
<1>23. CASE CreatePort  BY <1>23 DEF CreatePort
<1>24. CASE AddInterface  BY <1>24 DEF AddInterface
<1>25. CASE FindPortAgain  BY <1>25 DEF FindPortAgain, AttachedToRouter
<1>26. CASE RemoveInterface  BY <1>26 DEF RemoveInterface
<1>27. CASE Raise  BY <1>27 DEF Raise, NoIdToTake
<1>28. CASE ConfigureTempest  BY <1>28 DEF ConfigureTempest
<1>29. CASE UNCHANGED vars  BY <1>29 DEF vars
<1> QED
  BY <1>1, <1>2, <1>3, <1>4, <1>5, <1>6, <1>7, <1>8, <1>9, <1>10, <1>11, <1>12, <1>13, <1>14,
     <1>15, <1>16, <1>17, <1>18, <1>19, <1>20, <1>21, <1>22, <1>23, <1>24, <1>25, <1>26, <1>27, <1>28,
     <1>29
     DEF Next, Run

\* No step counts past the attempts.
LEMMA CountStep ==
  ASSUME Count, [Next]_vars
  PROVE  Count'
<1> USE NetworkAssumption DEF Step, ovn, tenant, history, Count
<1>1. CASE StartSetup  BY <1>1 DEF StartSetup
<1>2. CASE StartTest  BY <1>2 DEF StartTest
<1>3. CASE Stop  BY <1>3 DEF Stop, AfterError
<1>4. CASE Reboot  BY <1>4 DEF Reboot
<1>5. CASE ServerChanges  BY <1>5 DEF ServerChanges
<1>6. CASE AddBridge  BY <1>6 DEF AddBridge
<1>7. CASE ConfigureBridge  BY <1>7 DEF ConfigureBridge
<1>8. CASE CheckRule  BY <1>8 DEF CheckRule
<1>9. CASE AppendRule  BY <1>9 DEF AppendRule
<1>10. CASE MarkOvn  BY <1>10 DEF MarkOvn
<1>11. CASE RestartServer  BY <1>11 DEF RestartServer
<1>12. CASE EnsurePublicNetwork  BY <1>12 DEF EnsurePublicNetwork
<1>13. CASE EnsurePublicSubnet  BY <1>13 DEF EnsurePublicSubnet
<1>14. CASE Refused  BY <1>14 DEF Refused, AttemptsLeft, NextAttempt
<1>15. CASE MarkNeutron  BY <1>15 DEF MarkNeutron
<1>16. CASE MarkHeat  BY <1>16 DEF MarkHeat
<1>17. CASE EnsureProject  BY <1>17 DEF EnsureProject
<1>18. CASE GrantProjectRole  BY <1>18 DEF GrantProjectRole
<1>19. CASE EnsureNetwork  BY <1>19 DEF EnsureNetwork
<1>20. CASE EnsureSubnet  BY <1>20 DEF EnsureSubnet
<1>21. CASE EnsureRouter  BY <1>21 DEF EnsureRouter, NoIdToTake
<1>22. CASE FindPort  BY <1>22 DEF FindPort
<1>23. CASE CreatePort  BY <1>23 DEF CreatePort
<1>24. CASE AddInterface  BY <1>24 DEF AddInterface
<1>25. CASE FindPortAgain  BY <1>25 DEF FindPortAgain, AttachedToRouter
<1>26. CASE RemoveInterface  BY <1>26 DEF RemoveInterface
<1>27. CASE Raise  BY <1>27 DEF Raise, NoIdToTake
<1>28. CASE ConfigureTempest  BY <1>28 DEF ConfigureTempest
<1>29. CASE UNCHANGED vars  BY <1>29 DEF vars
<1> QED
  BY <1>1, <1>2, <1>3, <1>4, <1>5, <1>6, <1>7, <1>8, <1>9, <1>10, <1>11, <1>12, <1>13, <1>14,
     <1>15, <1>16, <1>17, <1>18, <1>19, <1>20, <1>21, <1>22, <1>23, <1>24, <1>25, <1>26, <1>27, <1>28,
     <1>29
     DEF Next, Run

\* Every step keeps the truth values such.
LEMMA FlagsStep ==
  ASSUME Flags, [Next]_vars
  PROVE  Flags'
  BY Zenon DEF Flags, Next, Run, vars, Step, ovn, tenant, history,
     StartSetup, StartTest, Stop, Reboot, ServerChanges, AddBridge, ConfigureBridge, CheckRule,
     AppendRule, MarkOvn, RestartServer, EnsurePublicNetwork, EnsurePublicSubnet, Refused, MarkNeutron, MarkHeat,
     EnsureProject, GrantProjectRole, EnsureNetwork, EnsureSubnet, EnsureRouter, FindPort, CreatePort, AddInterface,
     FindPortAgain, RemoveInterface, Raise, ConfigureTempest

\* Every step keeps ovn's half of the path.
LEMMA BridgeStep ==
  ASSUME BridgeInv, [Next]_vars
  PROVE  BridgeInv'
<1> USE NetworkAssumption DEF Step, ovn, tenant, history, BridgeInv
<1>1. CASE StartSetup  BY <1>1 DEF StartSetup
<1>2. CASE StartTest  BY <1>2 DEF StartTest
<1>3. CASE Stop  BY <1>3 DEF Stop, AfterError
<1>4. CASE Reboot  BY <1>4 DEF Reboot
<1>5. CASE ServerChanges  BY <1>5 DEF ServerChanges
<1>6. CASE AddBridge  BY <1>6 DEF AddBridge
<1>7. CASE ConfigureBridge  BY <1>7 DEF ConfigureBridge
<1>8. CASE CheckRule  BY <1>8 DEF CheckRule
<1>9. CASE AppendRule  BY <1>9 DEF AppendRule
<1>10. CASE MarkOvn  BY <1>10 DEF MarkOvn
<1>11. CASE RestartServer  BY <1>11 DEF RestartServer
<1>12. CASE EnsurePublicNetwork  BY <1>12 DEF EnsurePublicNetwork
<1>13. CASE EnsurePublicSubnet  BY <1>13 DEF EnsurePublicSubnet
<1>14. CASE Refused  BY <1>14 DEF Refused, AttemptsLeft, NextAttempt
<1>15. CASE MarkNeutron  BY <1>15 DEF MarkNeutron
<1>16. CASE MarkHeat  BY <1>16 DEF MarkHeat
<1>17. CASE EnsureProject  BY <1>17 DEF EnsureProject
<1>18. CASE GrantProjectRole  BY <1>18 DEF GrantProjectRole
<1>19. CASE EnsureNetwork  BY <1>19 DEF EnsureNetwork
<1>20. CASE EnsureSubnet  BY <1>20 DEF EnsureSubnet
<1>21. CASE EnsureRouter  BY <1>21 DEF EnsureRouter, NoIdToTake
<1>22. CASE FindPort  BY <1>22 DEF FindPort
<1>23. CASE CreatePort  BY <1>23 DEF CreatePort
<1>24. CASE AddInterface  BY <1>24 DEF AddInterface
<1>25. CASE FindPortAgain  BY <1>25 DEF FindPortAgain, AttachedToRouter
<1>26. CASE RemoveInterface  BY <1>26 DEF RemoveInterface
<1>27. CASE Raise  BY <1>27 DEF Raise, NoIdToTake
<1>28. CASE ConfigureTempest  BY <1>28 DEF ConfigureTempest
<1>29. CASE UNCHANGED vars  BY <1>29 DEF vars
<1> QED
  BY <1>1, <1>2, <1>3, <1>4, <1>5, <1>6, <1>7, <1>8, <1>9, <1>10, <1>11, <1>12, <1>13, <1>14,
     <1>15, <1>16, <1>17, <1>18, <1>19, <1>20, <1>21, <1>22, <1>23, <1>24, <1>25, <1>26, <1>27, <1>28,
     <1>29
     DEF Next, Run

\* Every step keeps heat's half of the path.
LEMMA TenantStep ==
  ASSUME Values, TenantInv, [Next]_vars
  PROVE  TenantInv'
<1> USE NetworkAssumption
      DEF Step, ovn, tenant, history, Values, TenantInv, AfterRole, AfterNetwork, AfterSubnet,
          AfterRouter
<1>1. CASE StartSetup  BY <1>1 DEF StartSetup
<1>2. CASE StartTest  BY <1>2 DEF StartTest
<1>3. CASE Stop  BY <1>3 DEF Stop, AfterError
<1>4. CASE Reboot  BY <1>4 DEF Reboot
<1>5. CASE ServerChanges  BY <1>5 DEF ServerChanges
<1>6. CASE AddBridge  BY <1>6 DEF AddBridge
<1>7. CASE ConfigureBridge  BY <1>7 DEF ConfigureBridge
<1>8. CASE CheckRule  BY <1>8 DEF CheckRule
<1>9. CASE AppendRule  BY <1>9 DEF AppendRule
<1>10. CASE MarkOvn  BY <1>10 DEF MarkOvn
<1>11. CASE RestartServer  BY <1>11 DEF RestartServer
<1>12. CASE EnsurePublicNetwork  BY <1>12 DEF EnsurePublicNetwork
<1>13. CASE EnsurePublicSubnet  BY <1>13 DEF EnsurePublicSubnet
<1>14. CASE Refused  BY <1>14 DEF Refused, AttemptsLeft, NextAttempt
<1>15. CASE MarkNeutron  BY <1>15 DEF MarkNeutron
<1>16. CASE MarkHeat  BY <1>16 DEF MarkHeat
<1>17. CASE EnsureProject  BY <1>17 DEF EnsureProject
<1>18. CASE GrantProjectRole  BY <1>18 DEF GrantProjectRole
<1>19. CASE EnsureNetwork  BY <1>19 DEF EnsureNetwork
<1>20. CASE EnsureSubnet  BY <1>20 DEF EnsureSubnet
<1>21. CASE EnsureRouter  BY <1>21 DEF EnsureRouter, NoIdToTake
<1>22. CASE FindPort  BY <1>22 DEF FindPort
<1>23. CASE CreatePort  BY <1>23 DEF CreatePort
<1>24. CASE AddInterface  BY <1>24 DEF AddInterface
<1>25. CASE FindPortAgain  BY <1>25 DEF FindPortAgain, AttachedToRouter
<1>26. CASE RemoveInterface  BY <1>26 DEF RemoveInterface
<1>27. CASE Raise  BY <1>27 DEF Raise, NoIdToTake
<1>28. CASE ConfigureTempest  BY <1>28 DEF ConfigureTempest
<1>29. CASE UNCHANGED vars  BY <1>29 DEF vars
<1> QED
  BY <1>1, <1>2, <1>3, <1>4, <1>5, <1>6, <1>7, <1>8, <1>9, <1>10, <1>11, <1>12, <1>13, <1>14,
     <1>15, <1>16, <1>17, <1>18, <1>19, <1>20, <1>21, <1>22, <1>23, <1>24, <1>25, <1>26, <1>27, <1>28,
     <1>29
     DEF Next, Run

\* Every step keeps what is known of the public network.
LEMMA PublicStep ==
  ASSUME Values, PublicInv, [Next]_vars
  PROVE  PublicInv'
<1> USE NetworkAssumption
      DEF Step, ovn, tenant, history, Values, PublicInv, MissingOnlyAfterRefusals
<1>1. CASE StartSetup  BY <1>1 DEF StartSetup
<1>2. CASE StartTest  BY <1>2 DEF StartTest
<1>3. CASE Stop  BY <1>3 DEF Stop, AfterError
<1>4. CASE Reboot  BY <1>4 DEF Reboot
<1>5. CASE ServerChanges  BY <1>5 DEF ServerChanges
<1>6. CASE AddBridge  BY <1>6 DEF AddBridge
<1>7. CASE ConfigureBridge  BY <1>7 DEF ConfigureBridge
<1>8. CASE CheckRule  BY <1>8 DEF CheckRule
<1>9. CASE AppendRule  BY <1>9 DEF AppendRule
<1>10. CASE MarkOvn  BY <1>10 DEF MarkOvn
<1>11. CASE RestartServer  BY <1>11 DEF RestartServer
<1>12. CASE EnsurePublicNetwork  BY <1>12 DEF EnsurePublicNetwork
<1>13. CASE EnsurePublicSubnet  BY <1>13 DEF EnsurePublicSubnet
<1>14. CASE Refused  BY <1>14 DEF Refused, AttemptsLeft, NextAttempt
<1>15. CASE MarkNeutron  BY <1>15 DEF MarkNeutron
<1>16. CASE MarkHeat  BY <1>16 DEF MarkHeat
<1>17. CASE EnsureProject  BY <1>17 DEF EnsureProject
<1>18. CASE GrantProjectRole  BY <1>18 DEF GrantProjectRole
<1>19. CASE EnsureNetwork  BY <1>19 DEF EnsureNetwork
<1>20. CASE EnsureSubnet  BY <1>20 DEF EnsureSubnet
<1>21. CASE EnsureRouter  BY <1>21 DEF EnsureRouter, NoIdToTake
<1>22. CASE FindPort  BY <1>22 DEF FindPort
<1>23. CASE CreatePort  BY <1>23 DEF CreatePort
<1>24. CASE AddInterface  BY <1>24 DEF AddInterface
<1>25. CASE FindPortAgain  BY <1>25 DEF FindPortAgain, AttachedToRouter
<1>26. CASE RemoveInterface  BY <1>26 DEF RemoveInterface
<1>27. CASE Raise  BY <1>27 DEF Raise, NoIdToTake
<1>28. CASE ConfigureTempest  BY <1>28 DEF ConfigureTempest
<1>29. CASE UNCHANGED vars  BY <1>29 DEF vars
<1> QED
  BY <1>1, <1>2, <1>3, <1>4, <1>5, <1>6, <1>7, <1>8, <1>9, <1>10, <1>11, <1>12, <1>13, <1>14,
     <1>15, <1>16, <1>17, <1>18, <1>19, <1>20, <1>21, <1>22, <1>23, <1>24, <1>25, <1>26, <1>27, <1>28,
     <1>29
     DEF Next, Run

--------------------------------------------------------------------------------
(***************************************************************************)
(* The theorems.                                                            *)
(***************************************************************************)

\* Before the first command nothing is there.
LEMMA Initially == Init => IInv
<1> SUFFICES ASSUME Init PROVE IInv
  OBVIOUS
<1> USE DEF Init
<1>1. Values /\ Count  BY NetworkAssumption DEF Values, Count, Programs
<1>2. Flags  BY Zenon DEF Flags
<1>3. BridgeInv /\ PublicInv  BY DEF BridgeInv, PublicInv, MissingOnlyAfterRefusals
<1>4. TenantInv  BY DEF TenantInv, AfterRole, AfterNetwork, AfterSubnet, AfterRouter
<1> QED  BY <1>1, <1>2, <1>3, <1>4, TypesInParts DEF IInv

\* Every step keeps the invariant.
LEMMA Inductive == IInv /\ [Next]_vars => IInv'
<1> SUFFICES ASSUME IInv, [Next]_vars PROVE IInv'
  OBVIOUS
<1>1. Values /\ Count /\ Flags /\ BridgeInv /\ TenantInv /\ PublicInv  BY TypesInParts DEF IInv
<1>2. Values' /\ Count' /\ Flags'  BY <1>1, ValuesStep, CountStep, FlagsStep
<1>3. BridgeInv'  BY <1>1, BridgeStep
<1>4. TenantInv'  BY <1>1, TenantStep
<1>5. PublicInv'  BY <1>1, PublicStep
<1>6. TypeOK' <=> Flags' /\ Values' /\ Count'
  BY Zenon DEF TypeOK, Flags, Values, Count, Programs
<1> QED  BY <1>2, <1>3, <1>4, <1>5, <1>6 DEF IInv

\* The invariant holds, whatever is cut short where.
THEOREM NetworkInvariant == Spec => []IInv
  BY Initially, Inductive, PTL DEF Spec

\* The types of the networks, the bridge and the retry loop's count.
THEOREM NetworkTypes == Spec => []TypeOK
<1>1. IInv => TypeOK  BY DEF IInv
<1> QED  BY <1>1, NetworkInvariant, PTL

\* When configure_tempest() has returned a server of its network has a path out.
THEOREM PathComplete == Spec => []TempestPath
<1>1. IInv => TempestPath
  <2> SUFFICES ASSUME IInv, configured PROVE TempestPath
    BY DEF TempestPath
  <2>1. Values /\ BridgeInv /\ TenantInv  BY TypesInParts DEF IInv
  <2>2. demo = {"network", "subnet", "router"}  BY <2>1 DEF Values, TenantInv
  <2> QED  BY <2>1, <2>2 DEF TempestPath, BridgeInv, TenantInv
<1> QED  BY <1>1, NetworkInvariant, PTL

\* The loop of neutron.setup() forgives "Connection refused" and nothing else.
THEOREM OnlyRefusalsForgiven == Spec => []MissingOnlyAfterRefusals
<1>1. IInv => MissingOnlyAfterRefusals  BY DEF IInv, PublicInv
<1> QED  BY <1>1, NetworkInvariant, PTL
================================================================================
