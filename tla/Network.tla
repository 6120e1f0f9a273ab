-------------------------------- MODULE Network --------------------------------
(***************************************************************************)
(* The path from a tempest server to the outside: ovn's bridge and iptables  *)
(* rule, neutron's public network, made while neutron-server comes up, and   *)
(* the network heat's configure_tempest makes behind a router.  setup() of    *)
(* ovn, neutron and heat run in this order in one process, configure_tempest *)
(* in another; each is cut short anywhere and run again.                     *)
(***************************************************************************)
EXTENDS Naturals

CONSTANT
  Attempts   \* the turns of neutron's retry loop, ten in the code

ASSUME NetworkAssumption == Attempts \in Nat \ {0}

VARIABLES
  pc,
  tries,    \* the attempts at ensure_public_network so far
  up,       \* neutron-server accepts connections
  bridge,   \* br-ex: absent, added, or up with the gateway's address
  rule,     \* POSTROUTING has the masquerading rule, once or more often
  public,   \* what there is of external-network and external-subnet
  project,  \* heat-demo-project and admin's role in it
  demo,     \* what there is of heat-demo-network, -subnet and -router
  gateway,  \* the router has the external network for a gateway
  port,     \* the subnet's port: absent, or the device it is on
  marks,
  configured, \* history: a configure_tempest has returned
  sinceBoot,  \* history: a setup() of ovn has returned since the host booted
  gaveUp      \* history: a setup() of neutron ran out of attempts

ovn     == << bridge, rule >>
tenant  == << project, demo, gateway, port >>
history == << configured, sinceBoot, gaveUp >>
vars == << pc, tries, up, ovn, public, tenant, marks, history >>

Step(from, to) == pc = from /\ pc' = to

--------------------------------------------------------------------------------
Init ==
  /\ pc = "idle" /\ tries = 0 /\ up = FALSE
  /\ bridge = "absent" /\ rule = FALSE /\ public = {}
  /\ project = "absent" /\ demo = {} /\ gateway = FALSE /\ port = "absent"
  /\ marks = {} /\ configured = FALSE /\ sinceBoot = FALSE /\ gaveUp = FALSE

\* regress-stack setup, at ovn's turn.
StartSetup ==
  /\ Step("idle", "bridge")
  /\ UNCHANGED << tries, up, ovn, public, tenant, marks, history >>

\* regress-stack test, at heat's turn, which it gets when heat is marked.
StartTest ==
  /\ Step("idle", "project")
  /\ "heat" \in marks
  /\ UNCHANGED << tries, up, ovn, public, tenant, marks, history >>

\* Mutant: the retry loop swallows every exception.
AfterErrorGoOn == IF pc \in {"network", "subnet"} THEN "neutron_mark" ELSE "idle"

\* An exception that ends the process.
AfterError == "idle"

\* A command raises, or the process is killed.
Stop ==
  /\ pc # "idle"
  /\ pc' = AfterError /\ tries' = 0
  /\ UNCHANGED << up, ovn, public, tenant, marks, history >>

\* The host reboots: ovsdb keeps the bridge, and neutron and the marks are kept,
\* but neither the bridge's address nor the rule outlives the kernel.
Reboot ==
  /\ pc' = "idle" /\ tries' = 0
  /\ bridge' = IF bridge = "up" THEN "added" ELSE bridge
  /\ rule' = FALSE /\ up' = FALSE /\ sinceBoot' = FALSE
  /\ UNCHANGED << public, tenant, marks, configured, gaveUp >>

\* neutron-server begins to accept connections, or goes down and will be
\* started again by systemd.
ServerChanges ==
  /\ up' = ~up
  /\ UNCHANGED << pc, tries, ovn, public, tenant, marks, history >>

--------------------------------------------------------------------------------
(***************************************************************************)
(* ovn.setup().                                                             *)
(***************************************************************************)

\* ovs-vsctl --may-exist add-br.
AddBridge ==
  /\ Step("bridge", "address")
  /\ bridge' = IF bridge = "absent" THEN "added" ELSE bridge
  /\ UNCHANGED << tries, up, rule, public, tenant, marks, history >>

\* configure_external_bridge: the address and the state in one commit, unless
\* the address is there.
ConfigureBridge ==
  /\ Step("address", "rule")
  /\ bridge' = "up"
  /\ UNCHANGED << tries, up, rule, public, tenant, marks, history >>

\* iptables --check; when it fails, for whatever reason, the rule counts as
\* missing.
CheckRule ==
  /\ Step("rule", "append") \/ (rule /\ Step("rule", "ovn_mark"))
  /\ UNCHANGED << tries, up, ovn, public, tenant, marks, history >>

AppendRule ==
  /\ Step("append", "ovn_mark")
  /\ rule' = TRUE
  /\ UNCHANGED << tries, up, bridge, public, tenant, marks, history >>

MarkOvn ==
  /\ Step("ovn_mark", "restart")
  /\ marks' = marks \cup {"ovn"} /\ sinceBoot' = TRUE
  /\ UNCHANGED << tries, up, ovn, public, tenant, configured, gaveUp >>

--------------------------------------------------------------------------------
(***************************************************************************)
(* neutron.setup() from the restart of neutron-server on.                    *)
(***************************************************************************)
RestartServer ==
  /\ Step("restart", "network")
  /\ up' = FALSE /\ tries' = 1
  /\ UNCHANGED << ovn, public, tenant, marks, history >>

\* ensure_public_network, as far as the server answers: nobody else makes or
\* deletes networks between the lookup and the creation.
EnsurePublicNetwork ==
  /\ Step("network", "subnet") /\ up
  /\ public' = public \cup {"network"}
  /\ UNCHANGED << tries, up, ovn, tenant, marks, history >>

EnsurePublicSubnet ==
  /\ Step("subnet", "neutron_mark") /\ up
  /\ public' = public \cup {"subnet"}
  /\ UNCHANGED << tries, up, ovn, tenant, marks, history >>

\* Mutants: one attempt too many; the attempts are not counted.
AttemptsLeftAtLast == tries <= Attempts
SameAttempt == tries

\* for _ in range(10).
AttemptsLeft == tries < Attempts
NextAttempt == tries + 1

\* "Connection refused" to either call: another attempt from the start, or,
\* after the last one, the end of the loop, and setup() returns.
Refused ==
  /\ pc \in {"network", "subnet"} /\ ~up
  /\ IF AttemptsLeft
     THEN tries' = NextAttempt /\ pc' = "network" /\ UNCHANGED gaveUp
     ELSE gaveUp' = TRUE /\ pc' = "neutron_mark" /\ UNCHANGED tries
  /\ UNCHANGED << up, ovn, public, tenant, marks, configured, sinceBoot >>

MarkNeutron ==
  /\ Step("neutron_mark", "heat_mark")
  /\ marks' = marks \cup {"neutron"} /\ tries' = 0
  /\ UNCHANGED << up, ovn, public, tenant, history >>

\* The rest of the plan up to heat.
MarkHeat ==
  /\ Step("heat_mark", "idle")
  /\ marks' = marks \cup {"heat"}
  /\ UNCHANGED << tries, up, ovn, public, tenant, history >>

--------------------------------------------------------------------------------
(***************************************************************************)
(* heat.configure_tempest(), whose calls nobody retries.                      *)
(***************************************************************************)

\* ensure_project; then grant_project_role, in every run.
EnsureProject ==
  /\ Step("project", "role")
  /\ project' = IF project = "absent" THEN "made" ELSE project
  /\ UNCHANGED << tries, up, ovn, public, demo, gateway, port, marks, history >>

GrantProjectRole ==
  /\ Step("role", "demo_network")
  /\ project' = "granted"
  /\ UNCHANGED << tries, up, ovn, public, demo, gateway, port, marks, history >>

EnsureNetwork ==
  /\ Step("demo_network", "demo_subnet") /\ up
  /\ demo' = demo \cup {"network"}
  /\ UNCHANGED << tries, up, ovn, public, project, gateway, port, marks, history >>

EnsureSubnet ==
  /\ Step("demo_subnet", "router") /\ up
  /\ demo' = demo \cup {"subnet"}
  /\ UNCHANGED << tries, up, ovn, public, project, gateway, port, marks, history >>

\* A new router takes the id of public_network(), which is an attribute of None
\* when there is none.
NoIdToTake == "router" \notin demo /\ "network" \notin public

EnsureRouter ==
  /\ Step("router", "find_port") /\ up
  /\ ~NoIdToTake
  /\ demo' = demo \cup {"router"}
  /\ gateway' = (gateway \/ "router" \notin demo)
  /\ UNCHANGED << tries, up, ovn, public, project, port, marks, history >>

\* ensure_subnet_router: the port is found by its name, ...
FindPort ==
  /\ Step("find_port", IF port = "absent" THEN "create_port" ELSE "find_again") /\ up
  /\ UNCHANGED << tries, up, ovn, public, tenant, marks, history >>

\* ... or made, on no device yet, ...
CreatePort ==
  /\ Step("create_port", "add") /\ up
  /\ port' = "no device"
  /\ UNCHANGED << tries, up, ovn, public, project, demo, gateway, marks, history >>

\* ... and given to the router, ...
AddInterface ==
  /\ Step("add", "find_again") /\ up
  /\ port' = "router"
  /\ UNCHANGED << tries, up, ovn, public, project, demo, gateway, marks, history >>

\* Mutant: a port that exists is taken to be attached.
AttachedWhenMade == port # "absent"

AttachedToRouter == port = "router"

\* ... and looked at again, for a port on another device.
FindPortAgain ==
  /\ Step("find_again", IF AttachedToRouter THEN "configure" ELSE "remove") /\ up
  /\ UNCHANGED << tries, up, ovn, public, tenant, marks, history >>

\* The port is to be moved from its device to the router.  Only a run that died
\* before AddInterface leaves one elsewhere, on no device, and neutron knows no
\* router without an id: the call raises, and what follows it never happens.
RemoveInterface ==
  /\ Step("remove", "idle") /\ up
  /\ port = "no device"
  /\ UNCHANGED << tries, up, ovn, public, tenant, marks, history >>

\* A call of configure_tempest() raises: the server refuses it, or there is no
\* id to take.
Raise ==
  /\ \/ /\ ~up
        /\ pc \in {"demo_network", "demo_subnet", "router", "find_port", "create_port", "add",
                  "find_again", "remove"}
     \/ pc = "router" /\ NoIdToTake
  /\ pc' = "idle"
  /\ UNCHANGED << tries, up, ovn, public, tenant, marks, history >>

\* cfg_set of tempest.conf, and configure_tempest() returns.
ConfigureTempest ==
  /\ Step("configure", "idle")
  /\ configured' = TRUE
  /\ UNCHANGED << tries, up, ovn, public, tenant, marks, sinceBoot, gaveUp >>

Run ==
  \/ AddBridge \/ ConfigureBridge \/ CheckRule \/ AppendRule \/ MarkOvn
  \/ RestartServer \/ EnsurePublicNetwork \/ EnsurePublicSubnet \/ Refused
  \/ MarkNeutron \/ MarkHeat
  \/ EnsureProject \/ GrantProjectRole \/ EnsureNetwork \/ EnsureSubnet \/ EnsureRouter
  \/ FindPort \/ CreatePort \/ AddInterface \/ FindPortAgain \/ RemoveInterface
  \/ ConfigureTempest \/ Raise

Next == StartSetup \/ StartTest \/ Stop \/ Reboot \/ ServerChanges \/ Run

Spec == Init /\ [][Next]_vars /\ WF_vars(Run)

--------------------------------------------------------------------------------
\* The types of the variables.
TypeOK ==
  /\ pc \in {"idle", "bridge", "address", "rule", "append", "ovn_mark", "restart", "network",
             "subnet", "neutron_mark", "heat_mark", "project", "role", "demo_network",
             "demo_subnet", "router", "find_port", "create_port", "add", "find_again",
             "remove", "configure"}
  /\ tries \in 0..Attempts /\ up \in BOOLEAN
  /\ bridge \in {"absent", "added", "up"} /\ rule \in BOOLEAN
  /\ public \subseteq {"network", "subnet"}
  /\ project \in {"absent", "made", "granted"} /\ demo \subseteq {"network", "subnet", "router"}
  /\ gateway \in BOOLEAN /\ port \in {"absent", "no device", "router"}
  /\ marks \subseteq {"ovn", "neutron", "heat"} /\ configured \in BOOLEAN
  /\ sinceBoot \in BOOLEAN /\ gaveUp \in BOOLEAN

\* When configure_tempest has returned the whole path is there, whichever runs
\* of the two commands made its parts: admin's project, its subnet on a router
\* by an attached port, the router on the public network, and the host's bridge
\* and masquerading rule.  These two do not outlive a reboot, and test does not
\* look for them: they are only asked for if ovn's setup() was run since.
TempestPath ==
  configured =>
    /\ project = "granted" /\ demo = {"network", "subnet", "router"} /\ port = "router"
    /\ gateway /\ "network" \in public
    /\ sinceBoot => bridge = "up" /\ rule

\* Only "Connection refused" is forgiven: a marked neutron lacks its public
\* network or subnet only if some run was refused in its last attempt.
MissingOnlyAfterRefusals ==
  ("neutron" \in marks /\ public # {"network", "subnet"}) => gaveUp

\* Every command ends, its retries with it, however often neutron-server comes and
\* goes.
RetriesEnd == (pc # "idle") ~> (pc = "idle")

\* neutron.py:114, "wait for neutron-server to accept http connections": what
\* setup() waits to make is there when it is done waiting.
MarkedHasPublicNetwork == "neutron" \in marks => public = {"network", "subnet"}
================================================================================
