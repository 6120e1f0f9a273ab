------------------------------- MODULE Accounts -------------------------------
(***************************************************************************)
(* What the setups make in the services below them: databases and users      *)
(* (mysql.py), a virtual host and users (rabbitmq.py), domains, projects,     *)
(* roles, users, services and endpoints (keystone.py).  A setup is the        *)
(* sequence of the ensure_ functions it calls; each looks once at what there  *)
(* is and then makes what it misses.  Processes are cut short anywhere and    *)
(* start over, and the setups of one share keystone's connection, whose       *)
(* catalog is the one of the moment it was opened.                           *)
(***************************************************************************)
EXTENDS Naturals, Sequences, Functions, ModuleFiles

CONSTANTS
  Plans,     \* the plans setup may follow
  NoCatalog  \* o7k's cache is empty

Hosts == << "localhost", "%" >>
Interfaces == << "public", "internal", "admin" >>

\* mysql.ensure_service, rabbitmq.ensure_service, keystone.ensure_service_account:
\* the functions they call, with the name each is called with.
MysqlService(name) == << <<"database", name>>, <<"db_user", name>>, <<"grant", name>> >>
BrokerService(name) == << <<"broker", name>>, <<"permissions", name>> >>
ServiceAccount(name) ==
  << <<"user", name>>, <<"admin", name>>, <<"service", name>>, <<"endpoints", name>> >>

KeystoneSetup == MysqlService("keystone") \o
  << <<"db_sync", "keystone">>, <<"bootstrap", "Default">>,
     <<"domain", "service">>, <<"project", "service">>, <<"role", "_member_">> >>
GlanceSetup == MysqlService("glance") \o ServiceAccount("glance") \o << <<"db_sync", "glance">> >>
PlacementSetup ==
  MysqlService("placement") \o ServiceAccount("placement") \o << <<"db_sync", "placement">> >>
CinderSetup == MysqlService("cinder") \o BrokerService("cinder") \o ServiceAccount("cinder")
                 \o << <<"db_sync", "cinder">> >>
NeutronSetup == MysqlService("neutron") \o BrokerService("neutron") \o ServiceAccount("neutron")
                  \o << <<"db_sync", "neutron">>, <<"connect", "neutron">> >>
NovaSetup == MysqlService("nova") \o MysqlService("nova_api") \o MysqlService("nova_cell0")
               \o BrokerService("nova") \o ServiceAccount("nova")
               \o << <<"db_sync", "nova_api">>, <<"db_sync", "nova">> >>
HeatSetup == MysqlService("heat") \o BrokerService("heat") \o ServiceAccount("heat") \o
  << <<"service", "heat-cfn">>, <<"endpoints", "heat-cfn">>, <<"domain", "heat">>,
     <<"user", "heat_admin">>, <<"domain_role", "heat_admin">>,
     <<"role", "heat_stack_owner">>, <<"role", "heat_stack_user">>, <<"db_sync", "heat">> >>

Setup == [mysql |-> << >>, rabbitmq |-> << <<"vhost", "openstack">> >>,
          keystone |-> KeystoneSetup, glance |-> GlanceSetup, placement |-> PlacementSetup,
          cinder |-> CinderSetup, neutron |-> NeutronSetup, nova |-> NovaSetup, heat |-> HeatSetup]

DomainOf(user) == IF user = "heat_admin" THEN "heat" ELSE "service"

\* The statements of a function: what each of them makes.
Statements(call) ==
  CASE call[1] \in {"db_user", "grant"} -> [n \in DOMAIN Hosts |-> << call[1], call[2], Hosts[n] >>]
    [] call[1] = "endpoints" -> [n \in DOMAIN Interfaces |-> << call[1], call[2], Interfaces[n] >>]
    [] call[1] = "connect" -> << >>
    [] OTHER -> << call >>

AllMade == UNION {Range(Statements(call)) : call \in UNION {Range(Setup[s]) : s \in DOMAIN Setup}}

\* What a statement fails without.
Needs(it) ==
  CASE it[1] = "grant" -> {<<"db_user", it[2], it[3]>>}
    [] it[1] = "db_sync" -> {<<"database", it[2]>>, <<"grant", it[2], "localhost">>}
    [] it[1] = "permissions" -> {<<"broker", it[2]>>, <<"vhost", "openstack">>}
    [] it[1] = "bootstrap" -> {<<"db_sync", "keystone">>}
    [] it[1] \in {"domain", "role", "service"} -> {<<"bootstrap", "Default">>}
    [] it[1] \in {"project", "user"} -> {<<"domain", DomainOf(it[2])>>}
    [] it[1] = "admin" -> {<<"user", it[2]>>, <<"project", "service">>}
    [] it[1] = "domain_role" -> {<<"user", it[2]>>}
    [] it[1] = "endpoints" -> {<<"service", it[2]>>}
    [] OTHER -> {}

\* What may be done again without effect, and what keystone makes a second time
\* when it is asked to; making anything else again is an error.
Repeatable == {"grant", "db_sync", "permissions", "bootstrap", "admin", "domain_role"}
Doubling == {"service", "endpoints"}

ASSUME PlansAssumption == Plans \subseteq Seq(DOMAIN Setup) \ {<< >>}

\* The plans are execution orders of the modules as they are declared: of those
\* that make accounts, each comes after the ones it depends on.
ASSUME PlansInOrder ==
  \A p \in Plans : \A i \in DOMAIN p : \A s \in DependenciesOf(p[i]) \cap DOMAIN Setup :
    \E j \in 1..i - 1 : p[j] = s

VARIABLES
  plan, at,  \* the plan of this run, and the position in it; 0: nothing runs
  step,      \* the position in the setup
  looked,    \* the function called has looked at what there is
  todo,      \* what it has left to make: positions in its statements
  made,      \* what mysql, rabbitmq and keystone have
  doubled,   \* what keystone has twice
  catalog,   \* the keystone services in the shared connection's catalog
  marks

vars == << plan, at, step, looked, todo, made, doubled, catalog, marks >>

service == plan[at]
Call == IF at > 0 /\ step <= Len(Setup[service]) THEN Setup[service][step] ELSE << "none", "none" >>
name == Call[2]

\* Mutant: what is there in part is taken to be whole.
MissingUnlessBegun(call) ==
  IF Range(Statements(call)) \cap made # {} THEN {} ELSE DOMAIN Statements(call)

\* What a function finds missing, when it looks for each thing it makes.
Missing(call) == {n \in DOMAIN Statements(call) : Statements(call)[n] \notin made}

\* The first call over a new connection fetches the catalog of that moment.
Opened ==
  IF catalog = NoCatalog THEN {it[2] : it \in {m \in made : m[1] = "endpoints" /\ m[3] = "public"}}
  ELSE catalog

Init ==
  /\ plan \in Plans /\ at = 0 /\ step = 1 /\ looked = FALSE /\ todo = {}
  /\ made = {} /\ doubled = {} /\ catalog = NoCatalog /\ marks = {}

Start ==
  /\ at = 0
  /\ plan' \in Plans /\ at' = 1
  /\ UNCHANGED << step, looked, todo, made, doubled, catalog, marks >>

\* Something raises, or the process is killed.
Stop ==
  /\ at > 0
  /\ at' = 0 /\ step' = 1 /\ looked' = FALSE /\ todo' = {} /\ catalog' = NoCatalog
  /\ UNCHANGED << plan, made, doubled, marks >>

--------------------------------------------------------------------------------
\* A function has looked at what there is: missing is what it is going to make.
Look(function, missing) ==
  /\ Call[1] = function /\ ~looked
  /\ looked' = TRUE /\ todo' = missing
  /\ UNCHANGED << plan, at, step, made, doubled, marks >>

\* The functions of keystone.py look over the shared connection.  load_module
\* executes keystone.py a second time for its own setup(), which has another.
LookOver(function, missing) ==
  /\ Look(function, missing)
  /\ catalog' = IF service = "keystone" THEN catalog ELSE Opened

\* mysql.ensure_user looks for the name on any host.
FoundUser(user) == \E n \in DOMAIN Hosts : <<"db_user", user, Hosts[n]>> \in made

\* mysql.py.
EnsureDatabase == Look("database", Missing(Call)) /\ UNCHANGED catalog
EnsureDbUser ==
  /\ Look("db_user", IF FoundUser(name) THEN {} ELSE DOMAIN Statements(Call))
  /\ UNCHANGED catalog
GrantUser == Look("grant", DOMAIN Statements(Call)) /\ UNCHANGED catalog

\* rabbitmq.py.
EnsureVhostAny == Look("vhost", {}) /\ UNCHANGED catalog  \* Mutant: "/" is one
EnsureVhost == Look("vhost", Missing(Call)) /\ UNCHANGED catalog
EnsureBroker == Look("broker", Missing(Call)) /\ UNCHANGED catalog
EnsurePermissions == Look("permissions", DOMAIN Statements(Call)) /\ UNCHANGED catalog

\* The commands of the services themselves.
DbSync == Look("db_sync", DOMAIN Statements(Call)) /\ UNCHANGED catalog
BootstrapKeystone == Look("bootstrap", DOMAIN Statements(Call)) /\ UNCHANGED catalog

\* keystone.py.
EnsureDomain == LookOver("domain", Missing(Call))
EnsureProject == LookOver("project", Missing(Call))
EnsureRole == LookOver("role", Missing(Call))
EnsureUser == LookOver("user", Missing(Call))
EnsureAdmin == LookOver("admin", DOMAIN Statements(Call))
GrantDomainRole == LookOver("domain_role", DOMAIN Statements(Call))
EnsureService == LookOver("service", Missing(Call))
ListNoEndpoints == LookOver("endpoints", DOMAIN Statements(Call))  \* Mutant: of another service
ListEndpoints == LookOver("endpoints", Missing(Call))

Succeeds(it) == Needs(it) \subseteq made /\ (it \in made => it[1] \in Repeatable \cup Doubling)

\* The statements' turn, in their order.
Turn(n) == n \in todo /\ \A k \in todo : n <= k

\* One statement takes effect.
Make ==
  /\ \E n \in todo : LET it == Statements(Call)[n] IN
       /\ Turn(n) /\ Succeeds(it)
       /\ made' = made \cup {it}
       /\ doubled' = doubled \cup ({it} \cap {m \in made : m[1] \in Doubling})
       /\ todo' = todo \ {n}
  /\ UNCHANGED << plan, at, step, looked, catalog, marks >>

\* Mutant: the next function takes the last one's findings.
ReturnLooked ==
  /\ step' = step + 1
  /\ UNCHANGED << plan, at, looked, todo, made, doubled, marks >>

Return ==
  /\ step' = step + 1 /\ looked' = FALSE
  /\ UNCHANGED << plan, at, todo, made, doubled, marks >>

\* The function returns to the setup.
ReturnToSetup ==
  /\ looked /\ todo = {} /\ Call[1] # "endpoints"
  /\ Return
  /\ UNCHANGED catalog

\* Mutant: the connection is kept.
KeepConnection ==
  /\ looked /\ todo = {} /\ Call[1] = "endpoints"
  /\ Return
  /\ UNCHANGED catalog

\* ensure_endpoint drops the connection, whose catalog is now out of date.
ClearConnection ==
  /\ looked /\ todo = {} /\ Call[1] = "endpoints"
  /\ Return
  /\ catalog' = NoCatalog

\* ensure_public_network calls the network API over keystone.o7k().
Connect ==
  /\ Call[1] = "connect"
  /\ name \in Opened
  /\ catalog' = Opened
  /\ Return

\* The mark, and the next module's setup or the end of the process.
Mark ==
  /\ at > 0 /\ step > Len(Setup[service])
  /\ marks' = marks \cup {service}
  /\ step' = 1
  /\ IF at < Len(plan) THEN at' = at + 1 /\ UNCHANGED catalog
                       ELSE at' = 0 /\ catalog' = NoCatalog
  /\ UNCHANGED << plan, looked, todo, made, doubled >>

Next ==
  \/ Start \/ Stop
  \/ EnsureDatabase \/ EnsureDbUser \/ GrantUser
  \/ EnsureVhost \/ EnsureBroker \/ EnsurePermissions
  \/ DbSync \/ BootstrapKeystone
  \/ EnsureDomain \/ EnsureProject \/ EnsureRole \/ EnsureUser
  \/ EnsureAdmin \/ GrantDomainRole \/ EnsureService \/ ListEndpoints
  \/ Make \/ ReturnToSetup \/ ClearConnection \/ Connect
  \/ Mark

Spec == Init /\ [][Next]_vars

--------------------------------------------------------------------------------
\* The types of the variables.
TypeOK ==
  /\ plan \in Plans /\ at \in 0..Len(plan)
  /\ step \in 1..(IF at = 0 THEN 1 ELSE Len(Setup[service]) + 1)
  /\ looked \in BOOLEAN /\ todo \subseteq DOMAIN Statements(Call)
  /\ made \subseteq AllMade /\ doubled \subseteq made
  /\ catalog = NoCatalog \/ catalog \subseteq {it[2] : it \in AllMade}
  /\ marks \subseteq DOMAIN Setup

\* A mark stands for everything the functions its setup() calls promise, however
\* many runs it took and wherever they were cut short: every user on both hosts
\* with its grants, every role, every interface of every endpoint.
MarkedAccountIsWhole ==
  \A s \in marks : \A n \in DOMAIN Setup[s] : Range(Statements(Setup[s][n])) \subseteq made

\* Setting a service up again never gives it a second endpoint of an interface, or
\* registers it twice, also when the last run died between two of them.
RegisteredOnce == doubled = {}

\* A setup that calls the API it has just registered finds it in the catalog of
\* the connection it shares with the setups before it.
CatalogCurrent == Call[1] = "connect" => Call[2] \in Opened

\* A plan has what its setups rest on made before they ask for it, and every
\* rerun picks up what the last one left, but in one case: mysql's user that has
\* been made on one host only is never made on the other, and grant_user fails
\* there in this run and all later ones.
OnlyHalfMadeUsersBlock ==
  \A n \in todo : Turn(n) =>
    \/ Succeeds(Statements(Call)[n])
    \/ /\ Statements(Call)[n] = <<"grant", Call[2], "%">>
       /\ <<"db_user", Call[2], "localhost">> \in made
================================================================================
