# regress-stack in TLA+

Specifications of regress-stack, the program that sets up a one-node OpenStack
from installed packages and runs tempest against it: TLA+ modules translated
from the source, TLC configurations that check them on small instances, and
TLAPS proofs for every value of the constants.  Source paths below are relative
to `src/src/regress_stack/`; `PROJECT.json` maps every definition to the lines it
stands for.

Run a configuration with `tlc -config X.cfg M.tla` (the module is named in the
table of runs), a proof with `tlapm M.tla`, `M` being
`GraphProofs`, `PlannerProofs`, `RepositoryProofs`, `OrchestratorProofs`, `CephProofs`,
`ComputeProofs`, `AccountsProofs` or `NetworkProofs`.

## 1. The system

regress-stack is a command line program, one process at a time, no threads.  It
keeps very little state of its own; nearly all that matters is on the disk and
in the services it drives, and **survives the process**.  That makes the hard
behaviour: not races of threads, but a process that raises or is killed between
any two commands, is run again, and finds what the last one left - as does the
machine when it is rebooted, which keeps the files and the marks and not what the
kernel held.

| component | source | state | operations | talks to |
|---|---|---|---|---|
| dependency planner | `core/modules.py` | a networkx graph, rebuilt per call | `build_dependency_graph`, `filter_graph`, `get_execution_order` | module declarations, package cache |
| module declarations | `modules/*.py` | constants `DEPENDENCIES`, `OPTIONAL_DEPENDENCIES`, `PACKAGES` | - | read by the planner |
| setup and test commands | `__main__.py` | position in the plan, stestr's record | `setup`, `test`, `collect_logs`, `plan`, `list_modules` | planner, marks, every module's `setup()` and `configure_tempest()` |
| marks | `core/utils.py` `mark_setup`, `is_setup_done` | files `<module>.setup` | touch, look | written by setup, read by test |
| exists_cache | `core/utils.py` | none: the file a decorated function makes | skip when the file exists | used by `modules/ceph.py` |
| package cache | `core/apt.py` | `APT_CACHE`, one snapshot per process | `get_cache`, `pkgs_installed` | planner, `installed()` of modules |
| command runner | `core/utils.py` `run`, `sudo`, `restart_service`, `my_ip` | cached answers | returns or raises | everything |
| ceph cluster | `modules/ceph.py` `setup` and what it calls | fsid, ceph.conf, keyrings, monitor store, devices, units | monitor, manager, three osds | the ceph tools, systemd |
| ceph clients | `modules/ceph.py` `ensure_*`, `rbd_uuid`; `modules/cinder.py`; `modules/nova.py` | pool, client keyring, cephx key, libvirt secret | made by cinder, used by cinder and nova | the cluster, libvirt |
| mysql, rabbitmq accounts | `modules/mysql.py`, `modules/rabbitmq.py` | databases, users, grants, permissions | `ensure_service` | called by every service |
| keystone | `modules/keystone.py` | domains, projects, roles, users, services, endpoints; the cached connection `o7k` | `setup`, `ensure_service_account`, the other `ensure_` and `grant_` functions | called by every service |
| glance, placement, heat, cinder, neutron, nova | `modules/` | configuration files, databases | `setup`, `configure_tempest` | the services above |
| nova's compute service | `modules/nova.py` | cells, the host's record and mapping, `virt_type` | databases, cells, restarts, `discover_hosts` after fifteen seconds | nova-compute, nova-conductor, lscpu, `/dev/kvm` |
| neutron's networks | `modules/neutron.py` | public and tempest networks, router, port | `ensure_public_network` and its retry loop, `ensure_*` | neutron-server; called by heat's `configure_tempest` |
| ovn | `modules/ovn.py` | bridge, iptables rule | `setup` | ovs, iptables |

What is hard, and what makes each part correct:

* **Planner.**  `filter_graph` grows the set of nodes to remove while it scans,
  in an order that comes from the hash order of sets; the target's plan is a
  second topological sort over a subgraph.  Correct: exactly the modules that
  cannot be set up are removed, the order respects every kept dependency and is
  the same in every process, and a target changes what runs but not in what order.
* **Declarations.**  They are maintained apart from the code they describe.
  Correct: whatever is installed, a service some `setup()` calls is planned before it.
* **Commands and marks.**  Failures, kills, partial targets and packages that
  come and go between and during commands.  Correct: a mark means that what it stands
  on is marked as well; a failure is reported; a success is complete; `test`
  configures only what was set up.
* **Ceph.**  Every step is skipped when its file exists, and steps do more than
  make their file.  Correct: one fsid throughout, a store with all keys, osds on
  their own devices, no data made over.
* **Ceph clients.**  One key in three places, one uuid in three places.
  Correct: the copies agree; a marked nova can attach cinder's volumes.
* **Compute.**  nova-compute registers the host on its own time, through a conductor and
  tables made by possibly different runs, and is then looked for once, in a cell.  Correct: a marked
  host registers in the end, and one that was registered before is mapped by the next setup.
* **Accounts.**  Created in several statements or calls each, "unless there
  already".  Correct: a marked service has the whole account and nothing twice,
  calls its API over a connection that knows it, and a rerun can go on from what the last
  run left.
* **Networks.**  neutron-server is restarted and called at once, with ten attempts; two
  commands build one path, each cut short anywhere.  Correct: when tempest is configured
  the whole path from its subnet to the public network is there, whatever runs made it; and the
  host's bridge and masquerading rule with it, if ovn's `setup()` was run since the boot (a test on an
  older mark finds neither, and looks for neither); no error but a refused connection is forgiven.

`PROJECT.json` lists under `hazards` each place where this can go wrong, with its
line and the properties that cover it.

## 2. The modules

```
             PlanService                          abstract: what a plan is
                  ^ implements
ModuleGraph -- Planner --- MCPlanner              GraphProofs, PlannerProofs
     |            `------- Repository --- MCRepository
     |                        |                   RepositoryProofs
     |  ModuleFiles ----------+
     |       `------------------ Accounts --- MCAccounts
     |                                            AccountsProofs
     `------ Orchestrator --- MCOrchestrator      OrchestratorProofs
                  v implements
               Ledger                             abstract: what marks promise

Ceph --- MCCeph                                   CephProofs
  v implements
Cluster                                           abstract: what ceph's users rely on

Storage --.
           >-- Compute --- MCCompute              ComputeProofs
VirtType --'
Network                                           NetworkProofs
```

**ModuleGraph** - no state.  What a declaration is, the graph it stands for
(`RequiredOf`, `OptionalOf`, `NodesOf`), and three definitions independent of the code's
loops: `Doomed` (the least set of modules filtering must remove), `PlanFor` (a reference
planner: again and again the first by name, as a recursive function) and `SoundPlan` (what setup
relies on).

**Planner** - `get_execution_order`, one state machine: `AddModule` is a turn of
`build_dependency_graph`'s loop, `Scan` one node of one pass of `filter_graph`,
`ScanAgain`/`EndFilter` the end of a pass, `Emit` one node of networkx's lexicographical
topological sort, `StartPath`, `ReturnAll`, `ReturnPath`, `TargetNotFound` the ends of
`get_execution_order`.  The order in which a set's new nodes enter the graph is any order
(`SetToSeqs`).  An exception is a terminal state.

**PlanService** - what the planner promises, in one step: `Answer`, with a sound order of
exactly the modules that survive (with a target, those of them up to it), or `Refuse`, only when
the graph is cyclic or the target did not survive.  `Planner` implements it with the whole
computation hidden in `status` and `answer` (`ImplementsPlanService`).

**ModuleFiles** - no state.  What the twelve module files declare (`DependenciesOf`,
`NovaOptional`), for the two modules that need it: `Repository` plans with it, and `Accounts` runs
the setups of plans that follow it.

**Repository** - the declarations of `ModuleFiles` as constants of `Planner`, with any of the
packages installed, and `Uses`: the services the code of each `setup()` and `configure_tempest()` calls.

**Orchestrator** - `setup` and `test` as processes over the disk.  `db` (what dpkg
has), `marks` and the history `returned` survive a process; the rest is the process:
its package cache, plan, position and `pc`.  `Plan` is one call of
`get_execution_order`, the function `PlanOf`, of which only `Returnable` is assumed: its plans are
sound and have their target in them, which is proved of the planner.  `SetupRaises` is any command of a module's
`setup()` failing, `Exit` the end of the process, on its own or by a kill at any
point, `ChangePackages` apt working underneath.

**Ledger** - what the commands promise about the marks: they only grow, one at a time, each
on top of those it requires; a setup that succeeds has marked its target; test only configures
what is marked.  `Orchestrator` implements it, with the plan, the cache and the position
hidden and its twelve program points mapped to an outcome (`ImplementsLedger`).

**Ceph** - `setup()` of the cluster, one action per command that changes
something, over the files it leaves.  `Stop` is a command that raised, or a kill; `Reboot`
detaches the loop devices, takes the osds down and leaves the files and the mark; `RollBack` is
`ceph-volume` giving an osd id back when it fails before the device is labelled.  Each process
asks for the machine's address again (`MyIp`) and rewrites ceph.conf; the monitor's map keeps the
address it was made with.

**Cluster** - what ceph promises its users: it is made once and keeps what it holds (only ids no device
bears are taken back); an osd serves the device of its own number.  `Ceph` implements it (`ImplementsCluster`), with the store's fsid for the cluster's.

**Storage** - cinder's use of the cluster and the first half of nova's `setup()`, at the grain
of `Ceph`: `ensure_pool`, `ensure_authenticate`, `rbd_uuid`, the two configurations and
`ensure_libvirt_ceph_secret`, cinder's before nova's as in a plan.  It has no specification of its own:
**Compute** extends it by the rest of nova's `setup()` - `virt_type` (the operators of
**VirtType**), databases and cells, the restarts, the fifteen seconds and `discover_hosts`.
nova-compute is an actor: `Registers` happens once it runs and has all it needs, at any time later.

**Accounts** - what each service's `setup()` makes in mysql, rabbitmq and keystone, for the
services of a plan in order, plans being those that follow the declarations
(`PlansInOrder`).  A setup is data: the sequence of the `ensure_` functions it calls and
what each is called with (`Setup`).  There is one action per function, its look at what is
there (`EnsureDbUser`, `ListEndpoints`, ...), which leaves in `todo` the positions of the statements it
is going to make; `Make` is one statement or call taking effect, in their order, so that
a run can be cut short between any two of them.  `Needs` is what a statement fails without.
`catalog` is what the shared connection `o7k` knows.  `load_module` executes each
module file a second time, so keystone's own `setup()` has another copy of that cache than the
services, which import keystone.

**Network** - ovn's `setup()`, the end of neutron's, and heat's `configure_tempest()`,
in the two commands that run them.  `up` is neutron-server, an actor of its own: `RestartServer`
takes it down, `ServerChanges` brings it up or down at any time, between any two
calls; `Reboot` takes the bridge's address and the iptables rule.  `Refused` is a turn of the retry loop that ends in `continue`; the
`ensure_` functions that look up and then create are one action each, as nobody
else makes or deletes networks, and `ensure_subnet_router`, which relates several calls,
is five.

The **MC** modules hold the instances.  An operator marked "Mutant" in a comment
is a plausible mistake in the definition that follows it; it is used by no
specification, and `PROJECT.json` pairs each property with one that breaks it.

## 3. The runs

| configuration | module | what it asks |
|---|---|---|
| `Planner` | MCPlanner | Which modules survive and in what order, with and without a target. `TypeOK`, `FilterExact`, `PlanSound`, `TargetIsProjection`, `Deterministic`, `ImplementsPlanService`, `Termination` |
| `Repository` | MCRepository | The repository's own modules with packages missing. `ServicesPlannedFirst`, `NeverCircular`, `OptionalNeverBlocks` |
| `Orchestrator` | MCOrchestrator | Any sequence of commands with failures, kills and package changes. `TypeOK`, `MarksClosed`, `SetupAfterDependencies`, `IntegrationBacked`, `ConfiguredBacked`, `FailureSurfaces`, `SuccessIsComplete`, `ImplementsLedger`, `CommandEnds` |
| `OrchestratorSilenced` | MCOrchestrator | A discarded error of `tempest run` surfaces later: **violated**, see below |
| `Ceph` | MCCeph | Any number of cut short runs of ceph's setup, and reboots. `TypeOK`, `FsidAgreement`, `StoreHasAllKeys`, `OsdOnOwnDevice`, `MarkedHasMonitor`, `ImplementsCluster` |
| `CephMarked` | MCCeph | A marked ceph serves: **violated**, see below |
| `Compute` | MCCompute | Any number of cut short runs of cinder's and nova's, the host registering at any time. `TypeOK`, `KeysAgree`, `NovaCanAttach`, `KnownHostMapped`, `MarkedHostRegisters`, `RerunsMapHost` |
| `ComputePower` | MCCompute | A POWER machine with a `/dev/kvm` gets kvm: **violated**, see below |
| `StorageMarked` | MCCompute | A marked cinder can connect: **violated**, see below |
| `Accounts` | MCAccounts | Any number of cut short setups, of the whole plan or of a target's. `TypeOK`, `MarkedAccountIsWhole`, `RegisteredOnce`, `CatalogCurrent`, `OnlyHalfMadeUsersBlock` |
| `Network` | Network | Any number of cut short commands and reboots while neutron-server comes and goes. `TypeOK`, `TempestPath`, `MissingOnlyAfterRefusals`, `RetriesEnd` |
| `NetworkMarked` | Network | A marked neutron has its public network: **violated**, see below |

Bounds, and why they are enough:

* `Planner`: two families of declarations.  `FilterDeclarations`: three modules and utils, every
  pair unrelated, required or optional.  Three make a chain that takes several passes, a
  cycle with a tail, and a node that is scanned before the one that dooms it.  One edge may
  be declared both ways.  `OrderDeclarations`: four modules with every graph of required edges out
  of three of them, so that utils is also a dependency in the middle of the order and
  has to be moved.  Targets: none, utils, a module, an unknown name.
* `Repository`: `MaxMissing == 3` of twelve modules not installed.  Every
  dependency path from a module to ceph or cinder, the only optional ones, is doomed
  by one missing module; three allow any two further ones with them.
* `Orchestrator`: six modules (the storage stack, nova with its optional
  dependencies on it, heat, utils) and four package sets; no bound on the number of
  commands, because no variable counts.  The proofs cover any set of modules.
* `Ceph`: the code's three devices; four uuids suffice because only three places
  hold one (`conf`, the map, the store) and a new one differs from all.  uuids are symmetric.
* `Compute`: three uuids and three keys, for the same reason; three machines, one for each
  way `virt_type` can go: hardware virtualization with a `/dev/kvm`, without one, and POWER, which lscpu
  describes by its architecture alone.
* `Accounts`: the whole repository's plan and the plan of target neutron, so that a run can find what
  a run of another plan left; every `ensure_` function is called, by each of its callers.
* `Network`: the code's ten attempts.

Fairness.  `Planner` has `WF(Next)`, `Orchestrator` `WF(Step)` and `Network` `WF(Run)`: one sequential
process, which takes its next step unless it is killed.  A command it runs returns or
raises; one that hangs for ever is outside the model, as it is outside
the code, which sets no time limits.  `Compute` has `WF(Registers)` alone: systemd keeps
nova-compute running, and it tries again until it can record its host; nothing makes anyone run
setup, which is why `RerunsMapHost` supposes completed setups and idle times without end.
`Exit`, `ChangePackages` and `Reboot` have no fairness: nobody need kill a process, touch a
package or reboot, and neutron-server need never come up (`ServerChanges`).  `Ceph` and `Accounts` only
promise safety and state no fairness; their processes may stop anywhere.
Deadlock is checked in every run: a step that fails in the code is an action
whose guard is false, and `Stop` is then the exception that ends the process.

### Where the code and its words part

* `SilencedErrorSurfaces`.  `__main__.py:133` discards an error of `tempest run` with the
  words "silence to fail on the next command".  The next command, `stestr failing
  --list`, fails when failing tests are on record.  A `tempest run` that breaks down
  before it records one ends in a successful `test`.
* `MarkedIsDone` (Ceph).  `exists_cache` around `setup_osd` looks for the file that
  `dd` creates first.  A run that fails after `dd` leaves it, the next run passes the
  device over and marks ceph, whose osd was never activated; the same file hides a reboot,
  after which nothing attaches the device again.  `core/utils.py:174`
  and `:182` call a mark a task done.
* `CinderCanConnect` (Compute).  `ensure_authenticate` returns when the keyring file
  exists, but the file is made before `ceph auth import`.  A run cut short between
  the two is followed by one that marks a cinder whose key the cluster does not know (and one cut
  short before `chown`, by one that marks a cinder that cannot read its keyring).
* `MarkedHasPublicNetwork` (Network).  The loop under the comment "wait for neutron-server to accept
  http connections" (`neutron.py:114`) has no `else`: ten refusals end it without an error,
  neutron is marked, and the test command later takes the id of a network that is `None`.
* `KvmOnPower` (Compute).  `_is_hw_virt_supported` compares lscpu's architecture, which
  it has split into a list, with the strings "ppc64" and "ppc64le" (`nova.py:223`), under the comment
  "assume nested support on ppc64 LE or BE": no list equals a string, and such a machine is
  configured for qemu.

Seen in the models, though no line of the repository says otherwise:

* A run that died between `create_port` and `add_interface_to_router` leaves a port
  without a device; every later `configure_tempest` finds it, asks neutron to remove it from router `''`
  (`neutron.py:223`) and fails.  `TempestPath` holds, as it never succeeds.
* mysql's user is made by two statements, for two hosts, and looked for by name alone.  A run that dies
  between them leaves one that no rerun completes, and `grant_user` fails in all of them.
  `OnlyHalfMadeUsersBlock` says that this is the only such case among all that the setups make.

What holds next to these is as telling: `NovaCanAttach` holds all the same, since
`ceph auth get-key` fails for an unknown name and nova is then never marked, and
`MarkedHasMonitor` because `ceph-mon --mkfs` runs as a user that cannot read a keyring
left to root.

## 4. The proofs

**GraphProofs**, about the definitions of `ModuleGraph`, for every finite set of modules and every
declaration: the lemmas the next three rest on, and `PlanForSound` (the reference planner's
orders are sound, have their target in them, and without one all that survives).

* `DoomedClosed`, `Survivors` and `PathClosed`: the least sets, and what leads up to a target, are
  closed as the code's loops leave them.
* A sequence is *greedy* over a set when each of its modules is the first by name of those that were
  ready (`GreedyPrefix`).  `GreedyIsReference`: there is one greedy order of a set, the reference's.
* `GreedyProjection`: a greedy sort of all that survives, and one of a part that is closed under
  predecessors, put no two modules of the part in different orders.  At the first module the second one
  emits out of turn, the first one had some other module of the part ready with a lesser name, which
  was ready in the second one as well.  `PlansAgree` adds the removal of utils.
* `ReferenceOrder` is recursive, and the library's induction theorems take an operator.
  `SetInduction` states induction for a *set* of naturals instead, and is proved from cardinalities: were n
  left out, adding 1 would map the members up to n one to one to those that are not 0.

**PlannerProofs**, for every finite set of modules, every declaration over it
(cyclic ones included), every rank of names and every target.

* `TypeCorrect`, `FilteringExact` (`Spec => []FilterExact`), `PlansSound`
  (`Spec => []PlanSound`).
* They rest on `PlannerInvariant`, the inductive `IInv`: `TypeOK`; `BuildInv` (the
  nodes and edges so far are those of the modules added so far); `FilterInv`;
  `SortInv` (what has been emitted is closed under predecessors in
  order); `PlanSound`.
* Why it is needed: `FilterExact` says nothing while the scan runs.  `FilterInv` has
  both halves: what has been removed is in every closed set, hence in `Doomed`, and the
  part of a pass that changed nothing has found nothing to remove.  `QuietPass`
  concludes that after a pass without change `removed` is itself closed, and as
  the least closed set is inside every closed set, equal to `Doomed`.
* `PlansSound` follows from `SortInv` at the end of the sort: `PathClosed` for the second sort,
  `SoundFromSorted` for moving utils to the front, on lemmas about `RemoveAt` and `Append`.
* `ServiceImplemented` (`Spec => ImplementsPlanService`).  `ScopeInv` says what is being sorted: all
  that survives, or, in the second sort, what of it leads up to the target.  With it the steps that end in
  an order answer with exactly the modules wanted, those that end in an exception have a cycle or a target
  that did not survive, and all others are stutters.
* `ResultDeterministic` (`Spec => []Deterministic`) and `TargetsProject`
  (`Spec => []TargetIsProjection`).  What they add to the invariant is that the order so far is greedy
  (`Emit` takes the first of those that are ready), and that `full` is the whole of it.  Which order
  the hash puts the edges in is then no matter: the graph they make is the declaration's, and there is one
  greedy order over it.

**RepositoryProofs**, for the twelve modules, every set of installed packages (not three missing, as
in the run) and every target: `RepositoryNeverCircular`, `RepositoryServicesFirst`,
`RepositoryOptionalNeverBlocks`.  `PlansFollowFiles` and `ProbesAsDeclared` are what two other modules
assume of plans and declarations (`PlansInOrder`, `ProbesAssumption`).

* `NothingCircular`: the layers of the declarations (what depends on nothing, keystone on mysql, and so
  on up to heat) leave no part of the graph in which every module has a predecessor.
* `UsesDeclared`: what a setup calls is a dependency that survives whenever the setup's module does.
  For nova's ceph and cinder, which it asks apt for, this is `StorageSurvives`: all that cinder requires
  but ceph nova requires as well.  The rest is `PlansSound`.
* `NovaSurvives` and `StorageSurvives` are two uses of `Survivors`: modules that are installed, not reached
  by optional edges only, and require only each other or what survives anyway, all survive.

**OrchestratorProofs**, for every set of modules, dependencies, package sets and
every planner whose plans are sound.

* `OrchestratorTypes`, `MarksAlwaysClosed`, `SetupsInOrder`, `ConfiguresBacked`.
* They rest on `OrchestratorInvariant`: `TypeOK`, `PlanInv` (the plan at hand
  came from a sound planner), `ProgressInv` (everything with a `setup()` behind the
  position has returned in this process and is marked), `HistoryInv` (a mark is only left
  by a `setup()` that returned) and `MarksClosed`.
* The step that matters is `Mark`: the module's required dependencies are earlier in the plan
  (`DependenciesEarlier`, from `SoundPlan`), hence marked (`DependenciesDone`).
* `IntegrationsBacked` adds `CacheInv`: the plan at hand is sound for the packages in the process's
  cache.  What `Probe` finds in that cache survived filtering, as it and all it requires were seen
  installed, hence is earlier in the plan (`ProbesEarlier`), hence set up.  This is where the
  cache matters: read anew, the packages need not be those of the plan.
* `PlannerReturnable`: `PlanFor` returns what `PlanAssumption` asks, for every declaration.  As
  `get_execution_order` returns what `PlanFor` does (`ResultDeterministic`), the assumption is true of the code's planner.
* `FailuresSurface` and `SuccessesComplete` add `OutcomeInv`: on every path to `"ok"` nothing has
  been raised and no failing test is on record (the discarded error of `tempest run` is not counted, see
  `SilencedErrorSurfaces`), and a plan that was made has its target in it.
* `LedgerImplemented` (`Spec => ImplementsLedger`): every step of the commands is a step of the
  ledger or leaves it alone, by `MarksClosed`, `ProgressInv` and `OutcomeInv`.

**CephProofs**, for every number of osds and every set of uuids.

* `CephTypes`, `OneFsid`, `StoreIsWhole`, `OsdsOnTheirDevices`, `MarkedCephHasMonitor`.
* They rest on `CephInvariant`, one part per thing that has to survive a cut: `FsidInv` (the fsid at
  hand is the file's, then the configuration's; the file is not written any more once there
  is a map), `KeyInv` (keyrings are imported in order, all before mkfs), `MonInv` (what each file
  next to the monitor's stands for) and `OsdInv`.
* `OsdInv` is why an osd never gets another's device although `ceph osd new` hands out ids in
  sequence, takes some back and a rerun passes over devices.  The device files are a prefix of all devices (`Prefix`), no more
  ids are in use than there are files, so that an id is never greater than its
  device's number, and `raw activate` with a device's own number finds that device or none.
* `ClusterImplemented` (`Spec => ImplementsCluster`) from the same invariant.

**ComputeProofs**, for every set of uuids, keys and machines: `ComputeTypesHold`, `OneKey`,
`MarkedNovaAttaches`, `KnownHostsMapped`.  `UuidInv` follows the uuid from the file into the two
configurations, `SecretInv` says where a secret with a value has to be there (it is what the
step `SetSecretValue`, which needs the key, buys for the mark), `HostInv` that the cell precedes the
discovery of the host.

**NetworkProofs**, for every number of attempts: `NetworkTypes`, `PathComplete`,
`OnlyRefusalsForgiven`.  `TenantInv` is the path from heat's side: each part is there once its step is behind,
and stays; a port is only made where there is none, so a rerun does not detach an attached one.
`BridgeInv` is ovn's side since the last boot, `PublicInv` the loop's.

**AccountsProofs**, for every set of plans over the nine services that follow the declarations: `AccountTypes`,
`MarkedAccountsWhole`, `NothingTwice`, `ConnectionsCurrent`, `HalfMadeUsersOnly`.

* What the setups' sequences have in common is proved of each of them (`SetupsGood`): a user of
  mysql is followed by its grants, neutron's call back has its endpoints before it, and what a call's
  statements need is made by an earlier call of the setup, by keystone's or by rabbitmq's.
  Setups are put together of pieces (`MysqlService`, `ServiceAccount`, ...), and `PieceConcat` carries this through `\o`.
* `WorkInv`: a call that is behind has made what it promises - but for mysql's users, of whom the
  look that finds one on any host proves nothing; the grants behind them do, as each needs its user
  (`SetupBehind`).  `OnceInv`: what keystone would make twice was missing when it was looked for, and
  still is.  `CatalogInv`: an open connection knows all endpoints there are, except inside
  `ensure_endpoint`, which drops it.
* `HalfMadeUsersOnly` needs `RestInv`: what is behind in *this* process - the whole setups earlier in the
  plan, which holds keystone's and rabbitmq's by `PlansInOrder`, and the calls before this one - is there, a
  user of mysql on localhost at least.  `CallRests` finds in it what a call's statements need; what is left
  to fail is a grant for the other host.  That nothing is asked to be made that is there already is `OnceInv`.

Assumed, and evaluated by TLC on each instance:

* `ModulesFinite`, `RankAssumption` (names are distinct), `UtilsAssumption`, `NoTargetAssumption`,
  `DeclarationsAssumption`, `OrchestratorAssumption`: types.
* `RepositoryAssumption`: the twelve modules, and declarations that are those of their files.
* `PlanAssumption`: what the commands rely on of a planner, proved of `PlanFor` (`PlannerReturnable`).
* `ProbesAssumption`: a module's `setup()` asks apt only for modules its file declares, which require
  nothing that it, or what it asks for, does not require or include.  It is so for the only one that asks,
  nova (`nova.py:125`): ceph and cinder are its `OPTIONAL_DEPENDENCIES`, and cinder requires ceph,
  keystone, mysql and rabbitmq, of which nova requires the last three (`ProbesAsDeclared`).
* `UtilsHasNoDependencies`: `modules/utils.py` declares none.
* `CephAssumption` and `StorageAssumption` (the values that stand for "no such file" and "empty" are not
  uuids, keys, devices or contents), `NetworkAssumption` (there is an attempt).
* `PlansAssumption` (a plan is a sequence of services and not empty) and `PlansInOrder` (each comes after
  what its file declares it depends on, as in every plan of the planner by `PlansFollowFiles`).

Only model-checked: the liveness properties (`Termination`, `MarkedHostRegisters`, `RerunsMapHost` and
`CommandEnds` of `Orchestrator`, `RetriesEnd` of `Network`), which are out of the prover's reach as they need fairness
and ENABLED.  Every other property of a passing run - each invariant, and the three refinements, which state
no fairness on the abstract side - is a theorem.

## 5. Abstractions

Taken from how the code uses them, as their source is not here:

* `ceph-volume` obtains the lowest free osd id; when `raw prepare` fails before the device is labelled it
  gives that id back, unless it is killed or the monitor does not answer; `raw activate --osd-id` works on
  the device labelled with that id and fails when there is none.
* `ceph-mon --mkfs` leaves an existing store alone; `ceph-authtool` makes its file readable
  by root only; `monmaptool` and `virsh` refuse an empty uuid; `ln -s` refuses to replace a link.
* mysql grants nothing to a user that does not exist.
* `stestr failing --list` succeeds when no failure is on record, and `tempest init` makes
  a new record for each test command.
* A connection's catalog is that of its first call.
* neutron answers a request about a router without an id with an error; a router may be given
  an external network that has no subnet yet.
* pyroute2 commits an interface's address and state together.
* keystone refuses a second domain, project, role or user of a name, and accepts a second
  service or endpoint; mysql and rabbitmq refuse what is there already.
* Loop devices, an address set by hand and an iptables rule do not survive a reboot; whether the ceph daemons
  come back depends on their units (`Reboot` of `Ceph` allows both).
* nova-compute reaches the main database by way of nova-conductor; `discover_hosts` maps the hosts
  recorded in the mapped cells.

Left out of what is modelled: how often the iptables rule is there (`ovn.py` appends it again when
its lookup fails for another reason than its absence); wording, logs and the text of the test list (the smoke list
is not filtered by the modules' exclude expressions in the code, and so not a
matter of the model either); `losetup`, `wipefs` and `sgdisk`, taken with
`ceph-volume prepare`; whether a started manager stays up; the options of the services' own
configuration files but those two components share or a property is about, which are written the
same in every run; keystone's cached ids, of things nobody deletes.  In `Storage` and `Compute` the
packages of ceph and cinder are installed throughout; `Orchestrator` has them come and go.

Not modelled: logging and banners (output only), `utils.fqdn`, `utils.machine` and `utils.release` (they
read constants of the machine), `ceph.create_keyring` (nobody calls it), `debian/` and `tests/`.

## 6. Plan

Done: every component that keeps state is modelled; the planner, the commands and ceph
against abstract specifications of what they promise; every safety
property that a passing run checks is proved for every value of the constants.

Left: the assumptions one component makes of another (`PlanAssumption`, `ProbesAssumption`, `PlansInOrder`)
are each proved of the component that owes them (`PlannerReturnable`, `ProbesAsDeclared`, `PlansFollowFiles`).
One specification that runs the commands over the repository's own declarations, and lets each module's
`setup()` be the steps of its own model, would make one theorem of them; its state space is out of TLC's reach.
