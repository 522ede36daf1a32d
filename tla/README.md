# deepOrc: a TLA+ model of the orchestrator

deepOrc provisions WireGuard-to-Tailscale gateways: small VMs on Incus workers
that the control plane (a FastAPI process over SQLite) creates, configures
through an agent in each VM, watches and deletes. This directory holds TLA+
modules translated from that code, TLC configurations that check them on small
instances, and TLAPS proofs of what holds for every instance.

Paths below are relative to the repository root.

## 1. Inventory

| Part | State | Operations | Talks to |
|---|---|---|---|
| Gateway lifecycle (`orchestrator/workers/provisioning.py`, `deletion.py`, `services/gateway_service.py`, `repositories/gateway_repo.py`, `job_repo.py`, `incus/vm.py`) | tables `gateways` and `jobs`; two in-memory `_active` sets; one daemon thread per gateway and kind; the VM | create, retry, delete requests; provisioning and deletion threads; recovery sweep | Incus, Headscale, the agent, resource pools, backhaul peers |
| Backhaul peers (`services/peer_service.py`, `repositories/peer_repo.py`, `gateway_agent/wg_handler.py`, `nft_handler.py`, the routing scripts of the VM) | table `peers`; WireGuard peers, nft drop rules and `exit.env` in the VM | create, suspend, resume, regenerate keys, delete, resync after a reboot and by the metrics collector | gateway agent, resource pools |
| Resource pools (`incus/network.py`, `wg/ipam.py`, `lan/ipam.py`, `services/peer_group_service.py`) | `ip_allocations`, `port_allocations`, the LAN address of each gateway of a peer group | allocate by reading what is used and taking the first free; release | called by creation, deletion, peers |
| Worker enrollment (`services/worker_service.py`, `repositories/worker_enrollment_repo.py`, `worker_repo.py`) | `worker_enrollments`, `workers` | create a token, complete it, expire it, add, edit, delete a worker | the installer on the worker, Incus, Headscale |
| Device registration (`web/register_routes.py`, `repositories/registration_request_repo.py`) | `registration_requests` | begin, poll, approve, reject, expire | Headscale, the operator |
| Metrics and egress (`workers/metrics_collector.py`, `egress_metrics.py`) | `gateway_metrics`, the last egress address and its age | the collection job, the look-up of one egress | gateway agent, a geo service |
| Headscale client, naming (`headscale/client.py`, `workers/headscale_sync.py`, `naming.py`) | none of its own: Headscale's nodes | deduplicate nodes, approve routes, next sequential name | Headscale |
| Agent routing (`gateway_agent/tailscale_handler.py`, `cmd/gateway-agent/main.go`) | `ip rule`s, routes, `exit.env` of the VM | advertise, run exit, restore at boot | the kernel |
| Web console (`web/routes.py`, `views.py`) | none | the HTTP entry points of all of the above | |
| Configuration, templates, scripts | none | rendering | |

The control plane is one process. HTTP handlers run in FastAPI's thread pool;
provisioning and deletion run in daemon threads that the handlers or the sweep
start; the sweep, the metrics collector and the Headscale synchronisation are
interval jobs of one scheduler. They share the SQLite file, each with a session
of its own, and the `_active` sets under a lock. Everything in memory is lost
when the process dies, and the sweep at start-up is what brings interrupted work
back.

What is hard in this code, and hardly reached by a test:

* a thread decides on a row it read before minutes of external calls, and writes
  its verdict without reading the row again;
* the row ids SQLite gives out are one more than the largest, so a row deleted
  under a thread may come back as another row;
* the sweep acts on a list it read, and its rules for resuming must agree with
  every state a thread, a crash or a lock can leave behind;
* the failure paths (an exhausted lock inside a `try`, a swallowed exception)
  leave combinations of gateway and job status nobody wrote down;
* free addresses, ports and names are chosen by reading and inserted later.

`PROJECT.json` lists each hazard with its line, and the properties that would
catch it going wrong.

## 2. Plan

| # | Module | Subject | State |
|---|---|---|---|
| 1 | `GatewayLifecycle` | gateways, jobs, threads, requests, sweep, crash | done |
| | `GatewayLifecycle_proofs` | its safety invariants, for every instance | four theorems |
| 2 | `GatewayPromise` | what an operator is promised of a gateway; `GatewayLifecycle` implements it | done |
| | `GatewayPromise_proofs` | what the sweep counts on, and that every step keeps the promise | three theorems |
| 3 | `BackhaulPeers` | peers table against the agent's WireGuard and nft state | done, one gateway |
| | `BackhaulPeers_proofs` | its types, unique addresses, no key of a row lost | three theorems |
| 4 | `WorkerEnrollment` | tokens, completion, remotes, heartbeats, placement | done |
| | `WorkerEnrollment_proofs` | its types, one worker per enrollment, placement, remotes and offers | five theorems |
| 5 | `ResourcePools` | names, addresses, ports, peer groups | done |
| | `ResourcePools_proofs` | its types, unshared endpoints, LAN addresses | four theorems |
| 6 | `Tailnet` | Headscale nodes against gateways and registration requests | done |
| | `Tailnet_proofs` | its types, whose nodes are found, approved, shown and deleted | seven theorems |
| 7 | `AgentRouting` | rules and routes inside a VM, and all who write them | done |
| | `AgentRouting_proofs` | its types, no leak, nothing left out, advertised when READY | four theorems |
| 8 | `EgressMetrics` | the collector's poll and the egress address shown | done |
| | `EgressMetrics_proofs` | its types, the address kept, its own and measured again | four theorems |

Nearly every safety property of the runs is also a theorem; section 5 gives the
conditions of those that have some, and names the three that are model-checked only.

The modules are not composed into one: they share little state. What one assumes
of another is a set of choices in it: `GatewayLifecycle` lets any external call of
a thread fail, `BackhaulPeers` takes the lock time of the collector as a step,
`ResourcePools` and `Tailnet` each see a creation and a deletion as the commits
that touch their own tables.

## 3. The modules

### `GatewayLifecycle`

State:

| Variable | In the code |
|---|---|
| `gateway` | table `gateways`: status and name by row id (`absent`: no row) |
| `job` | table `jobs`: type, gateway, status, and whether `updated_at` is ten minutes old (`stale`) |
| `vm` | names of the instances on the worker |
| `active` | the `_active` sets of `provisioning.py` and `deletion.py` |
| `thread` | the background threads: kind, place in the code, gateway and job id, name of the VM |
| `request` | HTTP handlers between what they read and what they commit |
| `sweep` | the recovery sweep and the statuses its `list_all()` read |
| `created`, `faults` | counters that bound the model |

Actions, one per stretch of code between a commit and the next external call:

* provisioning thread: `ProvisionSkip`, `ProvisionQueue`, `ProvisionPrepare`
  (`_run_gateway_provisioning_once`), `ProvisionProcess`, `ProvisionStatus`,
  `ProvisionLaunch`, `ProvisionLaunchFails`, `ProvisionTimeout`,
  `ProvisionHealthy`, `ProvisionRegisterFails`, `ProvisionFinalizeFails`,
  `ProvisionReady` (`provision_gateway`), `ProvisionComplete`, `ProvisionFail`
  (`process_provisioning_job`), `ThreadExit` (the `finally`);
* deletion thread: `DeleteGone`, `DeleteSkip`, `DeleteTake`, `DeleteProcess`,
  `DeleteExecute`, `DeleteExecuteFails`, `DeleteRemove`, `DeleteFail`;
* requests: `CreateGateway`; `DeleteRead`, then `DeleteJoin`, `DeleteCommit` or
  `DeleteStale`; `RetryRead`, `RetryPrepare`, `RetryPick`;
* sweep: `SweepBegin`, `SweepProvision`, `SweepTurn`, `SweepDelete`, `SweepSkip`,
  `SweepRaises`, `SweepEnd`;
* `ThreadLocked` (a "database is locked" that outlasts the busy timeout), `Age`
  (ten minutes without an update), `Crash`.

Choices that a reader of the code should know:

* Where a handler decides on values read earlier, the step that reads them keeps
  them and the step that writes does not look again. That is what the ORM does:
  the session's copy of a row is refreshed after a commit only, and the UPDATE
  names the primary key. An UPDATE of a vanished row raises.
* `NextId` gives ids back. The models declare `autoincrement=True`, which SQLAlchemy
  does not turn into SQLite's `AUTOINCREMENT` unless asked.
* `_run_*_once` reads and decides in one step: it makes no external call, and a
  write of somebody else in that window leads to the same results as one before
  or after it. The commits of `set_provision_stage` appear as `Touched`: what
  they change that matters is `updated_at`.
* A request's commit and the `start_*` that follows are one step. The thread
  starts in `once` and reads the rows for itself, so the order of these two is
  not visible to it.
* A flush that fails inside the `try` of `process_provisioning_job` leaves the
  session unusable; the `except` branch reads `gateway.name` from it first and
  raises. The thread ends with nothing recorded. `process_deletion_job` rolls
  back first and does record.
* A "database is locked" in the `except` branch of `process_*_job` leaves it, and
  `run_gateway_*` catches it as any other outside the `try`: the thread starts over
  (`LockedPc`), with the gateway as the branch found it. The retries are as many as
  `MaxFaults` allows.
* An operator asks for a deletion or a retry in the statuses `DeleteFrom` and
  `RetryFrom`. The console always shows the delete button, and shows the retry
  button for status `error`; the routes accept both in any status.

`GatewayLifecycle_proofs` holds the proofs (section 5), `MCGatewayLifecycle` the
symmetry set of the TLC runs and the refinement mapping.

### `GatewayPromise`

The abstract specification of the above: a status per gateway and the set of
gateways that have a VM (`served`), with `Create`, `Provision`, `Launch`, `Ready`,
`Fail`, `Requeue`, `RequestDelete`, `Destroy`, `Remove`, `FailDelete`. It has no
jobs, threads, sweep or crash. `MCGatewayLifecycle` maps `status` to the column of
the row and `served` to the rows whose name is an instance on the worker, and run
`lifecycle_recovery` checks `PromiseKept`, that is that every behaviour of the
detailed module is one of these steps or a stutter, and that whatever is pending,
provisioning or deleting does not stay so. The first half is proved for every instance
(`KeepsPromise`, section 5).

What it leaves open is what the code leaves open: an earlier instance of the same
name may still be there when a gateway is created (`launch_gateway_vm` takes it
over), and a gateway that has just failed may be provisioned again without a
detour over PENDING, when the sweep revives it.

### `BackhaulPeers`

One gateway that stays READY, its peers in the database and its VM.

| Variable | In the code |
|---|---|
| `peer` | table `peers`: key, address and suspension by row id |
| `allocated` | `ip_allocations` of this gateway's id |
| `ops` | which operations the orchestrator is asked for, and whether the collector runs; chosen at the start among `OpSets` and never changed |
| `wg`, `route` | the WireGuard peers of the VM, oldest first, and the one that has `0.0.0.0/0` (the kernel gives an allowed-ips range to the peer that claimed it last) |
| `dropped` | addresses with a drop rule in the nft suspend table |
| `uplink` | `UPLINK_PEER` in the VM's `exit.env` |
| `script` | the runs of the VM's routing script: `UPLINK_PEER` as each has read it, and the listed peers it still has to set |
| `request` | what each request, and the collector, has read and does next |
| `lock` | holder of SQLite's write lock |
| `failed` | a step of some request has failed; a history variable of the properties |
| `generated`, `faults`, `reboots` | counters that bound the model |

Actions: a request reads (`CreateRead`, `DeleteBegin`, `SuspendBegin`,
`ResumeBegin`, `RegenerateBegin`, `RestartBegin`), then makes one agent call or
one write per step. `AgentFails` lets any call fail before or after its effect;
`AgentRefuses` is the error of the agent's router for a key with a slash;
`LockTimeout` is "database is locked"; `UplinkSkipped` is the silent return of
`_set_gateway_uplink_peer`. The collector (`CollectBegin` to `CollectCommit`) is a
handler of its own. `ScriptStart` is the VM's daemon, or any other hook, that runs the
routing script, and `ScriptCheck`, `ScriptRestore`, `ScriptList` and `ScriptSet` are the
commands of its `_apply_wg_peer`, with requests between any two. A restart runs the
script too and waits for it (`RestartApply`, `RestartBoot`; `BootKilled` if the VM is
restarted under it). `RuleSkipped` is a drop rule that the Python agent failed to add, or
to find, without saying so; `Crash` is the death of the orchestrator.

Choices that a reader of the code should know:

* Only `create_peer` and the collector flush before an agent call; everything else
  writes and commits in one step at its end. That is why only those two hold the
  lock across steps. The collector may arrive at this gateway with the lock, from
  the flush for a gateway before it.
* Rows are written by primary key with values read earlier: a delete of a vanished
  row is a warning, an update of one an exception that rolls back.
* The session is rolled back on every exception, by `get_db` or by the route.
* `allocate_peer_ip` reuses an allocation with this gateway's id and no peer. In a
  running gateway there is none; `Leftover` puts some there, which a deleted
  gateway of the same row id leaves behind.
* A slashed key is a member of `Slashed`: the path is not modelled character by
  character. Rows of other gateways are not modelled, so a peer's id is always
  reused when it was the largest.
* `resume_peer_ip` matches addresses as substrings (`10.8.1.2` in `10.8.1.20`), so it
  also removes the rules of longer addresses (`Matching`). An address is its last number
  here; the prefix of a subnet and its number cannot match across.
* `wg set` of a peer that has been removed adds it again. The script does so with the
  peers it has listed, and with the `UPLINK_PEER` it has read.
* Several operations undo what another relies on (section 4). `OpSets` says which
  are asked for together, and a property says of which operations it holds.

`BackhaulPeers_proofs` holds the proofs, `MCBackhaulPeers` the symmetry set.

### `WorkerEnrollment`

| Variable | In the code |
|---|---|
| `enrollment`, `worker` | tables `worker_enrollments` and `workers` |
| `remote` | the incus remotes of the control plane: the VPS a name points to |
| `host` | per VPS: the operator and the join script that work for it, and the id and token it was given |
| `request` | completions in flight (`POST /workers/enroll/complete`) |
| `up` | whether the control plane runs |
| `placed` | workers that have been chosen for a gateway |
| `orderly` | operators enroll one VPS at a time, by enrollment only, and repeat nothing; never changes |
| `minted`, `faults` | counters that bound the model |

Actions: `Click` (`create_enrollment` up to Headscale), `PreauthFails`,
`WriteEnrollment`; `Post`, `PostRefused`, `RemoveRemote`, `AddRemote`,
`AddRemoteFails`, `Insert`, `InsertRefused` (`complete_enrollment`); `GiveUp` (the
script's connection breaks and it is run again); `ManualRemove`,
`ManualAdd`, `ManualAddFails`, `RegisterWorker` (`register-worker-on-cp.sh`, which removes
the remote, adds it, which may fail, and posts); `Heartbeat`, `Quiet`, `Place`
(`resolve_worker_for_gateway`); `Expire`; `Boot`, `Crash`.

* `complete_enrollment` reads the row, runs minutes of incus commands and inserts;
  the session sees its first read until the commit. Only `uq workers.name` is
  checked again, by the database.
* Two rows of `worker_enrollments` made in the same second are ordered by nothing:
  `Click` offers any active one.
* `LegacyRow` is an active row from before migration 005, without its stored token:
  the only way to `refresh`.
* A VPS that has joined does not run the join script again.
* `EffectiveStatus` is computed when asked, from `last_seen_at`; the stored status
  is not used by what is modelled.

### `ResourcePools`

| Variable | In the code |
|---|---|
| `gateway`, `group` | tables `gateways` (name, worker, address, port, group, LAN address) and `peer_groups` |
| `ipAlloc`, `portAlloc` | `ip_allocations` and `port_allocations`, per worker |
| `req` | what each creation, single or batch, has read |
| `orderly` | nobody else creates in, or deletes, the group of a batch under way; never changes |
| `creates` | counter that bounds the model |

Actions: `BeginSingle`, `BeginBatch`, `PickLan`, `PickName`, `Preauth`, `Insert`,
`InsertRefused`, `NoPort` (`create_gateway` and `create_gateways_in_group`);
`CreateGroup`, `RenameGroup`, `DeleteGroup`; `RequestDelete`, `ExecuteDelete`.

* The first INSERT of a creation takes the write lock, so everything from there to
  the commit is one step; the name, the LAN address and the VM address were chosen
  before it. The three unique constraints are the conditions of `Insert`.
* The console's handler catches the `ValueError` of a creation and answers with a
  redirect; `get_db` then commits what was flushed (`ui`).
* `create_gateways` uses the group's row it read at the start for the first address
  (`PickFirstLan`); the commit of each gateway expires the row, and the next turn reads it
  again (`PickLan`), or fails if it is gone.
* A LAN is its offsets `0..LanTop`. The macvlan slot is a function of the LAN address,
  and the WireGuard subnet one of the gateway's id.

`MCResourcePools` holds the symmetry set.

### `Tailnet`

| Variable | In the code |
|---|---|
| `node` | Headscale's nodes, in its order: owner and life of the machine, name, exit route |
| `gateway` | of table `gateways`: status, `tailscale_hostname`, `exit_node_id` |
| `registration` | table `registration_requests` |
| `request` | handlers and threads between two headscale commands |
| `todo` | nodes that the periodic sync has listed and not yet approved |
| `orderly` | operators wait for one change before they ask for the next, delete READY gateways, and decide on pending requests only; never changes |
| `renames`, `faults` | counters that bound the model |

Actions: `CreateGateway`, `Join` (the VM registers with its preauth key);
`FinalizeFind`, `FinalizeRecord` (`_finalize_exit_node`); `RenameRead`,
`RenameApply`, `RenameCommit` (`rename_tailscale_display_name`); `DeleteFind`,
`DeleteNode`, `DeleteRow`; `Touch`, `JoinWithKey`, `ApproveRegister`,
`ApproveRoutes`, `ApproveList`, `ApproveRename`, `ApproveMark`, `Reject`
(`register_routes.py`); `SyncList`, `SyncApprove` (`headscale_sync.py`);
`HeadscaleFails`. `MatchExitNode` and `Unassigned` are what the dashboard reads.

* A node is known to the database by address and name only, and every search is a
  first match in Headscale's order; a node's id stands for its address here.
* A machine that joins under a taken name, a gateway's or a device's, gets one that
  Headscale makes up for it (`FreeName`: `dup` and the node's number).
* Headscale is external: it is modelled by the answers and refusals that the client
  handles.

`MCTailnet` holds the names that operators choose, one of which is a device's.

### `AgentRouting`

One VM, from its first boot. Everybody who rewrites its routing runs a list of
commands, a command per step.

| Variable | In the code |
|---|---|
| `lang`, `script` | which agent the image has, and whether it is an OpenWrt one; never change |
| `wgUp`, `tsUp`, `advertised` | wg0, the tailscale login, the preference AdvertiseExitNode |
| `rules`, `routes`, `nat` | `ip rule` by preference, default routes by table, the nft tables |
| `run` | who is applying which list, and how far: the agent's boot restore, its handlers, the daemon, `incus exec` |
| `agent`, `flow` | the agent's process; what the orchestrator does with the gateway |
| `applied` | an application ran to its end since the boot (used by properties only) |
| `calls`, `reboots`, `kills` | counters that bound the model |

Actions: `Step`, `Abort`, `Killed`; `Tick` (daemon), `AgentStart` (boot restore),
`WgUp`, `TsUp`, `Reboot`; `Advertise`, `NoAnswer`, `Fallback`, `RunExitViaWg`,
`Restart`, `PostReboot`, `PostRebootFails` (the orchestrator).

* There are two lists. The agent's own uses table 200 and two `ip rule`s; the script
  makes wg0 the main default. `Plans` spells out both command by command, as far
  as they decide where exit traffic and the gateway's replies go. Preferences that
  agree in both lists are folded into one. `Without` is `ip rule del`, which takes
  the first rule that matches; no preference ever holds the same rule twice.
* The Python agent raises at the first failing command, the script has `set -e`, the
  Go agent goes on. Before it starts, the Go agent reads the address of wg0, and takes
  the one of `wg0.conf` when the link is not there (`GoPlan`), so it goes on without it;
  the Python agent fails (`AgentPlan`).
* An agent that starts while Tailscale is not there to be asked for its preferences
  restores nothing, whatever they are (`AgentStart`).
* An error of the agent (HTTP 500) reaches the orchestrator as a RuntimeError, because
  the request goes through `wget` in the VM; so it falls back to `incus exec`, as it
  does when the connection ends (`Abort`, `NoAnswer`).
* `WgUp` is `wg-up.sh`: the init script runs it once, and the link is there from then on.

### `EgressMetrics`

One gateway id and the collector.

| Variable | In the code |
|---|---|
| `status`, `life`, `well` | the gateway with the id, which one it is, and whether its agent and links are up |
| `latest`, `egress` | what `latest_gateway_metric` and `latest_gateway_metric_with_egress` return |
| `coll` | the poll under way: what it has read and heard |
| `orderly` | the gateway is not deleted while it is polled; never changes |
| `faults` | counter that bounds the model |

Actions: `CollectBegin`, `CollectHealth`, `CollectPeers`, `CollectTailscale`,
`AgentSilent`, `CollectEgress`, `CollectCommit`, `PollLost`; `CreateGateway`,
`Provisioned`, `DeleteGateway`, `LinksChange`, `Tick`.

* The table only grows, so the two queries' answers are kept in its place; times are
  ages up to a cap past every comparison.
* `ShouldRefresh`, `Merge`, `CountryFor` and `SnapshotOf` are the four functions of
  `egress_metrics.py`, `Shown` is `_gateway_row` of the console.

## 4. The runs

All runs say `CHECK_DEADLOCK FALSE`: operators and devices act a bounded
number of times and nothing obliges them to act, so the system may stop.

| Run | Instance | Checks | Shows |
|---|---|---|---|
| `lifecycle_races` | 1 row id, 2 creations, 2 jobs, 2 threads, 1 request, every status deletable and retryable | `TypeOK`, `ActiveIsExact`, `OneThreadPerGateway`, `CreateJobExists` | no interleaving of requests, threads and sweep starts a second thread, leaks an `_active` entry or loses the create job, id reuse included |
| `lifecycle_recovery` | 1 gateway, deleted when READY or again when DELETING, 1 fault | `PendingRecoverable`, `DeletingRecoverable`, `ThreadsEnd`, `PromiseKept` | from wherever a crash or a lock leaves a creation or a deletion, the sweep brings it to its end; the whole implements `GatewayPromise` |
| `two_gateways` | 2 gateways, 3 jobs, 2 threads, 2 requests that delete what they read as READY and race as long as there is one gateway and no fault (`RacesBeforeFaults`, the cfg's CONSTRAINT), 1 fault, a sweep that may raise | `CreateJobExists`, `RacingDeletionsRecoverable` | a deletion takes only its own gateway's jobs; two requests may insert a deletion job each, and whichever thread runs, or fails under the second request, the sweep can end the deletion |
| `retry_strands_pending` | one creation, retry of ERROR | `ProvisioningEnds` | violated: a retry in the window between a thread's commit of ERROR and of its job leaves a gateway PENDING for ever |
| `peer_races` | 2 requests that create with the collector, or create, delete and regenerate, or create with restarts; 1 run of the script at a time besides theirs, 1 fault, 2 restarts, 3 keys, 2 peers and addresses | `TypeOK`, `AddressesHeld`, `PeersKnown` | racing creations never share an address: `uq_ip_worker_address` refuses the second; no race among requests and routing script loses a row's key |
| `peer_upkeep` | 1 request at a time, one of three sets of operations, 1 run of the script besides, 1 fault, 2 restarts, 3 keys of which one has a slash, 2 addresses of which one is left over | `DropsFollowRows`, `DeleteTakesEffect`, `LockReleased`, `EventuallyConnected` | suspensions and resumptions leave the drop rules as the rows say, the lock is given back on every path, and where the collector runs it mends whatever failed |
| `collector_restores_old_key` | 1 request that creates and regenerates, the collector | `EventuallyConnected` | violated: the collector brings back the key that a regeneration is revoking, and it keeps the default route |
| `enrollment` | 2 VPSes, 2 completions, 4 enrollments of which one is from before migration 005, 4 names of which one is also registered by hand, 1 fault of any kind | `TypeOK`, `UsedOnce`, `PlacedOnJoined`, `RemoteIsWorker`, `OfferUsable`, `EveryHostJoins` | an enrollment makes one worker however completions race, gateways go to workers whose VPS has the token, and every VPS joins in the end |
| `pools` | 2 workers with 3 addresses and 2 ports each, 3 gateways, 1 group on a LAN of 4 offsets, 2 requests | `NoSharedEndpoint`, `AllocatedWhileUsed`, `LanAddressesFit` | stale reads never make two gateways share an endpoint, and none is released while it is used |
| `tailnet` | 1 gateway created twice, 1 device, 3 nodes, 2 handlers, 1 rename, 1 fault | `ApprovedOnMesh`, `DeviceNeverExit`, `OwnNodeDeleted`, `ExitIsOwn`, `DashboardShowsOwn` | nodes found by name are the right ones, in the conditions named below |
| `agent_routing` | 1 handler, 2 calls, 2 applications at a time, 1 reboot or kill, every image and agent | `LeaksOnlyRewriting`, `QuietIsWhole`, `ReadyAdvertised`, `RoutingHeals` | concurrent rewriting of the rules never takes them apart for good |
| `egress` | 2 addresses, a cooldown of 2 steps, 2 gateways on the id, 1 fault | `KnownKept`, `ShownIsOwn`, `FreshAfterOutage`, `EventuallyShown` | the address shown is this gateway's, survives outages and is measured again after them |

The two violated runs have a finding each in `PROJECT.json`. `TypeOK` of
`ResourcePools`, `Tailnet`, `AgentRouting` and `EgressMetrics` says what shapes the
variables have and is where proofs about them start; no run lists it. All are proved
(section 5), and so is `FoundIsOwn` of `Tailnet`, which no run lists either.

Bounds. Two threads are one per kind on a gateway, which is all that
`OneThreadPerGateway` allows; a third slot would stay idle with one gateway. Two
creations over one row id are the least that reuse an id; three job rows are a
create job for each of two gateways and a deletion. Every counter is a guard
(`created < MaxCreates`, `faults < MaxFaults`, a free id in `GatewayId`, `JobId`).
`RacesBeforeFaults` keeps requests from racing where `RacingDeletionsRecoverable` claims
nothing: TLC goes no further from two requests in flight after a fault or beside a
second gateway; one request at a time goes through both.
Three keys let two creations and a regeneration meet; a fault anywhere in them
suffices to leave row and VM apart. Two VPSes and two completions are a race for a
name; four enrollments let a fault use one up and the others still join (two faults
would exhaust them). Two ports under three addresses make the ports run out first, a
LAN of four offsets makes the pool end at the broadcast address. Two lives of one
gateway are the least that leave a stale node behind, three nodes the least that
add a device's. Two applications at a time interleave in every way that three would
pair by pair. A cooldown of two steps lets a poll fall inside it and after it.

Fairness. `GatewayLifecycle`: weak fairness of every thread's steps and every
request's steps (the interpreter runs them), of the sweep (the scheduler calls it
every `metrics_poll_interval_seconds`) and of the clock (`Age`); none of the
operators, of `Crash` or of `ThreadLocked`. External calls return or raise, which the
clients' timeouts see to; which of the two is not assumed. One client has none: the
headscale command (`headscale/client.py:87`), whose return `ThreadsEnd` and
the liveness of `PromiseKept` take for granted. `BackhaulPeers`: weak
fairness of each request's and the collector's steps (30 s and 60 s timeouts), of
`CollectBegin`, and of the routing script, which its daemon starts every minute and which
runs to its end; not of requests arriving, or of faults.
`WorkerEnrollment`: the same of a completion's steps, of the process's restart
(systemd) and of expiry; and strong fairness of the operator's click and of the
script's post, for `EveryHostJoins` is about a VPS whose operator keeps trying.
`AgentRouting`: every application under way goes on, procd keeps the daemon going and
wg0 comes up. `EgressMetrics`: the scheduler starts the collector and a poll ends.

Where the properties stop. The instances are as wide as the code allows; a wider
one violates the property in an execution that the code has. Several modules choose
at the start whether operators are `orderly`, and then state a property of those
behaviours only: the other half is still explored for the rest.

Gateways:

* `ProvisioningEnds`, `PendingRecoverable` and `PromiseKept` need that nobody retries
  in the window of `retry_strands_pending`, and that no id is reused: a provisioning
  thread still in peer set-up when its gateway is deleted completes whatever job now
  has its job's id (`provisioning.py:79`), which may be the create job of a new gateway
  or, with more gateways, the deletion job of another one (`DeletingRecoverable`).
* `PromiseKept` needs that only READY gateways are deleted, and that no lock takes a
  thread's commit of COMPLETED. `provision_gateway` writes PROVISIONING or READY without looking at the
  status, so a deletion requested meanwhile is overwritten, and the deletion of an
  ERROR gateway races with the sweep that revives it. A sweep may hold a list in which a
  gateway that is READY by now is still ERROR; it leaves it alone because the create job is
  COMPLETED by then, and puts it back to PENDING if a lock kept the job from being so.
  Section 5 proves that no other fault matters: crashes and other locks, any number of
  them, and more gateways do no harm. The instance of the run (one gateway, one fault) is
  too small for that lock and such a list to meet.
* `DeletingRecoverable` needs what `PromiseKept` needs: the READY gateway that is put back
  to PENDING may have been on its way to a deletion, and is deleted again.
* Two delete requests may both read READY, and both insert a job
  (`gateway_service.py:476-491`); one thread runs. `RacingDeletionsRecoverable` says that the
  deletion is resumed all the same, where no fault comes and no other gateway has been
  created (a provisioning thread of one that is deleted meanwhile may complete the job that
  has got its job's id). When the thread fails between the two
  commits, the second one takes the gateway from ERROR back to DELETING, which
  `GatewayPromise` does not have: `PromiseKept` is of one request at a time. With a crash
  or a lock on top, or a deletion asked for in status ERROR, the latest deletion job may
  end as failed while the gateway is DELETING; the sweep passes over it until it is
  deleted once more.
* A deletion whose VM cannot be deleted swallows the error and removes the row: the VM
  stays.

Peers:

* `PeersKnown` is about keys being there, not about the default route. A run of the
  routing script that has listed a key before a regeneration or a deletion takes it away
  adds it again, and as the newest it keeps `0.0.0.0/0`: the row's peer has no traffic
  until the VM restarts or the peer is regenerated, for the collector looks at
  the row's keys only. `EventuallyConnected` is therefore checked where the collector runs
  and nothing takes keys away.
* `PeersKnown` needs that the VM is not restarted (a key that a creation or regeneration
  adds before the restart is in no row when the resynchronisation lists them) and that no
  call or write has failed: a deletion or regeneration that fails after it has removed the
  key leaves the row without. The collector adds both again.
* Two racing creations of a peer both succeed: `create_peer` looks for a peer before
  it takes the write lock. The repository's `README.md` calls for one peer per gateway.
* `DropsFollowRows` is checked one request at a time: a suspension and a resumption that
  overlap may write the row in one order and the VM in the other, and the resumption of
  `.2` also lifts the suspension of `.20`. Of suspended peers it needs that the VM is not restarted: the
  drop rule is lost, and `resync_gateway_peers` skips suspended peers. Of active peers it
  needs that none is deleted: a deleted suspended peer leaves its rule to whoever gets
  the address. Both need that nothing has failed, in particular that the collector does not
  keep the write lock past the busy timeout, for a suspension that has told the agent then
  cannot write its row; and `nft_handler.py:45-48` swallows a rule that nft refused.
* `DeleteTakesEffect` needs a key without a slash: the agent's router cuts the path
  there and the deletion fails.

Workers:

* A token is good once only as far as rows go (`UsedOnce`). `complete_enrollment` reads
  `used_at` before `add_worker_remote`, so a second completion replaces the incus remote
  of the first and then fails: row and remote lead to different VPSes
  (`models/worker_enrollment.py:1` says "One-time tokens"). `RemoteIsWorker` is therefore
  stated of orderly operators.
* Two enrollments made at once may have one name; the loser's row is offered to
  everybody until it expires. `OfferUsable` is stated of orderly operators,
  `EveryHostJoins` of all.

Pools:

* Racing batches of one group share a LAN address and a macvlan slot, or reach the
  broadcast address; a group deleted under a batch leaves gateways without a group.
  `LanAddressesFit` is stated where nobody interferes with a batch. Groups do not see
  each other: two on one LAN hand out the same addresses. The LAN's own gateway address
  is not left out.
* The console commits the address of a creation that found no UDP port (`NoPort`): it
  stays allocated to nobody, and nothing gives it back.
* WireGuard subnets repeat after 253 ids.

Tailnet:

* Two renames at once, or a rename that outlives its gateway, leave row and node with
  different names, and a later search by name then finds another's node:
  `ApprovedOnMesh`, `DeviceNeverExit` and `OwnNodeDeleted` are stated without such a
  race, `ExitIsOwn` and `DashboardShowsOwn` of orderly operators and a Headscale that
  answers (a node that could not be deleted answers for the next gateway of its name).
* `validate_tailscale_display_name` takes names that its docstring excludes ("not
  gw-NNN", `naming.py:42`): an operator may give a gateway the name of another.

Inside the VM:

* The agent's own rule "own to main" at preference 50 leaves the gateway's replies on
  wg0 after it overwrote the script's, until the daemon's next run: `QuietIsWhole` asks
  only for some rule, `RoutingHeals` for the right one, on images that have the daemon.
* `LeaksOnlyRewriting` and `QuietIsWhole` set kills aside (a killed script leaves what it
  had removed) and begin with the first application that had wg0 from its start.
* `wait_for_instance` asks for `ubus`, which only OpenWrt has.

Egress:

* A failed look-up stamps the old address with the present time, so it counts as fresh
  for another cooldown: `FreshAfterOutage` is stated while none fails. A new address
  keeps the old country when the geo service fails, and is then never asked again:
  `ShownIsOwn` states the country while none fails.
* A change of the links seen within the cooldown is remembered by nobody, and leads to no
  look-up later. While no address is known, look-ups come at every poll
  (`egress_metrics.py:66` says "at most every 5 minutes").
* A poll inserts its row for a gateway deleted meanwhile; with the id the row passes to
  the next gateway. `KnownKept` and `ShownIsOwn` are stated where a gateway is not
  deleted while it is polled.

Most share two causes: a thread or handler that returns from an external call writes
without reading again, and VM, Headscale and incus keep state of their own that the
operations on rows do not undo.

## 5. What is proved

In `GatewayLifecycle_proofs`, for every value of the constants (any number of
gateways, jobs, threads, requests and faults, and any operators), from the three
named assumptions of `GatewayLifecycle`:

| Theorem | Statement |
|---|---|
| `TypeCorrect` | `Spec => []TypeOK` |
| `NeverTwoThreads` | `Spec => []OneThreadPerGateway` |
| `ActiveAlwaysExact` | `Spec => []ActiveIsExact` |
| `AlwaysACreateJob` | `Spec => []CreateJobExists` |

The first three rest on one inductive invariant,
`IInv == RowsInv /\ ThreadsInv /\ HandlersInv`. `TypeOK` is not inductive: a
handler that is not idle must name a gateway (`gateway # 0`), or its write would
put a value outside the tables' domains. `ActiveIsExact` needs
`OneThreadPerGateway` (when a thread leaves the set, no other thread of its kind
may be working on that gateway) and the other way round (a thread is started when
the set says there is none), so they are proved together. `CreateJobExists`
follows from `IInv` and a fact about each action: job rows keep their gateway and
type (`KeepsJobs`), except that `DeleteRemove` takes a gateway with its jobs and
`CreateGateway` brings one with its job.

In `GatewayPromise_proofs`, from the same assumptions and the conditions that section 4
gives for these properties, here as hypotheses:

| Theorem | Statement |
|---|---|
| `PendingIsResumed` | `NobodyRetries` : `Spec /\ IdsNotReused => []PendingRecoverable` |
| `DeletingIsResumed` | `NobodyRetries`, `DeletedWhenReady` : `Spec /\ IdsNotReused /\ CompletionsRecorded => []DeletingRecoverable` |
| `KeepsPromise` | the same hypotheses : `... => Promise!Init /\ [][Promise!Next]_(Promise!vars)` |

* `NobodyRetries` is `RetryFrom = {}`; run `retry_strands_pending` shows what a retry does.
* `IdsNotReused`: a step inserts no row under an id that a thread, a request, the sweep or
  a job still names. `AUTOINCREMENT` would see to that; as the code is, it is a
  matter of when operators create gateways.
* `DeletedWhenReady`: operators delete gateways that are READY (or DELETING), by one
  request at a time. Two requests that read READY insert a job each (section 4);
  `RacingDeletionsRecoverable` is about those.
* `CompletionsRecorded`: the commit of COMPLETED meets no exhausted lock.

A sweep looks at the jobs of a gateway and not at what happened to it, so the first
invariant, `PInv`, is about jobs: a gateway has one create job, older than its other jobs
(`OneCreateJob`); threads and requests name jobs of their own gateway (`OwnJobs`); a
provisioning thread's create job is open until the thread closes it, and by then the
gateway waits for nothing (`ThreadsWork`); and who waits has an open create job
(`WaitsForOpenJob`), which is `PendingRecoverable` in the form in which a step keeps it.
Deletions in any status, by any number of requests, do not disturb it.

`DInv` is about whose turn it is to write a status. Until READY or ERROR it is the
provisioning thread's, which also knows its VM (`ProvisionHolds`); from the commit of
DELETING on it is the deletion thread's, whose job stays open (`DeleteHolds`); a request
that will write DELETING still has a READY gateway before it (`RequestHolds`). A gateway has
an open delete job if and only if it is DELETING, and that is its latest (`DeleteJobs`).
The sweep is the intruder, for it decides on what it read: `SweepHolds` says that what it
still believes can do no harm (a gateway it believes ERROR and that is READY has no open
create job unless a thread is about to close it, one it believes DELETING has a delete
job), and is where `CompletionsRecorded` is needed. From `DInv` each step is one of
`GatewayPromise`, or none (`EveryStepKeepsPromise`); `UniqueNames` is what keeps one
gateway's VM out of the others' business.

In `BackhaulPeers_proofs`, from the named assumptions of `BackhaulPeers`:

| Theorem | Statement |
|---|---|
| `TypeCorrect` | `Spec => []TypeOK` |
| `UniqueAddresses` | no set in `OpSets` has `"delete"`, `Leftover = {}` : `Spec => []AddressesHeld` |
| `KeysKept` | `Spec => []PeersKnown` |

`TypeCorrect` needs that a handler at a place that uses a key or an address has
one (`HandlerOK`), that a run of the script has a peer to set (`ScriptOK`), and that the
choice of `ops` is kept (`OpsKept`). `UniqueAddresses`
adds `AInv`: the allocated addresses are exactly the peers', and a creation between its
flush and its commit holds the lock and an address that nobody has (`Reserving`). Both
conditions are needed. A leftover address is handed out again without an INSERT, so no
constraint stops the second taker; and a deletion that acts on a row read earlier may
release the address of the peer that has it now.

`KeysKept` is for any number of racing requests and of runs of the routing script. `KInv`
says whose a key is: a key that a request has made is in no row and in no other request's
hands until the row is written (`KeysOwn`); a request that takes a key away takes it from
no row but the one it has read (`TakesOwn`); and a row's key is in the VM unless the
request that took it away is still to write that row (`KeysThere`). The script needs
nothing in return, for all its commands add: whatever it restores or sets again, it takes
no key away.

In `WorkerEnrollment_proofs`, from the three named assumptions of `WorkerEnrollment`:

| Theorem | Statement |
|---|---|
| `TypeCorrect` | `Spec => []TypeOK` |
| `OneWorkerPerEnrollment` | `Spec => []UsedOnce` |
| `GatewaysOnJoinedWorkers` | `Spec => []PlacedOnJoined` |
| `RemoteLeadsToWorker` | `Spec => []RemoteIsWorker` |
| `OfferCanBeCompleted` | `Spec => []OfferUsable` |

`TInv` adds to the types what a request in flight carries (a name that exists, an
enrollment's id, a VPS). `UInv` says that worker names are unique, that every used
enrollment has its worker, and that used enrollments have different names: it is
`UsedOnce` in the form in which an insert preserves it. `PlacedOnJoined` needs more
than itself: a heartbeat makes a worker eligible, so whatever has been seen must be held
by its VPS (`JInv`); and an answer must not reach a VPS that has joined meanwhile, so a
completion whose answer is awaited is the only one its VPS waits for (`WInv`).

The last two are stated of orderly operators, and `OInv` says what their order brings.
One VPS is between its enrollment and its answer (`OneBusy`), so one completion runs, for
an enrollment that is still open (`OneCompletion`), and there is one open offer, of a name
that no worker has (`OneOffer`). A remote is thus only replaced while its name has no
worker, and the worker is inserted when the remote leads to its VPS (`RemotesLead`).

In `ResourcePools_proofs`, from the two named assumptions of `ResourcePools`:

| Theorem | Statement |
|---|---|
| `TypeCorrect` | `Spec => []TypeOK` |
| `EndpointsNotShared` | `Spec => []NoSharedEndpoint` |
| `AllocatedStays` | `Spec => []AllocatedWhileUsed` |
| `LanAddresses` | `Spec => []LanAddressesFit` |

`TInv` adds to the types what a request has at each place (`HasRead`): a batch that
goes on has a group, a request about to insert has a name and an address. Neither
`NoSharedEndpoint` nor `AllocatedWhileUsed` is inductive alone. An insertion is
refused for an allocated address, however old the read that chose it, so addresses stay
apart because all that are used are allocated; a deletion gives its address back, so
all that are used stay allocated because no two gateways share one. `EInv` is both, the
first stated of any two gateways. Every other step leaves rows and allocations alone
(`SameEndpoints`). `NextIdIsFree` and the lemmas on `Min` and `Max` before it say that
what is chosen was free and that a new row overwrites none.

`LanAddresses` is a count. `create_peer_group` refuses a size that the LAN does not have,
but the addresses are chosen one by one, each by its own read: `BatchesFit` says that the
members of a group and those its batch has left are never more than the hosts of its
network. So there is a free host whenever one is chosen (`SpareAddress`), and the first
free offset is not the broadcast address. What was chosen stays free until its insertion
because nobody else creates in the group.

In `Tailnet_proofs`, from the named assumptions of `Tailnet` and `NoGatewayNames`, that
operators choose no name of the form `gw-NNN` for a gateway:

| Theorem | Statement |
|---|---|
| `TypeCorrect` | `Spec => []TypeOK` |
| `FindsItsOwn` | `Spec => []FoundIsOwn` |
| `DevicesNeverExits` | `Spec => []DeviceNeverExit` |
| `ApprovedStayOnMesh` | `Spec => []ApprovedOnMesh` |
| `DeletesOnlyItsOwn` | `Spec => OwnNodeDeleted` |
| `ExitNodeIsOwn` | `Spec => []ExitIsOwn` |
| `DashboardIsRight` | `Spec => []DashboardShowsOwn` |

Handlers find nodes by name and act on what they found some commands later, so the
invariant is about names: no two live nodes have one, and an internal name is on no node
but its gateway's (`NamesInv`); a row's name is internal, or its node's, but while a
rename is between Headscale and its commit (`RowNamesInv`); what a handler found, and what
a row names, is a node of the gateway or device it acts for (`OwnersInv`). `DeviceNeverExit`, `ApprovedOnMesh` and
`OwnNodeDeleted` are of behaviours in which no rename has raced another change
(`NoRenameRace`, which is part of the properties). The last two
theorems add that with careful operators and a Headscale that answers a gateway has no
live node but that of its present life (`Careful`). `NoGatewayNames` is what the docstring
of `validate_tailscale_display_name` says (section 4) and its code does not check; without
it a gateway renamed to `gw-002` is found for the next gateway of that name, and
`FoundIsOwn` is false. The run's instance satisfies it.

In `AgentRouting_proofs`, from the two named assumptions of `AgentRouting`:

| Theorem | Statement |
|---|---|
| `TypeCorrect` | `Spec => []TypeOK` |
| `NoLeak` | `Spec => []LeaksOnlyRewriting` |
| `WholeWhenQuiet` | `Spec => []QuietIsWhole` |
| `AdvertisedWhenReady` | `Spec => []ReadyAdvertised` |

The run has two applications at a time; the theorems have any number, each a list of
commands of which every one may be refused. The invariant says who owes what is missing.
Once routing has been applied, some application is about to add a rule if there is none
(`OwnInv`), to make the nft tables if they are gone (`NatInv`), and to add the rule or the
route of exit traffic if wg0 is not the default and one is missing (`ExitInv`); a refused
command is one that somebody else has done (`RefusedOwesNothing`), which is why a list may
end there. What makes it inductive is `LinkInv`: an application that had wg0 at its start
still has it, and the script that is past its fourth command has made wg0 the default.
A killed application leaves its debts to nobody, so these three hold until one is killed.
The lists are written out once (`PlanText`), and `Stage` counts from where the two kinds
of lists proper begin.

In `EgressMetrics_proofs`, from the named assumptions of `EgressMetrics`:

| Theorem | Statement |
|---|---|
| `TypeCorrect` | `Spec => []TypeOK` |
| `AddressIsKept` | `Spec => []KnownKept` |
| `NothingForeign` | `Spec => []ShownIsOwn` |
| `FreshWhenBack` | `Spec => FreshAfterOutage` |

The collector writes what it read before minutes of look-ups, so the invariant relates
its copy to the rows: the copy is not older than the row it came from (`EgressRow`), its
previous state is that of the newest row as long as there is one (`CarriedState`), and it
carries the known address or one just looked up (`CarriedAddress`), all of them the
gateway's own. Any cooldown and any number of changes, outages and failures are covered.

Only model-checked: `RacingDeletionsRecoverable`; `DropsFollowRows` and
`DeleteTakesEffect`, which are about one request at a time and straight-line once that is
assumed; and all liveness (the second half of `PromiseKept`, `ProvisioningEnds`, `ThreadsEnd`, `LockReleased`, `EventuallyConnected`, `EveryHostJoins`, `RoutingHeals`,
`EventuallyShown`), which is out of the prover's reach.

## 6. Not modelled

Text templates, statistics, the pages of the console, encryption of secrets,
schema migrations and the deployment scripts keep no state that could go wrong
over time. The Incus, Headscale and agent clients are modelled by the effects
their callers depend on, failures included. DNS rules and the status pages of the agent,
the stage names of a job, byte counters and the cache of the geo service are left out.
`ProvisioningQueue`/`drain_queue` in `provisioning.py`, and `set_exit_node` and
`clear_exit_node` of the agent, are not called by anything.
