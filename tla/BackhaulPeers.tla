---------------------------- MODULE BackhaulPeers ----------------------------
(***************************************************************************)
(* The backhaul peers of one READY gateway: the rows of the peers table and *)
(* the addresses allocated to them, against what the gateway's VM really    *)
(* has: WireGuard peers, nft drop rules, and UPLINK_PEER in exit.env.  The   *)
(* routing script of the VM, which its daemon runs every minute, goes over   *)
(* the WireGuard peers one command at a time while requests change them.     *)
(*                                                                         *)
(* A request reads its rows, calls the agent and writes its rows, in that   *)
(* order and with other requests in between.  create_peer alone writes      *)
(* before it calls the agent: its flush takes SQLite's write lock and keeps *)
(* it until the commit, so other writers wait, or give up after the busy    *)
(* timeout.  A call of the agent may fail, before or after its effect.      *)
(* The metrics collector compares the two sides every half minute and puts   *)
(* missing peers back.                                                       *)
(***************************************************************************)
EXTENDS Integers, Sequences, SequencesExt

CONSTANTS
    MaxPeers,     \* bound: peer row ids are 1..MaxPeers
    MaxKeys,      \* bound: key pairs ever generated
    Address,      \* addresses of the gateway's subnet, by their last number
    Leftover,     \* addresses that a deleted gateway of the same id has left
    Slashed,      \* the generated keys with a "/" in their base64 form
    Requests,     \* slots for concurrent requests
    Collector,    \* the metrics collector
    Daemons,      \* slots for runs of the routing script that the VM starts
    NoRequest,    \* the holder of a free lock
    OpSets,       \* sets of operations: this gateway is asked those of one set
    MaxFaults,    \* bound: failed agent calls and crashes
    MaxReboots    \* bound: restarts of the VM

PeerId == 1..MaxPeers
Key == 1..MaxKeys
NoKey == 0
NoAddress == 0   \* and the gateway's own, which no peer gets
Op == {"create", "delete", "suspend", "resume", "regenerate", "restart", "collect"}
Handlers == Requests \cup {Collector}
Scripts == Requests \cup Daemons    \* a restart runs the routing script as well

ASSUME BoundsAssumption ==
    MaxPeers \in Nat /\ MaxKeys \in Nat /\ MaxFaults \in Nat /\ MaxReboots \in Nat
ASSUME AddressAssumption == Address \subseteq Nat \ {0}
ASSUME SubsetAssumption ==
    Leftover \subseteq Address /\ Slashed \subseteq Key /\ OpSets \subseteq SUBSET Op
ASSUME RequestAssumption == NoRequest \notin Handlers /\ Collector \notin Requests
ASSUME ScriptAssumption == Requests \cap Daemons = {}

VARIABLES
    peer,        \* table peers: id -> [key, ip, suspended]
    allocated,   \* table ip_allocations: the addresses of this gateway's id
    wg,          \* keys of the VM's WireGuard peers, oldest first
    route,       \* the WireGuard peer that holds 0.0.0.0/0
    dropped,     \* addresses with a drop rule in the VM's suspend table
    uplink,      \* UPLINK_PEER in the VM's exit.env
    script,      \* runs of the VM's routing script
    request,     \* requests in flight, and the collector
    lock,        \* the handler that holds SQLite's write lock
    generated,   \* key pairs generated so far
    faults, reboots,
    failed,      \* some step of a request has failed; only the properties read it
    ops          \* the operations that this gateway is asked; never changes

rows == <<peer, allocated>>
vm == <<wg, route, dropped, uplink, script>>
vars == <<peer, allocated, wg, route, dropped, uplink, script, request, lock, generated, faults,
          failed, reboots, ops>>

-----------------------------------------------------------------------------
(* Rows *)

NoPeer == [key |-> NoKey, ip |-> NoAddress, suspended |-> FALSE]
Peers == {p \in PeerId : peer[p] # NoPeer}
PeerIps == {peer[p].ip : p \in Peers}

First(p, ids) == p \in ids /\ \A q \in ids : p <= q

\* One more than the largest id of the table.
IsNextPeer(p) == (\A q \in Peers : q < p) /\ (p = 1 \/ p - 1 \in Peers)

\* allocate_peer_ip: an address that this gateway id has and no peer uses, else
\* the first one that neither an allocation nor a peer uses.
Reusable == allocated \ PeerIps
\* Mutant: the gateway's own address is not skipped.
FreeOrOwn == (Address \cup {NoAddress}) \ (allocated \cup PeerIps)
Free == Address \ (allocated \cup PeerIps)

-----------------------------------------------------------------------------
(* The VM *)

WgAdd(k) ==
    /\ wg' = IF k \in Range(wg) THEN wg ELSE Append(wg, k)
    /\ route' = k
WgRemove(k) ==
    /\ IF k \in Range(wg)
       THEN \E i \in DOMAIN wg : wg[i] = k /\ wg' = RemoveAt(wg, i)
       ELSE wg' = wg
    /\ route' = IF route = k THEN NoKey ELSE route

\* The rules that resume_peer_ip deletes: those whose text has the address in it.
Matching(ip) == {a \in Address : ip \in {a, a \div 10, a \div 100}}

(* _apply_wg_peer of the routing script, command by command.  UPLINK_PEER is   *)
(* what exit.env had when the script started; it comes back when the interface *)
(* has no peer.  Then every peer that is listed is given 0.0.0.0/0, which the  *)
(* last one keeps; "wg set" of a peer that is no longer there adds it again.   *)

\* uplink: UPLINK_PEER as the script read it.  todo: listed peers still to be set.
Script(pc, key, todo) == [pc |-> pc, uplink |-> key, todo |-> todo]
ScriptIdle == Script("idle", NoKey, <<>>)
Starts(s) == script' = [script EXCEPT ![s] = Script("check", uplink, <<>>)]
Running(s) == script[s].pc \notin {"idle", "done"}
\* A request waits for the run it has started.
Ended(s) == Script(IF s \in Requests THEN "done" ELSE "idle", NoKey, <<>>)

ScriptCheck(s) ==
    /\ script[s].pc = "check"
    /\ script' = [script EXCEPT ![s].pc = IF wg = <<>> /\ script[s].uplink # NoKey
                                          THEN "restore" ELSE "list"]
    /\ UNCHANGED <<wg, route>>

\* Mutant: the interface is given a configuration that has UPLINK_PEER alone.
ScriptRestoreAlone(s) ==
    /\ script[s].pc = "restore"
    /\ wg' = <<script[s].uplink>> /\ route' = script[s].uplink
    /\ script' = [script EXCEPT ![s].pc = "list"]

ScriptRestore(s) ==
    /\ script[s].pc = "restore"
    /\ WgAdd(script[s].uplink)
    /\ script' = [script EXCEPT ![s].pc = "list"]

ScriptList(s) ==
    /\ script[s].pc = "list"
    /\ script' = [script EXCEPT ![s] = IF wg = <<>> THEN Ended(s) ELSE Script("set", NoKey, wg)]
    /\ UNCHANGED <<wg, route>>

ScriptSet(s) ==
    LET todo == script[s].todo
    IN /\ script[s].pc = "set"
       /\ WgAdd(Head(todo))
       /\ script' = [script EXCEPT ![s] = IF Len(todo) = 1 THEN Ended(s)
                                          ELSE Script("set", NoKey, Tail(todo))]

-----------------------------------------------------------------------------
(* Requests *)

\* pc of a request, by what it does next:
\*   create      choose, insert, add, uplink, commit
\*   delete      remove, delete        regenerate  revoke, renew, rekey
\*   suspend     drop, suspend         resume      undrop, resume
\*   restart     boot, apply, list, resync, relink
\*   collector   stats, compare, resync, relink, record, measure
AgentPc == {"add", "uplink", "remove", "revoke", "renew", "drop", "undrop",
            "boot", "apply", "resync", "relink", "stats"}
KeyInPathPc == {"remove", "revoke", "drop", "undrop"}    \* /v1/peers/{public_key}...
WritePc == {"insert", "delete", "rekey", "suspend", "resume", "record"}
RequestPc == {"idle", "choose", "commit", "list", "compare", "measure"} \cup AgentPc \cup WritePc

\* peer, key, ip: what the request read, or will write.  flag: the allocation is
\* new (create), the peer was read as suspended (suspend, resume).  listed: the
\* keys the agent has (collector).  todo: the keys to add after key, by peer
\* (restart, collector).
NoKeys == [p \in PeerId |-> NoKey]
Request(pc, p, key, ip, flag) ==
    [pc |-> pc, peer |-> p, key |-> key, ip |-> ip, flag |-> flag, listed |-> {}, todo |-> NoKeys]
NewRequest(pc) == Request(pc, 0, NoKey, NoAddress, FALSE)
IdleRequest == NewRequest("idle")

Goto(r, pc) == request' = [request EXCEPT ![r].pc = pc]
Finish(r) == request' = [request EXCEPT ![r] = IdleRequest]

\* Mutant: an exception leaves the transaction open.
AbortOpen(r) ==
    /\ Finish(r)
    /\ lock' = lock
    /\ UNCHANGED rows
\* The request raised: its transaction is rolled back.
Abort(r) ==
    /\ Finish(r)
    /\ lock' = IF lock = r THEN NoRequest ELSE lock
    /\ UNCHANGED rows

MayWrite(r) == lock = NoRequest \/ lock = r

\* The call of the agent, or of the VM, that the request is about to make.
Call(r) ==
    LET q == request[r]
    IN /\ UNCHANGED script
       /\ \/ q.pc \in {"add", "renew", "resync"} /\ WgAdd(q.key) /\ UNCHANGED <<dropped, uplink>>
          \/ q.pc \in {"remove", "revoke"} /\ WgRemove(q.key) /\ UNCHANGED <<dropped, uplink>>
          \/ /\ q.pc = "drop" /\ dropped' = dropped \cup {q.ip}
             /\ UNCHANGED <<wg, route, uplink>>
          \/ /\ q.pc = "undrop" /\ dropped' = dropped \ Matching(q.ip)
             /\ UNCHANGED <<wg, route, uplink>>
          \/ /\ q.pc \in {"uplink", "relink"} /\ uplink' = q.key
             /\ UNCHANGED <<wg, route, dropped>>
          \/ q.pc \in {"boot", "apply", "stats"} /\ UNCHANGED <<wg, route, dropped, uplink>>

\* The agent's router splits the path at "/": it knows no such key.
Refused(r) == request[r].pc \in KeyInPathPc /\ request[r].key \in Slashed
Answers(r, pc) == request[r].pc = pc /\ ~Refused(r) /\ Call(r)

AgentRefuses(r) ==
    /\ Refused(r)
    /\ Abort(r)
    /\ UNCHANGED <<vm, generated, faults, failed, reboots, ops>>

\* The call raises or times out, without or after its effect.  The collector
\* logs it, and records what it has.
AgentFails(r) ==
    /\ faults < MaxFaults
    /\ request[r].pc \in AgentPc
    /\ ~Refused(r)
    /\ Call(r) \/ UNCHANGED vm
    /\ IF r = Collector THEN Goto(r, "record") /\ UNCHANGED <<rows, lock>> ELSE Abort(r)
    /\ faults' = faults + 1 /\ failed' = TRUE
    /\ UNCHANGED <<generated, reboots, ops>>

\* "database is locked": another request kept the lock past the busy timeout.
LockTimeout(r) ==
    /\ request[r].pc \in WritePc
    /\ ~MayWrite(r)
    /\ Abort(r)
    /\ failed' = TRUE
    /\ UNCHANGED <<vm, generated, faults, reboots, ops>>

\* The agent answers although it has left the rules as they were: it ignores a
\* drop rule that nft refuses, a listing that fails and a rule that stays.
RuleSkipped(r) ==
    /\ faults < MaxFaults
    /\ request[r].pc \in {"drop", "undrop"}
    /\ ~Refused(r)
    /\ Goto(r, IF request[r].pc = "drop" THEN "suspend" ELSE "resume")
    /\ faults' = faults + 1 /\ failed' = TRUE
    /\ UNCHANGED <<rows, vm, lock, generated, reboots, ops>>

-----------------------------------------------------------------------------
(* create_peer, from the console, the API, the gateway's page and the        *)
(* provisioning thread                                                       *)

CreateRead(r) ==
    /\ "create" \in ops
    /\ request[r].pc = "idle"
    /\ Peers = {}
    /\ request' = [request EXCEPT ![r] = NewRequest("choose")]
    /\ UNCHANGED <<rows, vm, lock, generated, faults, failed, reboots, ops>>

CreateChoose(r) ==
    /\ request[r].pc = "choose"
    /\ generated < MaxKeys
    /\ generated' = generated + 1
    /\ \/ \E ip \in Reusable :
            request' = [request EXCEPT ![r] = Request("insert", 0, generated', ip, FALSE)]
       \/ /\ Reusable = {}
          /\ \E ip \in Free :
               /\ First(ip, Free)
               /\ request' = [request EXCEPT ![r] = Request("insert", 0, generated', ip, TRUE)]
       \/ /\ Reusable = {} /\ Free = {}
          /\ Finish(r)
    /\ UNCHANGED <<rows, vm, lock, faults, failed, reboots, ops>>

\* Mutant: no unique constraint on (worker_id, address).
CreateInsertUnchecked(r) ==
    /\ request[r].pc = "insert"
    /\ lock = NoRequest
    /\ Goto(r, "add") /\ lock' = r
    /\ UNCHANGED <<rows, vm, generated, faults, failed, reboots, ops>>

\* The flush of the allocation and the peer: uncommitted, under the lock.  An
\* address that was allocated meanwhile breaks uq_ip_worker_address.
CreateInsert(r) ==
    /\ request[r].pc = "insert"
    /\ lock = NoRequest
    /\ IF request[r].flag /\ request[r].ip \in allocated
       THEN Finish(r) /\ UNCHANGED lock
       ELSE Goto(r, "add") /\ lock' = r
    /\ UNCHANGED <<rows, vm, generated, faults, failed, reboots, ops>>

CreateAdd(r) ==
    /\ Answers(r, "add")
    /\ Goto(r, "uplink")
    /\ UNCHANGED <<rows, lock, generated, faults, failed, reboots, ops>>

CreateUplink(r) ==
    /\ Answers(r, "uplink")
    /\ Goto(r, "commit")
    /\ UNCHANGED <<rows, lock, generated, faults, failed, reboots, ops>>

CreateCommit(r) ==
    LET q == request[r]
    IN /\ q.pc = "commit"
       /\ \E p \in PeerId :
            /\ IsNextPeer(p)
            /\ peer' = [peer EXCEPT ![p] = [key |-> q.key, ip |-> q.ip, suspended |-> FALSE]]
       /\ allocated' = allocated \cup {q.ip}
       /\ lock' = NoRequest
       /\ Finish(r)
       /\ UNCHANGED <<vm, generated, faults, failed, reboots, ops>>

\* A resynchronisation is over.
Resynced(r) == IF r = Collector THEN Goto(r, "record") ELSE Finish(r)

\* exit.env cannot be read in the VM: _set_gateway_uplink_peer returns silently.
UplinkSkipped(r) ==
    /\ faults < MaxFaults
    /\ request[r].pc \in {"uplink", "relink"}
    /\ IF request[r].pc = "uplink" THEN Goto(r, "commit") ELSE Resynced(r)
    /\ faults' = faults + 1 /\ failed' = TRUE
    /\ UNCHANGED <<rows, vm, lock, generated, reboots, ops>>

-----------------------------------------------------------------------------
(* delete_peer, suspend_peer, resume_peer, regenerate_peer_keys: they read    *)
(* the row, call the agent, and write the row that then has the id.          *)

Begin(r, op, p, pc) ==
    /\ op \in ops
    /\ request[r].pc = "idle"
    /\ p \in Peers
    /\ request' = [request EXCEPT ![r] =
         Request(pc, p, peer[p].key, peer[p].ip, peer[p].suspended)]
    /\ UNCHANGED <<rows, vm, lock, generated, faults, failed, reboots, ops>>

DeleteBegin(r, p) == Begin(r, "delete", p, "remove")
SuspendBegin(r, p) == Begin(r, "suspend", p, "drop")
ResumeBegin(r, p) == Begin(r, "resume", p, "undrop")
RegenerateBegin(r, p) == Begin(r, "regenerate", p, "revoke")

DeleteRemove(r) ==
    /\ Answers(r, "remove")
    /\ Goto(r, "delete")
    /\ UNCHANGED <<rows, lock, generated, faults, failed, reboots, ops>>

\* Mutant: the address is released, the row stays.
DeleteAllocationOnly(r) ==
    /\ request[r].pc = "delete"
    /\ MayWrite(r)
    /\ allocated' = allocated \ {request[r].ip}
    /\ Finish(r)
    /\ UNCHANGED <<peer, vm, lock, generated, faults, failed, reboots, ops>>

\* A DELETE that finds no row is only warned about.
DeleteCommit(r) ==
    /\ request[r].pc = "delete"
    /\ MayWrite(r)
    /\ allocated' = allocated \ {request[r].ip}
    /\ peer' = [peer EXCEPT ![request[r].peer] = NoPeer]
    /\ Finish(r)
    /\ UNCHANGED <<vm, lock, generated, faults, failed, reboots, ops>>

SuspendDrop(r) ==
    /\ Answers(r, "drop")
    /\ Goto(r, "suspend")
    /\ UNCHANGED <<rows, lock, generated, faults, failed, reboots, ops>>

\* Mutant: the rule's handle is not found.
ResumeKeepsRule(r) ==
    /\ request[r].pc = "undrop"
    /\ ~Refused(r)
    /\ Goto(r, "resume")
    /\ UNCHANGED <<rows, vm, lock, generated, faults, failed, reboots, ops>>

ResumeUndrop(r) ==
    /\ Answers(r, "undrop")
    /\ Goto(r, "resume")
    /\ UNCHANGED <<rows, lock, generated, faults, failed, reboots, ops>>

\* set_suspended: no UPDATE when the row was read with that value; an UPDATE
\* that finds no row raises.
WriteSuspended(r, pc, suspended) ==
    LET p == request[r].peer
    IN /\ request[r].pc = pc
       /\ request[r].flag # suspended => MayWrite(r)
       /\ peer' = IF request[r].flag # suspended /\ p \in Peers
                  THEN [peer EXCEPT ![p].suspended = suspended] ELSE peer
       /\ Finish(r)
       /\ UNCHANGED <<allocated, vm, lock, generated, faults, failed, reboots, ops>>

SuspendCommit(r) == WriteSuspended(r, "suspend", TRUE)
ResumeCommit(r) == WriteSuspended(r, "resume", FALSE)

RegenerateRevoke(r) ==
    /\ Answers(r, "revoke")
    /\ generated < MaxKeys
    /\ generated' = generated + 1
    /\ request' = [request EXCEPT ![r].pc = "renew", ![r].key = generated']
    /\ UNCHANGED <<rows, lock, faults, failed, reboots, ops>>

RegenerateRenew(r) ==
    /\ Answers(r, "renew")
    /\ Goto(r, "rekey")
    /\ UNCHANGED <<rows, lock, generated, faults, failed, reboots, ops>>

RegenerateCommit(r) ==
    LET p == request[r].peer
    IN /\ request[r].pc = "rekey"
       /\ MayWrite(r)
       /\ peer' = IF p \in Peers THEN [peer EXCEPT ![p].key = request[r].key] ELSE peer
       /\ Finish(r)
       /\ UNCHANGED <<allocated, vm, lock, generated, faults, failed, reboots, ops>>

-----------------------------------------------------------------------------
(* restart_gateway: the VM loses its WireGuard peers and its drop rules; the *)
(* boot scripts and resync_gateway_peers bring peers back.                   *)

RestartBegin(r) ==
    /\ "restart" \in ops
    /\ request[r].pc = "idle"
    /\ reboots < MaxReboots
    /\ reboots' = reboots + 1
    /\ wg' = <<>> /\ route' = NoKey /\ dropped' = {}
    /\ script' = [s \in Scripts |-> ScriptIdle]
    /\ request' = [request EXCEPT ![r] = NewRequest("boot")]
    /\ UNCHANGED <<rows, uplink, lock, generated, faults, failed, ops>>

\* apply_gateway_post_reboot: the VM is up, and the routing script is run.
RestartApply(r) ==
    /\ request[r].pc = "boot"
    /\ Starts(r)
    /\ Goto(r, "apply")
    /\ UNCHANGED <<rows, wg, route, dropped, uplink, lock, generated, faults, failed, reboots, ops>>

RestartBoot(r) ==
    /\ Answers(r, "apply")
    /\ script[r].pc = "done"
    /\ Goto(r, "list")
    /\ UNCHANGED <<rows, lock, generated, faults, failed, reboots, ops>>

\* The VM was restarted once more meanwhile, and the script with it.
BootKilled(r) ==
    /\ request[r].pc = "apply" /\ script[r].pc = "idle"
    /\ Abort(r)
    /\ failed' = TRUE
    /\ UNCHANGED <<vm, generated, faults, reboots, ops>>

Active == {p \in Peers : ~peer[p].suspended}

\* list_by_gateway, in the order of the ids, without the suspended peers.
AddFirst(r, keys) ==
    \E p \in PeerId :
        /\ First(p, {q \in PeerId : keys[q] # NoKey})
        /\ request' = [request EXCEPT ![r].pc = "resync", ![r].key = keys[p],
                                      ![r].todo = [keys EXCEPT ![p] = NoKey]]
Resync(r) == AddFirst(r, [p \in PeerId |-> IF p \in Active THEN peer[p].key ELSE NoKey])

ResyncList(r) ==
    /\ request[r].pc = "list"
    /\ IF Active = {} THEN Finish(r) ELSE Resync(r)
    /\ UNCHANGED <<rows, vm, lock, generated, faults, failed, reboots, ops>>

ResyncAdd(r) ==
    /\ Answers(r, "resync")
    /\ IF request[r].todo = NoKeys THEN Goto(r, "relink") ELSE AddFirst(r, request[r].todo)
    /\ UNCHANGED <<rows, lock, generated, faults, failed, reboots, ops>>

ResyncRelink(r) ==
    /\ Answers(r, "relink")
    /\ Resynced(r)
    /\ UNCHANGED <<rows, lock, generated, faults, failed, reboots, ops>>

-----------------------------------------------------------------------------
(* collect_metrics, every half minute: one session for all gateways, committed *)
(* at the end.                                                                *)

\* The metrics of a gateway before this one may have been flushed: the lock.
CollectBegin ==
    /\ "collect" \in ops
    /\ request[Collector].pc = "idle"
    /\ Goto(Collector, "stats")
    /\ lock' \in {lock} \cup (IF lock = NoRequest THEN {Collector} ELSE {})
    /\ UNCHANGED <<rows, vm, generated, faults, failed, reboots, ops>>

CollectStats ==
    /\ Answers(Collector, "stats")
    /\ request' = [request EXCEPT ![Collector].pc = "compare", ![Collector].listed = Range(wg)]
    /\ UNCHANGED <<rows, lock, generated, faults, failed, reboots, ops>>

\* Mutant: missing peers are not put back.
CollectOnly ==
    /\ request[Collector].pc = "compare"
    /\ Goto(Collector, "record")
    /\ UNCHANGED <<rows, vm, lock, generated, faults, failed, reboots, ops>>

\* The rows, against the peers that the agent listed a moment ago.
CollectCompare ==
    /\ request[Collector].pc = "compare"
    /\ IF \E p \in Active : peer[p].key \notin request[Collector].listed
       THEN Resync(Collector)
       ELSE Goto(Collector, "record")
    /\ UNCHANGED <<rows, vm, lock, generated, faults, failed, reboots, ops>>

\* The flush of the metrics: uncommitted, under the lock, while the egress and
\* the gateways after this one are looked up.
CollectRecord ==
    /\ request[Collector].pc = "record"
    /\ MayWrite(Collector)
    /\ Goto(Collector, "measure")
    /\ lock' = Collector
    /\ UNCHANGED <<rows, vm, generated, faults, failed, reboots, ops>>

CollectCommit ==
    /\ request[Collector].pc = "measure"
    /\ Finish(Collector)
    /\ lock' = NoRequest
    /\ UNCHANGED <<rows, vm, generated, faults, failed, reboots, ops>>

-----------------------------------------------------------------------------
(* The VM's routing daemon, a crash of the orchestrator, the specification   *)

\* The daemon runs the script every minute, the init script at boot and the
\* hotplug hook when an interface comes up.
ScriptStart(d) ==
    /\ d \in Daemons /\ script[d].pc = "idle"
    /\ Starts(d)
    /\ UNCHANGED <<rows, wg, route, dropped, uplink, request, lock, generated, faults, failed,
                   reboots, ops>>

ScriptStep(s) ==
    /\ ScriptCheck(s) \/ ScriptRestore(s) \/ ScriptList(s) \/ ScriptSet(s)
    /\ UNCHANGED <<rows, dropped, uplink, request, lock, generated, faults, failed, reboots, ops>>

Crash ==
    /\ faults < MaxFaults
    /\ \E r \in Handlers : request[r].pc # "idle"
    /\ request' = [r \in Handlers |-> IdleRequest]
    /\ lock' = NoRequest
    /\ faults' = faults + 1 /\ failed' = TRUE
    /\ UNCHANGED <<rows, vm, generated, reboots, ops>>

Init ==
    /\ peer = [p \in PeerId |-> NoPeer]
    /\ allocated = Leftover
    /\ wg = <<>> /\ route = NoKey /\ dropped = {} /\ uplink = NoKey
    /\ script = [s \in Scripts |-> ScriptIdle]
    /\ request = [r \in Handlers |-> IdleRequest]
    /\ lock = NoRequest
    /\ generated = 0 /\ faults = 0 /\ reboots = 0 /\ failed = FALSE
    /\ ops \in OpSets

RequestBegins(r) ==
    \/ CreateRead(r) \/ RestartBegin(r)
    \/ \E p \in PeerId :
         DeleteBegin(r, p) \/ SuspendBegin(r, p) \/ ResumeBegin(r, p) \/ RegenerateBegin(r, p)

RequestStep(r) ==
    \/ CreateChoose(r) \/ CreateInsert(r) \/ CreateAdd(r) \/ CreateUplink(r) \/ CreateCommit(r)
    \/ DeleteRemove(r) \/ DeleteCommit(r)
    \/ SuspendDrop(r) \/ SuspendCommit(r) \/ ResumeUndrop(r) \/ ResumeCommit(r)
    \/ RegenerateRevoke(r) \/ RegenerateRenew(r) \/ RegenerateCommit(r)
    \/ RestartApply(r) \/ RestartBoot(r) \/ BootKilled(r)
    \/ ResyncList(r) \/ ResyncAdd(r) \/ ResyncRelink(r)
    \/ AgentRefuses(r) \/ AgentFails(r) \/ RuleSkipped(r) \/ UplinkSkipped(r) \/ LockTimeout(r)

CollectStep == CollectStats \/ CollectCompare \/ CollectRecord \/ CollectCommit

Next ==
    \/ \E r \in Requests : RequestBegins(r)
    \/ \E r \in Handlers : RequestStep(r)
    \/ CollectBegin \/ CollectStep
    \/ \E d \in Daemons : ScriptStart(d)
    \/ \E s \in Scripts : ScriptStep(s)
    \/ Crash

Spec == Init /\ [][Next]_vars

\* A request that runs is served to its end; nothing makes one arrive.  The
\* scheduler starts the collector, and the VM's daemon the routing script.
Fairness ==
    /\ \A r \in Requests : WF_vars(RequestStep(r))
    /\ WF_vars(RequestStep(Collector) \/ CollectStep)
    /\ WF_vars(CollectBegin)
    /\ \A d \in Daemons : WF_vars(ScriptStart(d))
    /\ \A s \in Scripts : WF_vars(ScriptStep(s))
FairSpec == Spec /\ Fairness

-----------------------------------------------------------------------------
(* Properties *)

PeerRow == [key : Key, ip : Address, suspended : BOOLEAN] \cup {NoPeer}
RequestState == [pc : RequestPc, peer : PeerId \cup {0}, key : Key \cup {NoKey},
                 ip : Address \cup {NoAddress}, flag : BOOLEAN,
                 listed : SUBSET Key, todo : [PeerId -> Key \cup {NoKey}]]

ScriptState == [pc : {"idle", "check", "restore", "list", "set", "done"},
                uplink : Key \cup {NoKey}, todo : Seq(Key)]

\* Tables, VM, scripts, requests and lock hold values of their type.
TypeOK ==
    /\ peer \in [PeerId -> PeerRow]
    /\ allocated \subseteq Address
    /\ wg \in Seq(Key)
    /\ route \in Key \cup {NoKey}
    /\ dropped \subseteq Address
    /\ uplink \in Key \cup {NoKey}
    /\ script \in [Scripts -> ScriptState]
    /\ request \in [Handlers -> RequestState]
    /\ lock \in Handlers \cup {NoRequest}
    /\ generated \in 0..MaxKeys
    /\ faults \in 0..MaxFaults
    /\ failed \in BOOLEAN
    /\ reboots \in 0..MaxReboots
    /\ ops \in OpSets

\* No request is in flight, none has failed, and no collection has mended anything.
\* The routing script may be running.
Quiet ==
    /\ \A r \in Handlers : request[r].pc = "idle"
    /\ ~failed
    /\ "collect" \notin ops

\* No two peers have one address.
DistinctAddresses ==
    \A p, q \in Peers : p # q => peer[p].ip # peer[q].ip

\* Every peer's address is allocated.
AddressAllocated == PeerIps \subseteq allocated

\* Every peer has an address of its own that nobody else is given: allocate_peer_ip
\* reads outside the lock, and only uq_ip_worker_address stops the second of two
\* racing creations.
AddressesHeld == DistinctAddresses /\ AddressAllocated

\* The VM knows the key of every peer of the table once no request is in flight,
\* however creations, deletions, regenerations and suspensions of the gateway's peers
\* have raced with one another and with the routing script: none takes away a key
\* that another one's row has.  (Of a gateway that is not restarted: a key that is
\* added before a restart is lost when its row comes after the resynchronisation.)
PeersKnown ==
    Quiet /\ "restart" \notin ops => \A p \in Peers : peer[p].key \in Range(wg)

\* The peer holds the default route, and no run of the script is about to move it.
Connected(p) ==
    peer[p].key \in Range(wg) /\ route = peer[p].key /\ \A s \in Scripts : ~Running(s)

\* A peer that is not suspended is connected in the end, or suspended or gone:
\* whatever call failed, the collector puts it back, and the routing script, which
\* moves the route from one listed peer to the next, leaves it with this one.
EventuallyConnected ==
    \A p \in PeerId : p \in Active /\ "collect" \in ops ~> (p \in Active => Connected(p))

\* Drop rules follow the rows.  A suspended peer's traffic is dropped, or the VM does
\* not know it, where the gateway is not restarted, which forgets the rules; an
\* active peer's is not, where no peer is deleted, for a deleted peer's rule waits
\* for its address.
DropsFollowRows ==
    Quiet => \A p \in Peers :
        /\ peer[p].suspended /\ "restart" \notin ops =>
              peer[p].ip \in dropped \/ peer[p].key \notin Range(wg)
        /\ ~peer[p].suspended /\ "delete" \notin ops => peer[p].ip \notin dropped

\* A deletion that the agent did not fail deletes the row, unless the key's path
\* does not lead to the agent's handler.
DeleteTakesEffect ==
    [][\A r \in Requests, p \in PeerId :
          request[r].pc \in {"remove", "delete"} /\ request[r].peer = p
          /\ request[r].key \notin Slashed
          /\ request'[r].pc = "idle" /\ faults' = faults
             => peer'[p] = NoPeer]_vars

\* SQLite's write lock, held across calls of the agent, is always given back.
LockReleased == \A r \in Handlers : lock = r ~> lock # r
=============================================================================
