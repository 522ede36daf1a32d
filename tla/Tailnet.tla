------------------------------- MODULE Tailnet -------------------------------
(***************************************************************************)
(* What the control plane does on the tailnet: it finds, approves, renames  *)
(* and deletes the Headscale nodes of gateways, admits devices that ask to  *)
(* register, and periodically approves exit routes.  Headscale knows        *)
(* nothing of the database: a node is found again by name or address.       *)
(*                                                                         *)
(* Each command of the headscale CLI is a step of its own; what a handler   *)
(* read before it stays with the handler.  A name is <<prefix, number>>:    *)
(* gw-NNN of gateways, ex-NNN of admitted devices, "dev" as devices call    *)
(* themselves, "my" as operators choose, "dup" as Headscale makes up when a *)
(* machine joins under a name that is taken.                               *)
(***************************************************************************)
EXTENDS Integers, FiniteSets

CONSTANTS
    MaxGateways,  \* gateway rows are 1..MaxGateways, named gw-NNN by their number
    MaxDevices,   \* devices are 1..MaxDevices
    MaxNodes,     \* bound: nodes ever registered with Headscale
    MaxExit,      \* ex-NNN names are 0..MaxExit
    MaxLives,     \* bound: times a gateway of one name is created
    MaxRenames,   \* bound: renames asked for
    Chosen,       \* names operators give to gateways
    Requests,     \* slots for concurrent handlers
    MaxFaults     \* bound: headscale commands that fail

Gateways == 1..MaxGateways
Devices == 1..MaxDevices
NodeId == 1..MaxNodes
GatewayName(g) == <<"gw", g>>
ExitNames == {<<"ex", i>> : i \in 0..MaxExit}
Names == {GatewayName(g) : g \in Gateways} \cup ExitNames \cup Chosen
         \cup {<<"dev", d>> : d \in Devices} \cup {<<"dup", i>> : i \in NodeId}
NoName == <<"no", 0>>

ASSUME BoundsAssumption ==
    /\ MaxGateways \in Nat /\ MaxDevices \in Nat /\ MaxNodes \in Nat /\ MaxExit \in Nat
    /\ MaxLives \in Nat /\ MaxRenames \in Nat /\ MaxFaults \in Nat
ASSUME ChosenAssumption == Chosen \cap {<<"dup", i>> : i \in NodeId} = {}

VARIABLES
    orderly,       \* operators wait for one change before they ask for the next
    node,          \* Headscale's nodes: id -> [owner, life, name, route]
    gateway,       \* table gateways: [status, life, hostname, exit]
    registration,  \* table registration_requests: [status, node]
    request,       \* handlers in flight: [kind, pc, on, name, node]
    todo,          \* nodes the periodic sync is about to approve
    renames, faults

vars == <<orderly, node, gateway, registration, request, todo, renames, faults>>

\* owner 1..MaxGateways: a gateway, in its life-th life; -d: the device d.  A
\* node's id stands for its address.  route: the exit route is not advertised,
\* advertised, or approved; a deleted node's id is not given again.
NoNode == [owner |-> 0, life |-> 0, name |-> NoName, route |-> "none"]
Route == {"none", "available", "approved", "deleted"}
NoGateway == [status |-> "absent", life |-> 0, hostname |-> NoName, exit |-> 0]
GatewayStatus == {"absent", "pending", "ready", "deleting"}
NoRegistration == [status |-> "none", node |-> 0]
RegistrationStatus == {"none", "pending", "approved", "rejected"}
Kind == {"finalize", "rename", "delete", "approve"}
\* pc: the step a handler takes next.
Pc == {"idle", "record", "apply", "commit", "remove", "routes", "list", "rename", "mark"}
Idle == [kind |-> "finalize", pc |-> "idle", on |-> 0, name |-> NoName, node |-> 0]

Nodes == {n \in NodeId : node[n].owner # 0 /\ node[n].route # "deleted"}
TakenNames == {node[n].name : n \in Nodes}
Tagged(n) == node[n].owner > 0
\* Headscale hands out ids in order and never twice.
IsNextNode(n) == node[n].owner = 0 /\ \A m \in NodeId : m < n => node[m].owner # 0
\* The name a new node gets: the one it asks for, unless that is taken.
FreeName(n, name) == IF name \in TakenNames THEN <<"dup", n>> ELSE name

\* The first one of the list, or none.
IsFirst(n, ids) == \A m \in ids : n <= m
First(ids) == IF \E n \in ids : IsFirst(n, ids) THEN CHOOSE n \in ids : IsFirst(n, ids) ELSE 0
\* Mutant: the number is compared, not the name.
FoundByNumber(g) == First({n \in Nodes : n = gateway[g].exit \/ node[n].name[2] = g})
\* find_gateway_headscale_node: the first node in the list with the gateway's
\* address or one of its names.
Found(g) == First({n \in Nodes : n = gateway[g].exit \/
                    node[n].name \in {gateway[g].hostname, GatewayName(g)}})
\* get_node_tailscale_ip_by_hostname
IpOf(name) == First({n \in Nodes : node[n].name = name})

IsQuiet == \A r \in Requests : request[r].pc = "idle"
\* An operator's next request may start.
MayStart(r) == request[r].pc = "idle" /\ (orderly => IsQuiet)
Begin(r, kind, pc, on, name, n) ==
    request' = [request EXCEPT ![r] = [kind |-> kind, pc |-> pc, on |-> on, name |-> name, node |-> n]]
End(r) == request' = [request EXCEPT ![r] = Idle]
Step(r, pc) == request' = [request EXCEPT ![r].pc = pc]

\* _run_headscale raises HeadscaleError; the handler ends without a commit (a
\* gateway that was to be finalized goes to ERROR, where provisioning is tried
\* again as it is from PENDING).
HeadscaleFails(r) ==
    /\ request[r].kind # "delete"
    /\ request[r].pc \notin {"idle", "commit", "mark"}
    /\ faults < MaxFaults
    /\ faults' = faults + 1
    /\ End(r)
    /\ UNCHANGED <<orderly, node, gateway, registration, todo, renames>>

-----------------------------------------------------------------------------
(* Gateways *)

CreateGateway(g) ==
    /\ gateway[g].status = "absent"
    /\ gateway[g].life < MaxLives
    /\ gateway' = [gateway EXCEPT ![g] = [status |-> "pending", life |-> @.life + 1,
                                          hostname |-> GatewayName(g), exit |-> 0]]
    /\ UNCHANGED <<orderly, node, registration, request, todo, renames, faults>>

\* The VM joins with its single-use preauth key, under the name it was given.
Join(g) ==
    /\ gateway[g].status \in {"pending", "deleting"}
    /\ \A n \in NodeId : ~(node[n].owner = g /\ node[n].life = gateway[g].life)
    /\ \E n \in NodeId :
         /\ IsNextNode(n)
         /\ node' = [node EXCEPT ![n] =
              [owner |-> g, life |-> gateway[g].life, route |-> "none",
               name |-> FreeName(n, GatewayName(g))]]
    /\ UNCHANGED <<orderly, gateway, registration, request, todo, renames, faults>>

\* _finalize_exit_node, once the agent says that Tailscale is online: the agent
\* advertises, the node is looked for.
FinalizeFind(r, g) ==
    /\ MayStart(r)
    /\ gateway[g].status = "pending"
    /\ \E n \in Nodes : node[n].owner = g /\ node[n].life = gateway[g].life
    /\ node' = [n \in NodeId |->
         IF node[n].owner = g /\ node[n].life = gateway[g].life /\ node[n].route = "none"
         THEN [node[n] EXCEPT !.route = "available"] ELSE node[n]]
    /\ Begin(r, "finalize", "record", g, NoName, Found(g))
    /\ UNCHANGED <<orderly, gateway, registration, todo, renames, faults>>

\* _approve_exit_route_if_needed, for one node or for the tagged ones.
Approved(n) == IF n.route = "available" THEN [n EXCEPT !.route = "approved"] ELSE n
\* Mutant: devices' routes are approved too.
ApprovableAlways(n) == TRUE
Approvable(n) == Tagged(n)

\* The address is that of the node of one of the gateway's names, if there is one.
ExitAddress(g) ==
    IF IpOf(gateway[g].hostname) # 0 THEN IpOf(gateway[g].hostname)
    ELSE IF IpOf(GatewayName(g)) # 0 THEN IpOf(GatewayName(g)) ELSE gateway[g].exit

\* The routes are approved, unless Headscale fails, the address is recorded and the
\* gateway is READY; the row is left alone if a deletion came first.
FinalizeRecord(r) ==
    /\ request[r].kind = "finalize" /\ request[r].pc = "record"
    /\ LET g == request[r].on IN
       /\ \/ /\ node' = [n \in NodeId |-> IF n \in Nodes /\ (n = request[r].node \/ Approvable(n))
                                         THEN Approved(node[n]) ELSE node[n]]
             /\ UNCHANGED faults
          \/ /\ faults < MaxFaults
             /\ faults' = faults + 1
             /\ UNCHANGED node
       /\ gateway' = IF gateway[g].status # "pending" THEN gateway
                     ELSE [gateway EXCEPT ![g].status = "ready",
                                          ![g].exit = ExitAddress(g)]
    /\ End(r)
    /\ UNCHANGED <<orderly, registration, todo, renames>>

\* rename_tailscale_display_name, up to the rename: the name is not another
\* gateway's, the node is there, and no other node has the name.
RenameRead(r, g, name) ==
    /\ MayStart(r)
    /\ renames < MaxRenames
    /\ renames' = renames + 1
    /\ gateway[g].status = "ready"
    /\ name # gateway[g].hostname
    /\ \A h \in Gateways \ {g} : gateway[h].hostname # name
    /\ Found(g) # 0
    /\ \A n \in Nodes \ {Found(g)} : node[n].name # name
    /\ Begin(r, "rename", "apply", g, name, Found(g))
    /\ UNCHANGED <<orderly, node, gateway, registration, todo, faults>>

\* headscale nodes rename: refused if the node is gone or the name taken.
Refused(r) == \/ request[r].node \notin Nodes
              \/ \E n \in Nodes \ {request[r].node} : node[n].name = request[r].name
Rename(r, pc) ==
    \/ /\ Refused(r)
       /\ End(r)
       /\ UNCHANGED node
    \/ /\ ~Refused(r)
       /\ node' = [node EXCEPT ![request[r].node].name = request[r].name]
       /\ Step(r, pc)
RenameApply(r) ==
    /\ request[r].kind = "rename" /\ request[r].pc = "apply"
    /\ Rename(r, "commit")
    /\ UNCHANGED <<orderly, gateway, registration, todo, renames, faults>>

\* Mutant: the internal name is written back.
RenameCommitName(r) ==
    /\ request[r].kind = "rename" /\ request[r].pc = "commit"
    /\ gateway' = [gateway EXCEPT ![request[r].on].hostname = GatewayName(request[r].on)]
    /\ End(r)
    /\ UNCHANGED <<orderly, node, registration, todo, renames, faults>>

\* The row is written by its id, which may be a later gateway's by now.
RenameCommit(r) ==
    /\ request[r].kind = "rename" /\ request[r].pc = "commit"
    /\ gateway' = IF gateway[request[r].on].status = "absent" THEN gateway
                  ELSE [gateway EXCEPT ![request[r].on].hostname = request[r].name]
    /\ End(r)
    /\ UNCHANGED <<orderly, node, registration, todo, renames, faults>>

\* execute_delete_gateway: the node is looked for.
DeleteFind(r, g) ==
    /\ MayStart(r)
    /\ gateway[g].status \in {"pending", "ready"}
    /\ orderly => gateway[g].status = "ready"
    /\ gateway' = [gateway EXCEPT ![g].status = "deleting"]
    /\ Begin(r, "delete", "remove", g, NoName, Found(g))
    /\ UNCHANGED <<orderly, node, registration, todo, renames, faults>>

\* delete_gateway_headscale_node
Removed(r) == IF request[r].node \in Nodes
              THEN [node EXCEPT ![request[r].node].name = NoName,
                                ![request[r].node].route = "deleted"] ELSE node

\* The node is deleted; a failure is logged and the deletion goes on.
DeleteNode(r) ==
    /\ request[r].kind = "delete" /\ request[r].pc = "remove"
    /\ \/ node' = Removed(r) /\ UNCHANGED faults
       \/ /\ request[r].node \in Nodes
          /\ faults < MaxFaults
          /\ faults' = faults + 1
          /\ UNCHANGED node
    /\ Step(r, "commit")
    /\ UNCHANGED <<orderly, gateway, registration, todo, renames>>

DeleteRow(r) ==
    /\ request[r].kind = "delete" /\ request[r].pc = "commit"
    /\ gateway' = [gateway EXCEPT ![request[r].on] = [NoGateway EXCEPT !.life = gateway[request[r].on].life]]
    /\ End(r)
    /\ UNCHANGED <<orderly, node, registration, todo, renames, faults>>

-----------------------------------------------------------------------------
(* Devices *)

\* The writes of the registration repository; none looks at the status it
\* overwrites but the first, which only makes a row that is missing.
TouchPending(row) == IF row.status = "none" THEN [row EXCEPT !.status = "pending"] ELSE row
MarkApproved(n) == [status |-> "approved", node |-> n]
MarkRejected(row) == [row EXCEPT !.status = "rejected"]

\* register_page: the device's visits.
Touch(d) ==
    /\ registration' = [registration EXCEPT ![d] = TouchPending(@)]
    /\ UNCHANGED <<orderly, node, gateway, request, todo, renames, faults>>

NodesOf(d) == {n \in Nodes : node[n].owner = -d}

\* A device joins under its own name; it may offer to be an exit.
DeviceNode(d, n) ==
    \E route \in {"none", "available"} :
        /\ IsNextNode(n)
        /\ node' = [node EXCEPT ![n] = [owner |-> -d, life |-> 0, name |-> FreeName(n, <<"dev", d>>),
                                        route |-> route]]

\* create_exit_node_authkey: with the mobile user's reusable preauth key.
JoinWithKey(d) ==
    /\ NodesOf(d) = {}
    /\ \E n \in NodeId : DeviceNode(d, n)
    /\ UNCHANGED <<orderly, gateway, registration, request, todo, renames, faults>>

\* approve_registration_ui, which does not look at the status: the node is
\* registered.  Headscale may refuse a key it has seen, or answer with its node.
ApproveRegister(r, d) ==
    /\ MayStart(r)
    /\ registration[d].status # "none"
    /\ orderly => registration[d].status = "pending"
    /\ \/ /\ NodesOf(d) = {}
          /\ \E n \in NodeId :
               /\ DeviceNode(d, n)
               /\ Begin(r, "approve", "routes", d, NoName, n)
       \/ /\ \E n \in NodesOf(d) : Begin(r, "approve", "routes", d, NoName, n)
          /\ UNCHANGED node
    /\ UNCHANGED <<orderly, gateway, registration, todo, renames, faults>>

\* headscale nodes approve-routes -r "": no route is approved.
ApproveRoutes(r) ==
    /\ request[r].kind = "approve" /\ request[r].pc = "routes"
    /\ node' = [node EXCEPT ![request[r].node].route = IF @ = "approved" THEN "available" ELSE @]
    /\ Step(r, "list")
    /\ UNCHANGED <<orderly, gateway, registration, todo, renames, faults>>

\* next_sequential_name over collect_exit_node_names.
IsNextExitName(i) == <<"ex", i>> \notin TakenNames /\ \A k \in 0..MaxExit : k < i => <<"ex", k>> \in TakenNames

\* assign_exit_node_name reads the names ...
ApproveList(r) ==
    /\ request[r].kind = "approve" /\ request[r].pc = "list"
    /\ \E i \in 0..MaxExit :
         /\ IsNextExitName(i)
         /\ request' = [request EXCEPT ![r].pc = "rename", ![r].name = <<"ex", i>>]
    /\ UNCHANGED <<orderly, node, gateway, registration, todo, renames, faults>>

\* ... and renames the node, which Headscale refuses if the name has gone.
ApproveRename(r) ==
    /\ request[r].kind = "approve" /\ request[r].pc = "rename"
    /\ Rename(r, "mark")
    /\ UNCHANGED <<orderly, gateway, registration, todo, renames, faults>>

\* Mutant: the node's number is taken off the row's address.
ApproveMarkStale(r) ==
    /\ request[r].kind = "approve" /\ request[r].pc = "mark"
    /\ registration' = [registration EXCEPT ![request[r].on] = MarkApproved(IpOf(<<"ex", 0>>))]
    /\ End(r)
    /\ UNCHANGED <<orderly, node, gateway, todo, renames, faults>>

\* The row is marked, whatever it says by now.
ApproveMark(r) ==
    /\ request[r].kind = "approve" /\ request[r].pc = "mark"
    /\ registration' = [registration EXCEPT ![request[r].on] = MarkApproved(request[r].node)]
    /\ End(r)
    /\ UNCHANGED <<orderly, node, gateway, todo, renames, faults>>

\* reject_registration_ui: the same.
Reject(d) ==
    /\ registration[d].status # "none"
    /\ orderly => registration[d].status = "pending" /\ IsQuiet
    /\ registration' = [registration EXCEPT ![d] = MarkRejected(@)]
    /\ UNCHANGED <<orderly, node, gateway, request, todo, renames, faults>>

-----------------------------------------------------------------------------
(* sync_headscale_exit_nodes, every metrics_poll_interval_seconds *)

SyncList ==
    /\ todo = {}
    /\ todo' = {n \in Nodes : Approvable(n) /\ node[n].route = "available"}
    /\ todo' # {}
    /\ UNCHANGED <<orderly, node, gateway, registration, request, renames, faults>>

\* A node that has gone makes the command fail, and the round ends.
SyncApprove(n) ==
    /\ n \in todo
    /\ \A m \in todo : n <= m
    /\ node' = IF n \in Nodes THEN [node EXCEPT ![n] = Approved(@)] ELSE node
    /\ todo' = IF n \in Nodes THEN todo \ {n} ELSE {}
    /\ UNCHANGED <<orderly, gateway, registration, request, renames, faults>>

-----------------------------------------------------------------------------

(* The dashboard *)

\* _parse_headscale_node keeps tagged nodes, and those that offer an exit route.
IsExitNode(n) == Tagged(n) \/ node[n].route # "none"
\* list_exit_nodes
ExitNodes == {n \in Nodes : IsExitNode(n)}

\* match_gateway_exit_node: by address, else by one of the two names.
MatchExitNode(g) ==
    IF gateway[g].exit \in ExitNodes THEN gateway[g].exit
    ELSE LET named(name) == {n \in ExitNodes : node[n].name = name} IN
         First(IF named(gateway[g].hostname) # {} THEN named(gateway[g].hostname)
               ELSE named(GatewayName(g)))

Rows == {g \in Gateways : gateway[g].status # "absent"}
\* Mutant: a node counts as assigned by its name only.
UnassignedByName == {n \in ExitNodes : node[n].name \notin {GatewayName(g) : g \in Rows}}
\* partition_exit_nodes
Unassigned == {n \in ExitNodes : /\ node[n].name \notin {GatewayName(g) : g \in Rows}
                                 /\ n \notin {gateway[g].exit : g \in Rows}}

-----------------------------------------------------------------------------

Init ==
    /\ orderly \in BOOLEAN
    /\ node = [n \in NodeId |-> NoNode]
    /\ gateway = [g \in Gateways |-> NoGateway]
    /\ registration = [d \in Devices |-> NoRegistration]
    /\ request = [r \in Requests |-> Idle]
    /\ todo = {}
    /\ renames = 0
    /\ faults = 0

HandlerStep(r) ==
    \/ FinalizeRecord(r) \/ RenameApply(r) \/ RenameCommit(r) \/ DeleteNode(r) \/ DeleteRow(r)
    \/ ApproveRoutes(r) \/ ApproveList(r) \/ ApproveRename(r) \/ ApproveMark(r)

Sync == SyncList \/ \E n \in NodeId : SyncApprove(n)

Next ==
    \/ \E g \in Gateways : CreateGateway(g) \/ Join(g)
    \/ \E d \in Devices : Touch(d) \/ JoinWithKey(d) \/ Reject(d)
    \/ \E r \in Requests :
         \/ HandlerStep(r) \/ HeadscaleFails(r)
         \/ \E g \in Gateways :
              \/ FinalizeFind(r, g) \/ DeleteFind(r, g)
              \/ \E name \in Chosen : RenameRead(r, g, name)
         \/ \E d \in Devices : ApproveRegister(r, d)
    \/ Sync

Spec == Init /\ [][Next]_vars

-----------------------------------------------------------------------------
(* Properties *)

\* The shapes of Headscale's nodes, the two tables and the handlers.
TypeOK ==
    /\ orderly \in BOOLEAN
    /\ node \in [NodeId -> [owner : (-MaxDevices)..MaxGateways, life : 0..MaxLives,
                            name : Names \cup {NoName}, route : Route]]
    /\ gateway \in [Gateways -> [status : GatewayStatus, life : 0..MaxLives,
                                 hostname : Names \cup {NoName}, exit : {0} \cup NodeId]]
    /\ registration \in [Devices -> [status : RegistrationStatus, node : {0} \cup NodeId]]
    /\ request \in [Requests -> [kind : Kind, pc : Pc, on : Nat, name : Names \cup {NoName},
                                 node : {0} \cup NodeId]]
    /\ todo \subseteq NodeId
    /\ renames \in 0..MaxRenames /\ faults \in 0..MaxFaults

\* A rename that outlives its gateway writes its name to the next gateway's row,
\* which then finds whatever node took the name.
NoRenameRace == orderly \/ renames = 0

\* find_gateway_headscale_node's "Locate a gateway's Headscale node by Tailscale IP
\* and/or known hostnames": with careful operators, what it finds when nothing is
\* under way is a node of the gateway.
FoundIsOwn ==
    orderly /\ IsQuiet => \A g \in Gateways :
        gateway[g].status \in {"pending", "ready"} /\ Found(g) # 0 => node[Found(g)].owner = g

\* An admitted device is on the tailnet as the node its row names: no deletion
\* or rename of a gateway, found by name, takes the device's node, and a second
\* approval does not register it twice (without a rename race).
ApprovedOnMesh ==
    NoRenameRace => \A d \in Devices : registration[d].status = "approved" =>
        registration[d].node \in Nodes /\ node[registration[d].node].owner = -d

\* "mesh client (not exit provider)": no device's exit route is ever approved,
\* by its own approval, by a gateway that is finalized, or by the periodic sync
\* (without a rename race).
DeviceNeverExit == NoRenameRace => \A n \in Nodes : node[n].route = "approved" => Tagged(n)

\* A deletion only removes a node of the gateway that is deleted, although it
\* looks for it by names that others may have (without a rename race).
OwnNodeDeleted ==
    [][NoRenameRace => \A n \in NodeId : n \in Nodes /\ n \notin Nodes' =>
         \E r \in Requests : request[r].kind = "delete" /\ request[r].on = node[n].owner]_vars

\* With careful operators and a Headscale that answers, exit_node_id is the
\* address of the gateway's own node of this life, not of one left behind by a
\* deleted gateway whose name came back, and the row's tailscale_hostname is that
\* node's name whenever no handler is under way.
ExitIsOwn ==
    orderly /\ faults = 0 => \A g \in Gateways :
        LET n == node[gateway[g].exit] IN
        gateway[g].status = "ready" /\ gateway[g].exit # 0 =>
            /\ n.owner = g /\ n.life = gateway[g].life
            /\ IsQuiet => n.name = gateway[g].hostname

\* With careful operators the dashboard shows a READY gateway's own node in its
\* row, renamed or not, and never offers it among the unassigned exit nodes.
DashboardShowsOwn ==
    orderly /\ faults = 0 => \A g \in Gateways : gateway[g].status = "ready" =>
        \E n \in ExitNodes \ Unassigned :
            MatchExitNode(g) = n /\ node[n].owner = g /\ node[n].life = gateway[g].life

=============================================================================
