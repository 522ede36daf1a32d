---------------------------- MODULE ResourcePools ----------------------------
(***************************************************************************)
(* What a gateway is given when it is created: a name, an address and a UDP *)
(* port on its worker, and in a peer group an address of the group's LAN.   *)
(* A free one is read, and written some statements later; a Headscale call  *)
(* lies in between.  The first INSERT takes the write lock of the database,  *)
(* which is held until the commit: from there on a creation is one step, and *)
(* everything before it may be stale.  (The WireGuard subnet of a gateway is *)
(* a function of its id.)                                                   *)
(*                                                                         *)
(* LAN addresses are the offsets 0..LanTop of the group's subnet, whose     *)
(* first is the network's and whose last is the broadcast address.          *)
(***************************************************************************)
EXTENDS Integers, FiniteSets, FiniteSetsExt

CONSTANTS
    Workers, Requests, GroupNames,
    MaxIp,       \* a worker's pool of VM addresses is 1..MaxIp
    MaxPort,     \* a worker's pool of UDP ports is 1..MaxPort
    LanTop,      \* the broadcast address of a LAN
    Starts,      \* start addresses of groups
    MaxCount,    \* bound: gateways in one batch (64)
    MaxGateways, \* bound: ids of gateways
    MaxGroups,   \* bound: ids of groups
    MaxCreates   \* bound: requests for gateways

ASSUME PoolsAssumption ==
    /\ MaxIp \in Nat /\ MaxPort \in Nat /\ LanTop \in Nat /\ Starts \subseteq 0..LanTop
ASSUME BoundsAssumption ==
    MaxCount \in Nat \ {0} /\ MaxGateways \in Nat /\ MaxGroups \in Nat /\ MaxCreates \in Nat

VARIABLES
    gateway,    \* rows of gateways, by id
    group,      \* rows of peer groups, by id
    ipAlloc,    \* ip_allocations of VMs, per worker
    portAlloc,  \* port_allocations, per worker
    req,        \* what each request for gateways is doing
    orderly,    \* nobody else creates in, or deletes, the group of a batch under way
    creates

vars == <<gateway, group, ipAlloc, portAlloc, req, orderly, creates>>
pools == <<ipAlloc, portAlloc>>

Ids == 1..MaxGateways
GroupIds == 1..MaxGroups
GatewayNames == 0..MaxGateways
NoGateway == [live |-> FALSE]
NoGroup == [live |-> FALSE]
Gateways == {i \in Ids : gateway[i].live}
Groups == {g \in GroupIds : group[g].live}
On(w) == {i \in Gateways : gateway[i].worker = w}
Members(g) == {i \in Gateways : gateway[i].group = g}
NextId(taken) == Max(taken \cup {0}) + 1

-----------------------------------------------------------------------------
(* Reading what is free; 0 or -1 when nothing is *)

First(free) == IF free = {} THEN -1 ELSE Min(free)

\* next_sequential_name
NextName == First(GatewayNames \ {gateway[i].name : i \in Gateways})

\* allocate_vm_ip
FreeIp(w) == First((1..MaxIp) \ (ipAlloc[w] \cup {gateway[i].ip : i \in On(w)}))

\* allocate_udp_port
FreePort(w) == First((1..MaxPort) \ (portAlloc[w] \cup {gateway[i].port : i \in On(w)}))

\* allocate_lan_ip: up to the end of the network, broadcast address included.
FreeLan(g, start) ==
    First({a \in start..LanTop : \A i \in Members(g) : gateway[i].lan # a})

\* Mutant: the whole network is counted, not its hosts.
CapacityWithBroadcast(g) ==
    Max({0, Cardinality(group[g].start..LanTop) - Cardinality(Members(g))})

\* remaining_lan_capacity: the hosts from the start on, less the gateways there are.
Capacity(g) ==
    Max({0, Cardinality({a \in 1..(LanTop - 1) : a >= group[g].start}) - Cardinality(Members(g))})

-----------------------------------------------------------------------------
(* Peer groups *)

\* create_group: validated, and the name is unique.
CreateGroup(name, w, start) ==
    /\ NextId(Groups) \in GroupIds
    /\ \A g \in Groups : group[g].name # name
    /\ group' = [group EXCEPT ![NextId(Groups)] =
                    [live |-> TRUE, name |-> name, worker |-> w, start |-> start]]
    /\ UNCHANGED <<gateway, pools, req, orderly, creates>>

\* rename_group
RenameGroup(g, name) ==
    /\ g \in Groups
    /\ \A h \in Groups : group[h].name # name
    /\ group' = [group EXCEPT ![g].name = name]
    /\ UNCHANGED <<gateway, pools, req, orderly, creates>>

IsBatch(r) == req[r].pc # "idle" /\ req[r].group # 0
IsUndisturbed(g) == orderly => \A r \in Requests : IsBatch(r) => req[r].group # g

\* delete_group: only gateways that are being deleted may be left; they lose their group.
DeleteGroup(g) ==
    /\ g \in Groups
    /\ IsUndisturbed(g)
    /\ \A i \in Members(g) : gateway[i].deleting
    /\ group' = [group EXCEPT ![g] = NoGroup]
    /\ gateway' = [i \in Ids |-> IF i \in Members(g) THEN [gateway[i] EXCEPT !.group = 0]
                                 ELSE gateway[i]]
    /\ UNCHANGED <<pools, req, orderly, creates>>

-----------------------------------------------------------------------------
(* Creation of gateways *)

\* start: the start address of the group's row, while the session has it.
Idle == [pc |-> "idle", ui |-> FALSE, group |-> 0, start |-> -1, worker |-> "none",
         left |-> 0, lan |-> -1, name |-> -1, ip |-> -1, port |-> 0]
Goes(r, pc) == req' = [req EXCEPT ![r].pc = pc]
Ends(r) == req' = [req EXCEPT ![r] = Idle]
Begin(r, rec) ==
    /\ req[r].pc = "idle"
    /\ creates < MaxCreates
    /\ creates' = creates + 1
    /\ req' = [req EXCEPT ![r] = rec]
    /\ UNCHANGED <<gateway, group, pools, orderly>>

\* create_gateway from the API, possibly with a port, or from the console.
BeginSingle(r, w, ui, port) ==
    /\ ui => port = 0
    /\ Begin(r, [Idle EXCEPT !.pc = "name", !.ui = ui, !.worker = w, !.left = 1, !.port = port])

\* create_gateways of a group: no more than there are addresses.
BeginBatch(r, g, ui, count) ==
    /\ g \in Groups
    /\ count <= Capacity(g)
    /\ IsUndisturbed(g)
    /\ Begin(r, [Idle EXCEPT !.pc = "lan", !.ui = ui, !.group = g, !.start = group[g].start,
                             !.worker = group[g].worker, !.left = count])

\* The first turn of its loop, on the group's row as create_gateways read it, which
\* may have gone since; the gateways are read now.
PickFirstLan(r) ==
    LET lan == FreeLan(req[r].group, req[r].start)
    IN /\ req[r].pc = "lan" /\ req[r].start # -1
       /\ req' = [req EXCEPT ![r] =
                     IF lan = -1 THEN Idle ELSE [@ EXCEPT !.pc = "name", !.start = -1, !.lan = lan]]
       /\ UNCHANGED <<gateway, group, pools, orderly, creates>>

\* Another turn: the commit has expired the group's row, which is read again; one
\* that has gone is an error.
PickLan(r) ==
    LET g == req[r].group
        lan == FreeLan(g, group[g].start)
    IN /\ req[r].pc = "lan" /\ req[r].start = -1
       /\ req' = [req EXCEPT ![r] =
                     IF g \notin Groups \/ lan = -1 THEN Idle
                     ELSE [@ EXCEPT !.pc = "name", !.worker = group[g].worker, !.lan = lan]]
       /\ UNCHANGED <<gateway, group, pools, orderly, creates>>

\* _next_gateway_name, or a name that the API gives; one is enough.
PickName(r) ==
    /\ req[r].pc = "name"
    /\ \E n \in {NextName, MaxGateways} \cap GatewayNames :
          /\ n = NextName \/ (~req[r].ui /\ req[r].group = 0)
          /\ \A i \in Gateways : gateway[i].name # n
          /\ req' = [req EXCEPT ![r].pc = "preauth", ![r].name = n]
    /\ UNCHANGED <<gateway, group, pools, orderly, creates>>

\* create_gateway_preauth_key, then the read of allocate_vm_ip.  Headscale may fail,
\* and the pool be empty; nothing has been written.
Preauth(r) ==
    /\ req[r].pc = "preauth"
    /\ \/ Ends(r)
       \/ /\ FreeIp(req[r].worker) # -1
          /\ req' = [req EXCEPT ![r].pc = "insert", ![r].ip = FreeIp(req[r].worker)]
    /\ UNCHANGED <<gateway, group, pools, orderly, creates>>

\* Mutant: the allocation's constraint is missing.
IpFitsAnyway(r) == TRUE

\* uq_ip_worker_address
IpFits(r) == req[r].ip \notin ipAlloc[req[r].worker]

\* udp_port = request.udp_port or allocate_udp_port(...)
PortFor(r) == IF req[r].port # 0 THEN req[r].port ELSE FreePort(req[r].worker)

\* uq_gateway_worker_udp_port, and the unique name.
RowFits(r) ==
    /\ \A i \in Gateways : gateway[i].name # req[r].name
    /\ \A i \in On(req[r].worker) : gateway[i].port # PortFor(r)

\* After a commit: the next of the batch, or the end.
After(r) ==
    IF req[r].left = 1 THEN Idle
    ELSE [req[r] EXCEPT !.pc = "lan", !.left = @ - 1, !.lan = -1, !.name = -1, !.ip = -1]

Insert(r) ==
    /\ req[r].pc = "insert"
    /\ IpFits(r) /\ PortFor(r) # -1 /\ RowFits(r)
    /\ NextId(Gateways) \in Ids
    /\ gateway' = [gateway EXCEPT ![NextId(Gateways)] =
                      [live |-> TRUE, name |-> req[r].name, worker |-> req[r].worker,
                       ip |-> req[r].ip, port |-> PortFor(r), group |-> req[r].group,
                       lan |-> req[r].lan, deleting |-> FALSE]]
    /\ ipAlloc' = [ipAlloc EXCEPT ![req[r].worker] = @ \cup {req[r].ip}]
    /\ portAlloc' = [portAlloc EXCEPT ![req[r].worker] =
                        IF req[r].port # 0 THEN @ ELSE @ \cup {PortFor(r)}]
    /\ req' = [req EXCEPT ![r] = After(r)]
    /\ UNCHANGED <<group, orderly, creates>>

\* A constraint is violated: an error, and get_db rolls back.
InsertRefused(r) ==
    /\ req[r].pc = "insert"
    /\ ~IpFits(r) \/ (PortFor(r) # -1 /\ ~RowFits(r))
    /\ Ends(r)
    /\ UNCHANGED <<gateway, group, pools, orderly, creates>>

\* "No available UDP ports": the API raises and get_db rolls back; the console's
\* handler answers with a redirect, and get_db commits the address.
NoPort(r) ==
    /\ req[r].pc = "insert"
    /\ IpFits(r) /\ PortFor(r) = -1
    /\ ipAlloc' = [ipAlloc EXCEPT ![req[r].worker] = IF req[r].ui THEN @ \cup {req[r].ip} ELSE @]
    /\ Ends(r)
    /\ UNCHANGED <<gateway, group, portAlloc, orderly, creates>>

-----------------------------------------------------------------------------
(* Deletion *)

\* request_delete_gateway
RequestDelete(i) ==
    /\ i \in Gateways
    /\ gateway' = [gateway EXCEPT ![i].deleting = TRUE]
    /\ UNCHANGED <<group, pools, req, orderly, creates>>

\* Mutant: the port is not released.
ExecuteDeleteKeepsPort(i) ==
    /\ i \in Gateways
    /\ gateway[i].deleting
    /\ ipAlloc' = [ipAlloc EXCEPT ![gateway[i].worker] = @ \ {gateway[i].ip}]
    /\ gateway' = [gateway EXCEPT ![i] = NoGateway]
    /\ UNCHANGED <<group, portAlloc, req, orderly, creates>>

\* execute_delete_gateway: both allocations and the row in one commit.
ExecuteDelete(i) ==
    /\ i \in Gateways
    /\ gateway[i].deleting
    /\ ipAlloc' = [ipAlloc EXCEPT ![gateway[i].worker] = @ \ {gateway[i].ip}]
    /\ portAlloc' = [portAlloc EXCEPT ![gateway[i].worker] = @ \ {gateway[i].port}]
    /\ gateway' = [gateway EXCEPT ![i] = NoGateway]
    /\ UNCHANGED <<group, req, orderly, creates>>

-----------------------------------------------------------------------------

Init ==
    /\ gateway = [i \in Ids |-> NoGateway]
    /\ group = [g \in GroupIds |-> NoGroup]
    /\ ipAlloc = [w \in Workers |-> {}]
    /\ portAlloc = [w \in Workers |-> {}]
    /\ req = [r \in Requests |-> Idle]
    /\ orderly \in BOOLEAN
    /\ creates = 0

GroupStep ==
    \/ \E n \in GroupNames, w \in Workers, s \in Starts : CreateGroup(n, w, s)
    \/ \E g \in GroupIds, n \in GroupNames : RenameGroup(g, n)
    \/ \E g \in GroupIds : DeleteGroup(g)

CreateStep(r) ==
    \/ \E w \in Workers, ui \in BOOLEAN, p \in {0, MaxPort} : BeginSingle(r, w, ui, p)
    \/ \E g \in GroupIds, ui \in BOOLEAN, n \in 1..MaxCount : BeginBatch(r, g, ui, n)
    \/ PickFirstLan(r) \/ PickLan(r) \/ PickName(r) \/ Preauth(r)
    \/ Insert(r) \/ InsertRefused(r) \/ NoPort(r)

Next ==
    \/ GroupStep
    \/ \E r \in Requests : CreateStep(r)
    \/ \E i \in Ids : RequestDelete(i) \/ ExecuteDelete(i)

Spec == Init /\ [][Next]_vars

-----------------------------------------------------------------------------
(* Properties *)

Pairs == {p \in Gateways \X Gateways : p[1] < p[2]}
OnOneWorker(p) == gateway[p[1]].worker = gateway[p[2]].worker

GatewayRow == [live : {TRUE}, name : GatewayNames, worker : Workers, ip : 1..MaxIp,
               port : 1..MaxPort, group : 0..MaxGroups, lan : -1..LanTop, deleting : BOOLEAN]

\* The shapes of the rows and requests.
TypeOK ==
    /\ \A i \in Ids : gateway[i] \in GatewayRow \cup {NoGateway}
    /\ \A g \in Groups : group[g].name \in GroupNames /\ group[g].start \in Starts
    /\ ipAlloc \in [Workers -> SUBSET (1..MaxIp)]
    /\ portAlloc \in [Workers -> SUBSET (1..MaxPort)]
    /\ \A r \in Requests : req[r].pc \in {"idle", "lan", "name", "preauth", "insert"}
                           /\ req[r].left \in 0..MaxCount
    /\ creates \in 0..MaxCreates

\* However creations, deletions and stale reads interleave, two gateways of a worker
\* never have the same VM address or UDP port, and no two the same name.
NoSharedEndpoint ==
    \A p \in Pairs :
        /\ gateway[p[1]].name # gateway[p[2]].name
        /\ OnOneWorker(p) => /\ gateway[p[1]].ip # gateway[p[2]].ip
                             /\ gateway[p[1]].port # gateway[p[2]].port

\* Every gateway's address is allocated, or the pool would hand it out again once a
\* worker's rows are read at another moment; and ports are allocated to gateways.
AllocatedWhileUsed ==
    \A w \in Workers : /\ {gateway[i].ip : i \in On(w)} \subseteq ipAlloc[w]
                       /\ portAlloc[w] \subseteq {gateway[i].port : i \in On(w)}

\* Where nobody interferes with a batch, every gateway of a group has a group, and in
\* its LAN an address, and so a macvlan slot, of its own that is not the broadcast
\* address: only the reads before the inserts see to that.
LanAddressesFit ==
    orderly => \A i \in Gateways : gateway[i].group # 0 =>
        /\ gateway[i].group \in Groups
        /\ gateway[i].lan # LanTop
        /\ \A k \in Members(gateway[i].group) \ {i} : gateway[k].lan # gateway[i].lan

=============================================================================
