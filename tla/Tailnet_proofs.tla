--------------------------- MODULE Tailnet_proofs ---------------------------
(***************************************************************************)
(* Proofs about Tailnet, for every value of its constants:                  *)
(*   TypeCorrect          Spec => []TypeOK                                 *)
(*   FindsItsOwn          Spec => []FoundIsOwn                             *)
(*   DevicesNeverExits    Spec => []DeviceNeverExit                        *)
(*   ApprovedStayOnMesh   Spec => []ApprovedOnMesh                         *)
(*   DeletesOnlyItsOwn    Spec => OwnNodeDeleted                           *)
(*   ExitNodeIsOwn        Spec => []ExitIsOwn                              *)
(*   DashboardIsRight     Spec => []DashboardShowsOwn                      *)
(* as long as operators choose no name of the form gw-NNN for a gateway.    *)
(* validate_tailscale_display_name's docstring excludes these names, its     *)
(* code lets them through: a gateway renamed to gw-002 before gateway gw-002 *)
(* is created is found for that one, which then takes its node for its own.  *)
(*                                                                         *)
(* Handlers find nodes by name, and the properties say whose nodes they     *)
(* find.  So IInv says who has which name: at every moment at most one live  *)
(* node has it, and the names that a gateway goes by are on no node but its  *)
(* own, although names move from node to node and the row follows later.    *)
(***************************************************************************)
EXTENDS Tailnet, TLAPS

\* No operator chooses the internal name of a gateway.
NoGatewayNames == Chosen \cap {GatewayName(g) : g \in Gateways} = {}

Busy(r) == request[r].pc # "idle"
Does(r, kind) == Busy(r) /\ request[r].kind = kind
OwnerOf(r) == IF request[r].kind = "approve" THEN -request[r].on ELSE request[r].on
\* The node of the gateway has its new name, and the row has not.
Renaming(g) == \E r \in Requests : Does(r, "rename") /\ request[r].pc = "commit" /\ request[r].on = g

Subjects(kind) == IF kind = "approve" THEN Devices ELSE Gateways
Steps(kind) ==
    CASE kind = "finalize" -> {"record"}
      [] kind = "rename"   -> {"apply", "commit"}
      [] kind = "delete"   -> {"remove", "commit"}
      [] kind = "approve"  -> {"routes", "list", "rename", "mark"}

\* What a handler works on, and what it is about to do.
HandlersInv ==
    /\ \A r \in Requests : Busy(r) =>
         request[r].on \in Subjects(request[r].kind) /\ request[r].pc \in Steps(request[r].kind)
    /\ \A r \in Requests : Does(r, "rename") => request[r].name \in Chosen
    /\ \A r \in Requests : request[r].pc = "rename" => request[r].name \in ExitNames
    /\ \A n \in todo : node[n].owner > 0
    /\ renames = 0 => \A r \in Requests : ~Does(r, "rename")
    /\ orderly => \A r, s \in Requests : Busy(r) /\ Busy(s) => r = s

\* No two live nodes have a name, a name made up belongs to the node it was made up
\* for, and an internal name to a node of the gateway.
NamesInv ==
    /\ \A m, n \in Nodes : node[m].name = node[n].name => m = n
    /\ \A n \in Nodes, i \in NodeId : node[n].name = <<"dup", i>> => i = n
    /\ \A n \in Nodes, g \in Gateways : node[n].name = GatewayName(g) => node[n].owner = g

\* The names in the rows.  Without renames they are the internal ones; an orderly
\* rename leaves row and node with the same name.
RowNamesInv ==
    /\ renames = 0 => \A g \in Gateways :
         gateway[g].status # "absent" => gateway[g].hostname = GatewayName(g)
    /\ orderly =>
         /\ \A g \in Gateways : gateway[g].status = "pending" => gateway[g].hostname = GatewayName(g)
         /\ \A g \in Gateways : gateway[g].status = "ready" /\ ~Renaming(g) =>
              \/ gateway[g].hostname = GatewayName(g)
              \/ \E n \in Nodes : node[n].owner = g /\ node[n].name = gateway[g].hostname
         /\ \A r \in Requests : Does(r, "rename") =>
              /\ gateway[request[r].on].status = "ready"
              /\ request[r].pc = "commit" =>
                   request[r].node \in Nodes /\ node[request[r].node].name = request[r].name
         /\ \A r \in Requests : Does(r, "delete") => gateway[request[r].on].status = "deleting"

\* What a handler found, and what a row names, is a node of the gateway or device.
OwnersInv ==
    NoRenameRace =>
       /\ \A r \in Requests : Busy(r) /\ request[r].node # 0 => node[request[r].node].owner = OwnerOf(r)
       /\ \A r \in Requests : Does(r, "approve") => request[r].node \in Nodes
       /\ \A g \in Gateways : gateway[g].exit # 0 => node[gateway[g].exit].owner = g
       /\ DeviceNeverExit /\ ApprovedOnMesh

IInv == TypeOK /\ HandlersInv /\ NamesInv /\ RowNamesInv /\ OwnersInv

\* A machine joins once.
OnceInv ==
    \A m, n \in NodeId : node[m].owner > 0 /\ node[m].owner = node[n].owner
                         /\ node[m].life = node[n].life => m = n

\* With careful operators and a Headscale that answers, a gateway has no live node but
\* that of its life, known by its row's name, and its row has the node's address.
Careful ==
    /\ \A r \in Requests : Does(r, "finalize") =>
         LET g == request[r].on IN
         /\ gateway[g].status = "pending"
         /\ \E n \in Nodes : node[n].owner = g
    /\ \A r \in Requests : Does(r, "rename") => request[r].node = gateway[request[r].on].exit
    /\ \A r \in Requests : Does(r, "delete") =>
         LET g == request[r].on IN
         /\ \E n \in NodeId : node[n].owner = g /\ node[n].life = gateway[g].life
         /\ \A n \in Nodes : node[n].owner = g => request[r].pc = "remove" /\ n = request[r].node
    /\ \A g \in Gateways : gateway[g].status = "deleting" =>
         \E r \in Requests : Does(r, "delete") /\ request[r].on = g
    /\ \A n \in Nodes, g \in Gateways : node[n].owner = g =>
         /\ gateway[g].status # "absent" /\ node[n].life = gateway[g].life
         /\ ~Renaming(g) => node[n].name = gateway[g].hostname
    /\ \A g \in Gateways : gateway[g].status = "ready" =>
         gateway[g].exit \in Nodes /\ node[gateway[g].exit].owner = g

CarefulInv == OnceInv /\ (orderly /\ faults = 0 => Careful)

-----------------------------------------------------------------------------
(* Lookups and names *)

\* The first node of a list is in it, if there is one.
LEMMA FirstIn == ASSUME NEW ids PROVE First(ids) = 0 \/ First(ids) \in ids
  BY DEF First

\* find_gateway_headscale_node and get_node_tailscale_ip_by_hostname find what they
\* look for, or nothing.
LEMMA FoundIn ==
    ASSUME NEW g, Found(g) # 0
    PROVE  /\ Found(g) \in Nodes
           /\ \/ Found(g) = gateway[g].exit
              \/ node[Found(g)].name \in {gateway[g].hostname, GatewayName(g)}
  BY FirstIn DEF Found

LEMMA IpOfIn ==
    ASSUME NEW name, IpOf(name) # 0
    PROVE  IpOf(name) \in Nodes /\ node[IpOf(name)].name = name
  BY FirstIn DEF IpOf

LEMMA ExitAddressIn ==
    ASSUME NEW g
    PROVE  \/ ExitAddress(g) \in Nodes
              /\ node[ExitAddress(g)].name \in {gateway[g].hostname, GatewayName(g)}
           \/ ExitAddress(g) = gateway[g].exit
  BY IpOfIn DEF ExitAddress

\* A name is of one kind.
LEMMA KindsOfNames ==
    /\ \A g \in Gateways, h \in Gateways : GatewayName(g) = GatewayName(h) => g = h
    /\ \A g \in Gateways, i \in NodeId : GatewayName(g) # <<"dup", i>>
    /\ \A g \in Gateways, d \in Devices : GatewayName(g) # <<"dev", d>>
    /\ \A i, j \in NodeId : <<"dup", i>> = <<"dup", j>> => i = j
    /\ \A i \in NodeId, d \in Devices : <<"dev", d>> # <<"dup", i>>
    /\ \A i \in NodeId : <<"dup", i>> \notin ExitNames
    /\ \A g \in Gateways : GatewayName(g) \notin ExitNames
  BY DEF GatewayName, ExitNames

GivenNames == Chosen \cup ExitNames

\* What operators choose is neither made up by Headscale nor, here, internal.
LEMMA KindsOfChosen ==
    ASSUME NoGatewayNames, NEW name \in GivenNames
    PROVE  /\ \A i \in NodeId : name # <<"dup", i>>
           /\ \A g \in Gateways : name # GatewayName(g)
           /\ name \in Names
  BY ChosenAssumption, KindsOfNames DEF NoGatewayNames, Names, GivenNames

LEMMA FreeNameType ==
    ASSUME NEW n \in NodeId, NEW name \in Names
    PROVE  FreeName(n, name) \in Names
  BY DEF FreeName, Names

\* Routes change, machines and names do not.
SameNodes ==
    \A n \in NodeId :
        /\ node'[n].owner = node[n].owner /\ node'[n].life = node[n].life
        /\ node'[n].name = node[n].name
        /\ node'[n].route = "deleted" <=> node[n].route = "deleted"

LEMMA SameNodesSame ==
    ASSUME SameNodes
    PROVE  Nodes' = Nodes /\ (NamesInv => NamesInv')
<1>1. Nodes' = Nodes
  BY DEF SameNodes, Nodes
<1>2. \A n \in Nodes : n \in NodeId
  BY DEF Nodes
<1>. QED  BY <1>1, <1>2 DEF SameNodes, NamesInv

\* A machine joins: its name is new, or made up for it.
LEMMA JoinNames ==
    ASSUME TypeOK, NamesInv, NEW n \in NodeId, IsNextNode(n), NEW name, NEW machine,
           node' = [node EXCEPT ![n] = machine], machine.name = FreeName(n, name),
           \/ name = GatewayName(machine.owner) /\ machine.owner \in Gateways
           \/ \E d \in Devices : name = <<"dev", d>>
    PROVE  NamesInv'
<1>1. Nodes' \subseteq Nodes \cup {n} /\ n \notin Nodes
  BY DEF Nodes, IsNextNode, TypeOK
<1>2. \A m \in Nodes : m \in NodeId /\ m # n /\ node'[m] = node[m]
  BY <1>1 DEF Nodes, TypeOK
<1>3. node'[n] = machine
  BY DEF TypeOK
<1>4. \A m \in Nodes : node[m].name # machine.name
  BY <1>1, KindsOfNames DEF FreeName, TakenNames, NamesInv
<1>5. \A i \in NodeId : machine.name = <<"dup", i>> => i = n
  BY KindsOfNames DEF FreeName
<1>6. \A g \in Gateways : machine.name = GatewayName(g) => machine.owner = g
  BY KindsOfNames DEF FreeName
<1>7. \A m, k \in Nodes' : node'[m].name = node'[k].name => m = k
  BY <1>1, <1>2, <1>3, <1>4 DEF NamesInv
<1>8. \A m \in Nodes', i \in NodeId : node'[m].name = <<"dup", i>> => i = m
  BY <1>1, <1>2, <1>3, <1>5 DEF NamesInv
<1>9. \A m \in Nodes', g \in Gateways : node'[m].name = GatewayName(g) => node'[m].owner = g
  BY <1>1, <1>2, <1>3, <1>6 DEF NamesInv
<1>. QED  BY <1>7, <1>8, <1>9 DEF NamesInv, GatewayName

\* headscale nodes rename, that is not refused: the name moves to a node.
Renamed(k, name) == node' = [node EXCEPT ![k].name = name]

LEMMA RenameNames ==
    ASSUME TypeOK, NamesInv, NoGatewayNames, NEW k \in Nodes, NEW name \in GivenNames,
           \A n \in Nodes \ {k} : node[n].name # name,
           Renamed(k, name)
    PROVE  /\ NamesInv' /\ Nodes' = Nodes /\ node'[k].name = name
           /\ \A n \in NodeId : /\ node'[n].owner = node[n].owner /\ node'[n].life = node[n].life
                                /\ node'[n].route = node[n].route
                                /\ n # k => node'[n].name = node[n].name
<1>1. \A n \in NodeId : /\ node'[n].owner = node[n].owner /\ node'[n].life = node[n].life
                        /\ node'[n].route = node[n].route
                        /\ n # k => node'[n].name = node[n].name
  BY DEF TypeOK, Renamed
<1>2. Nodes' = Nodes /\ \A n \in Nodes : n \in NodeId
  BY <1>1 DEF Nodes
<1>3. node'[k].name = name
  BY <1>2 DEF TypeOK, Renamed
<1>4. (\A i \in NodeId : name # <<"dup", i>>) /\ (\A g \in Gateways : name # GatewayName(g))
  BY KindsOfChosen
<1>5. \A m, n \in Nodes : node'[m].name = node'[n].name => m = n
  BY <1>1, <1>2, <1>3 DEF NamesInv
<1>6. ASSUME NEW n \in Nodes, NEW i \in NodeId, node'[n].name = <<"dup", i>>
      PROVE  i = n
  <2>1. n # k
    BY <1>3, <1>4, <1>6
  <2>. QED  BY <1>1, <1>2, <1>6, <2>1 DEF NamesInv
<1>7. \A n \in Nodes, g \in Gateways : node'[n].name = GatewayName(g) => node'[n].owner = g
  BY <1>1, <1>2, <1>3, <1>4 DEF NamesInv
<1>8. NamesInv'
  BY <1>2, <1>5, <1>6, <1>7 DEF NamesInv, GatewayName
<1>. QED  BY <1>1, <1>2, <1>3, <1>8

\* A gateway that waits for its exit node, or has it, goes by no name of another's
\* node, and its address is of none.
LEMMA OwnNames ==
    ASSUME IInv, NoRenameRace, NEW g \in Gateways, gateway[g].status \in {"pending", "ready"},
           orderly => \A r \in Requests : ~Does(r, "rename"), NEW n \in Nodes,
           n = gateway[g].exit \/ node[n].name \in {gateway[g].hostname, GatewayName(g)}
    PROVE  node[n].owner = g
<1>1. n # 0
  BY DEF Nodes, NodeId
<1>2. CASE n = gateway[g].exit
  BY <1>1, <1>2 DEF IInv, OwnersInv
<1>3. CASE node[n].name = GatewayName(g)
  BY <1>3 DEF IInv, NamesInv
<1>4. CASE node[n].name = gateway[g].hostname /\ gateway[g].hostname # GatewayName(g)
  <2>1. orderly /\ gateway[g].status = "ready" /\ ~Renaming(g)
    BY <1>4 DEF IInv, RowNamesInv, NoRenameRace, Renaming
  <2>2. PICK m \in Nodes : node[m].owner = g /\ node[m].name = gateway[g].hostname
    BY <1>4, <2>1 DEF IInv, RowNamesInv
  <2>. QED  BY <1>4, <2>2 DEF IInv, NamesInv
<1>. QED  BY <1>2, <1>3, <1>4

-----------------------------------------------------------------------------
(* Steps of machines, tables and the sync that start and end no handler *)

LEMMA CreateKeeps ==
    ASSUME IInv, NEW g \in Gateways, CreateGateway(g)
    PROVE  IInv'
<1>. USE DEF CreateGateway
<1>1. TypeOK'
  <2>1. GatewayName(g) \in Names
    BY DEF Names
  <2>. QED  BY <2>1, BoundsAssumption DEF IInv, TypeOK, GatewayStatus
<1>2. HandlersInv' /\ NamesInv'
  BY DEF IInv, HandlersInv, NamesInv, Busy, Does, Nodes
<1>3. \A h \in Gateways : h # g => gateway'[h] = gateway[h]
  BY DEF IInv, TypeOK
<1>4. gateway'[g].status = "pending" /\ gateway'[g].hostname = GatewayName(g) /\ gateway'[g].exit = 0
  BY DEF IInv, TypeOK
<1>5. RowNamesInv'
  <2>1. \A r \in Requests : orderly /\ (Does(r, "rename") \/ Does(r, "delete")) => request[r].on # g
    BY DEF IInv, RowNamesInv
  <2>. QED  BY <1>3, <1>4, <2>1
            DEF IInv, HandlersInv, RowNamesInv, Busy, Does, Renaming, Nodes, GatewayName
<1>6. OwnersInv'
  BY <1>3, <1>4 DEF IInv, OwnersInv, NoRenameRace, Busy, Does, OwnerOf, Nodes,
                    DeviceNeverExit, ApprovedOnMesh, Tagged
<1>. QED  BY <1>1, <1>2, <1>5, <1>6 DEF IInv

\* A machine joins: nobody knows its id yet, and nobody's node is touched.
LEMMA JoinKeeps ==
    ASSUME IInv, NEW n \in NodeId, IsNextNode(n), NEW machine, NEW name \in Names,
           machine \in [owner : ((-MaxDevices)..MaxGateways) \ {0}, life : 0..MaxLives,
                        name : Names \cup {NoName}, route : {"none", "available"}],
           node' = [node EXCEPT ![n] = machine], machine.name = FreeName(n, name),
           \/ name = GatewayName(machine.owner) /\ machine.owner \in Gateways
           \/ \E d \in Devices : name = <<"dev", d>>,
           UNCHANGED <<orderly, gateway, registration, request, todo, renames, faults>>
    PROVE  IInv'
<1>1. TypeOK'
  BY DEF IInv, TypeOK, Route
<1>2. NamesInv'
  BY JoinNames DEF IInv
<1>3. /\ node[n].owner = 0 /\ node'[n] = machine
      /\ \A m \in NodeId : m # n => node'[m] = node[m]
      /\ \A m \in Nodes : m \in NodeId /\ m # n /\ m \in Nodes'
      /\ Nodes' \subseteq Nodes \cup {n}
  BY DEF IInv, TypeOK, IsNextNode, Nodes
<1>4. \A m \in NodeId : node[m].owner # 0 => node'[m] = node[m]
  BY <1>3
<1>5. HandlersInv'
  <2>1. \A m \in todo : node'[m].owner > 0
    BY <1>3 DEF IInv, TypeOK, HandlersInv
  <2>. QED  BY <2>1 DEF IInv, HandlersInv, Busy, Does
<1>6. RowNamesInv'
  BY <1>3 DEF IInv, TypeOK, HandlersInv, RowNamesInv, Busy, Does, Renaming, GatewayName
<1>7. OwnersInv'
  <2>. SUFFICES ASSUME NoRenameRace PROVE OwnersInv!2'
    BY DEF OwnersInv, NoRenameRace
  <2>1. \A r \in Requests : Busy(r) /\ request[r].node # 0 =>
          node'[request[r].node].owner = OwnerOf(r)
    <3>1. \A r \in Requests : Busy(r) => OwnerOf(r) # 0
      BY BoundsAssumption DEF IInv, HandlersInv, Subjects, OwnerOf, Gateways, Devices
    <3>. QED  BY <1>4, <3>1 DEF IInv, TypeOK, OwnersInv
  <2>2. \A g \in Gateways : gateway[g].exit # 0 => node'[gateway[g].exit].owner = g
    BY <1>4 DEF IInv, TypeOK, OwnersInv, Gateways
  <2>3. DeviceNeverExit' /\ ApprovedOnMesh'
    BY <1>3 DEF IInv, OwnersInv, NoRenameRace, DeviceNeverExit, ApprovedOnMesh, Tagged
  <2>4. \A r \in Requests : Does(r, "approve") => request[r].node \in Nodes'
    BY <1>3 DEF IInv, OwnersInv
  <2>. QED  BY <2>1, <2>2, <2>3, <2>4 DEF Busy, Does, OwnerOf
<1>. QED  BY <1>1, <1>2, <1>5, <1>6, <1>7 DEF IInv

LEMMA VmJoinKeeps == ASSUME IInv, NEW g \in Gateways, Join(g) PROVE IInv'
<1>1. PICK n \in NodeId :
        /\ IsNextNode(n)
        /\ node' = [node EXCEPT ![n] = [owner |-> g, life |-> gateway[g].life, route |-> "none",
                                        name |-> FreeName(n, GatewayName(g))]]
  BY DEF Join
<1>2. GatewayName(g) \in Names
  BY DEF Names
<1>3. g \in ((-MaxDevices)..MaxGateways) \ {0} /\ gateway[g].life \in 0..MaxLives
  BY BoundsAssumption DEF IInv, TypeOK, Gateways
<1>. DEFINE machine == [owner |-> g, life |-> gateway[g].life, route |-> "none",
                        name |-> FreeName(n, GatewayName(g))]
<1>4. /\ machine \in [owner : ((-MaxDevices)..MaxGateways) \ {0}, life : 0..MaxLives,
                      name : Names \cup {NoName}, route : {"none", "available"}]
      /\ machine.owner = g /\ machine.name = FreeName(n, GatewayName(g))
      /\ node' = [node EXCEPT ![n] = machine]
  BY <1>1, <1>2, <1>3, FreeNameType
<1>5. UNCHANGED <<orderly, gateway, registration, request, todo, renames, faults>>
  BY DEF Join
<1>. HIDE DEF machine
<1>. QED  BY <1>1, <1>2, <1>4, <1>5, JoinKeeps

LEMMA DeviceJoins ==
    ASSUME IInv, NEW d \in Devices, NEW n \in NodeId, DeviceNode(d, n),
           UNCHANGED <<orderly, gateway, registration, request, todo, renames, faults>>
    PROVE  IInv'
<1>1. PICK route \in {"none", "available"} :
        /\ IsNextNode(n)
        /\ node' = [node EXCEPT ![n] = [owner |-> -d, life |-> 0, name |-> FreeName(n, <<"dev", d>>),
                                        route |-> route]]
  BY DEF DeviceNode
<1>2. <<"dev", d>> \in Names
  BY DEF Names
<1>3. -d \in ((-MaxDevices)..MaxGateways) \ {0} /\ 0 \in 0..MaxLives
  BY BoundsAssumption DEF Devices
<1>. DEFINE machine == [owner |-> -d, life |-> 0, name |-> FreeName(n, <<"dev", d>>), route |-> route]
<1>4. /\ machine \in [owner : ((-MaxDevices)..MaxGateways) \ {0}, life : 0..MaxLives,
                      name : Names \cup {NoName}, route : {"none", "available"}]
      /\ machine.name = FreeName(n, <<"dev", d>>)
      /\ node' = [node EXCEPT ![n] = machine]
  BY <1>1, <1>2, <1>3, FreeNameType
<1>. HIDE DEF machine
<1>. QED  BY <1>1, <1>2, <1>4, JoinKeeps

LEMMA DevicesKeep ==
    ASSUME IInv, NEW d \in Devices, Touch(d) \/ JoinWithKey(d) \/ Reject(d)
    PROVE  IInv'
<1>1. CASE JoinWithKey(d)
  BY <1>1, DeviceJoins DEF JoinWithKey
<1>2. CASE Touch(d) \/ Reject(d)
  <2>. USE DEF TouchPending, MarkRejected
  <2>1. UNCHANGED <<orderly, node, gateway, request, todo, renames, faults>>
    BY <1>2 DEF Touch, Reject
  <2>2. /\ registration' \in [Devices -> [status : RegistrationStatus, node : {0} \cup NodeId]]
        /\ \A e \in Devices :
              registration'[e].status = "approved" => registration'[e] = registration[e]
    <3>1. CASE Touch(d)
      BY <3>1 DEF Touch, IInv, TypeOK, RegistrationStatus
    <3>2. CASE Reject(d)
      BY <3>2 DEF Reject, IInv, TypeOK, RegistrationStatus
    <3>. QED  BY <1>2, <3>1, <3>2
  <2>3. TypeOK'
    BY <2>1, <2>2 DEF IInv, TypeOK
  <2>4. HandlersInv' /\ NamesInv'
    BY <2>1 DEF IInv, HandlersInv, NamesInv, Busy, Does, Nodes
  <2>5. RowNamesInv'
    BY <2>1 DEF IInv, RowNamesInv, Busy, Does, Renaming, Nodes, GatewayName
  <2>6. OwnersInv'
    BY <2>1, <2>2 DEF IInv, OwnersInv, NoRenameRace, Busy, Does, OwnerOf, Nodes,
                      DeviceNeverExit, ApprovedOnMesh, Tagged
  <2>. QED  BY <2>3, <2>4, <2>5, <2>6 DEF IInv
<1>. QED  BY <1>1, <1>2

\* Approving routes: machines and names stay, and no device's route is approved.
LEMMA RoutesKeep ==
    ASSUME IInv, TypeOK', HandlersInv', SameNodes,
           \A n \in NodeId : node'[n].route = "approved" =>
               node[n].route = "approved" \/ (NoRenameRace => Tagged(n)),
           UNCHANGED <<orderly, gateway, registration, renames>>,
           \A r \in Requests :
               \/ request'[r] = request[r]
               \/ Does(r, "approve") /\ request'[r] = [request[r] EXCEPT !.pc = "list"]
    PROVE  IInv'
<1>1. Nodes' = Nodes /\ NamesInv' /\ \A n \in Nodes : n \in NodeId
  BY SameNodesSame DEF IInv, Nodes
<1>2. \A n \in NodeId : /\ node'[n].owner = node[n].owner /\ node'[n].life = node[n].life
                        /\ node'[n].name = node[n].name
  BY DEF SameNodes
<1>3. \A r \in Requests :
        /\ request'[r].kind = request[r].kind /\ request'[r].on = request[r].on
        /\ request'[r].node = request[r].node /\ request'[r].name = request[r].name
        /\ Busy(r)' <=> Busy(r)
        /\ request'[r].kind # "approve" => request'[r].pc = request[r].pc
  BY DEF IInv, TypeOK, Busy, Does
<1>4. RowNamesInv'
  BY <1>1, <1>2, <1>3 DEF IInv, HandlersInv, RowNamesInv, Does, Renaming, GatewayName
<1>5. OwnersInv'
  BY <1>1, <1>2, <1>3 DEF IInv, TypeOK, OwnersInv, NoRenameRace, Does, OwnerOf,
                    DeviceNeverExit, ApprovedOnMesh, Tagged
<1>. QED  BY <1>1, <1>4, <1>5 DEF IInv

\* The periodic sync approves what it listed: nodes of gateways.
LEMMA SyncKeeps == ASSUME IInv, Sync PROVE IInv'
<1>1. CASE SyncList
  <2>1. todo' \subseteq Nodes /\ \A n \in todo' : node[n].owner > 0
    BY <1>1 DEF SyncList, Approvable, Tagged
  <2>2. TypeOK' /\ HandlersInv'
    BY <1>1, <2>1 DEF SyncList, IInv, TypeOK, HandlersInv, Busy, Does, Nodes
  <2>3. SameNodes
    BY <1>1 DEF SyncList, SameNodes
  <2>. QED  BY <1>1, <2>2, <2>3, RoutesKeep DEF SyncList, Busy
<1>2. ASSUME NEW n \in NodeId, SyncApprove(n) PROVE IInv'
  <2>1. node[n].owner > 0 /\ node[n].route \in Route
    BY <1>2 DEF SyncApprove, IInv, TypeOK, HandlersInv
  <2>2. Approved(node[n]) = node[n] \/ Approved(node[n]) = [node[n] EXCEPT !.route = "approved"]
    BY DEF Approved
  <2>3. node[n] \in [owner : (-MaxDevices)..MaxGateways, life : 0..MaxLives,
                     name : Names \cup {NoName}, route : Route]
    BY DEF IInv, TypeOK
  <2>4. TypeOK'
    BY <1>2, <2>2, <2>3 DEF SyncApprove, IInv, TypeOK, Route
  <2>5. SameNodes
    BY <1>2, <2>3 DEF SyncApprove, SameNodes, Approved, Nodes, IInv, TypeOK
  <2>6. HandlersInv'
    <3>1. todo' \subseteq todo
      BY <1>2 DEF SyncApprove
    <3>2. \A m \in todo' : node'[m].owner > 0
      BY <2>5, <3>1 DEF SameNodes, IInv, TypeOK, HandlersInv
    <3>. QED  BY <1>2, <3>2 DEF SyncApprove, IInv, HandlersInv, Busy, Does
  <2>7. \A m \in NodeId : node'[m].route = "approved" => node[m].route = "approved" \/ Tagged(m)
    BY <1>2, <2>1 DEF SyncApprove, Tagged, IInv, TypeOK
  <2>. QED  BY <1>2, <2>4, <2>5, <2>6, <2>7, RoutesKeep DEF SyncApprove, Busy
<1>. QED  BY <1>1, <1>2 DEF Sync

-----------------------------------------------------------------------------
(* Handlers start, go on and end *)

AnyName == Names \cup {NoName}
RequestRow == [kind : Kind, pc : Pc, on : Nat, name : Names \cup {NoName}, node : {0} \cup NodeId]

SameOwners == \A n \in NodeId : node[n].owner # 0 => node'[n].owner = node[n].owner

\* A handler starts: of an orderly operator nothing else is under way.
LEMMA BeginHandlers ==
    ASSUME IInv, NEW r \in Requests, MayStart(r), NEW new \in RequestRow,
           request' = [request EXCEPT ![r] = new],
           new.on \in Subjects(new.kind),
           <<new.kind, new.pc>> \in {<<"finalize", "record">>, <<"rename", "apply">>,
                                    <<"delete", "remove">>, <<"approve", "routes">>},
           IF new.kind = "rename" THEN new.name \in Chosen /\ renames' > 0 ELSE renames' = renames,
           orderly' = orderly, todo' = todo, SameOwners
    PROVE  /\ request' \in [Requests -> RequestRow] /\ HandlersInv'
           /\ request'[r] = new /\ request[r].pc = "idle"
           /\ \A s \in Requests : s # r => request'[s] = request[s]
           /\ orderly => \A s \in Requests : request[s].pc = "idle"
<1>1. request \in [Requests -> RequestRow]
  BY DEF IInv, TypeOK, RequestRow
<1>2. /\ request' \in [Requests -> RequestRow] /\ request'[r] = new /\ request[r].pc = "idle"
      /\ \A s \in Requests : s # r => request'[s] = request[s]
      /\ orderly => \A s \in Requests : request[s].pc = "idle"
  BY <1>1 DEF MayStart, IsQuiet
<1>3. \A n \in todo' : node'[n].owner > 0
  BY DEF IInv, TypeOK, HandlersInv, SameOwners
<1>4. \/ new.kind = "finalize" /\ new.pc = "record"
      \/ new.kind = "rename" /\ new.pc = "apply"
      \/ new.kind = "delete" /\ new.pc = "remove"
      \/ new.kind = "approve" /\ new.pc = "routes"
  OBVIOUS
<1>5. \A s \in Requests : Busy(s)' =>
        request'[s].on \in Subjects(request'[s].kind) /\ request'[s].pc \in Steps(request'[s].kind)
  BY <1>2, <1>4 DEF IInv, HandlersInv, Busy, Steps
<1>6. /\ \A s \in Requests : Does(s, "rename")' => request'[s].name \in Chosen
      /\ \A s \in Requests : request'[s].pc = "rename" => request'[s].name \in ExitNames
      /\ renames' = 0 => \A s \in Requests : ~Does(s, "rename")'
      /\ orderly => \A s, t \in Requests : Busy(s)' /\ Busy(t)' => s = t
  BY <1>2, <1>4 DEF IInv, HandlersInv, Busy, Does
<1>. QED  BY <1>2, <1>3, <1>5, <1>6 DEF HandlersInv, Subjects, Steps, Devices, Gateways, ExitNames

\* A handler ends.
LEMMA EndHandlers ==
    ASSUME IInv, NEW r \in Requests, End(r), orderly' = orderly, todo' = todo, renames' = renames,
           SameOwners
    PROVE  /\ request' \in [Requests -> RequestRow] /\ HandlersInv'
           /\ ~Busy(r)' /\ \A s \in Requests : s # r => request'[s] = request[s]
<1>1. request \in [Requests -> RequestRow] /\ Idle \in RequestRow
  BY DEF IInv, TypeOK, RequestRow, Idle, Kind, Pc
<1>2. /\ request' \in [Requests -> RequestRow] /\ request'[r] = Idle /\ ~Busy(r)'
      /\ \A s \in Requests : s # r => request'[s] = request[s]
  BY <1>1 DEF End, Busy, Idle
<1>3. \A n \in todo' : node'[n].owner > 0
  BY DEF IInv, TypeOK, HandlersInv, SameOwners
<1>4. \A s \in Requests : Busy(s)' => s # r /\ request'[s] = request[s]
  BY <1>2
<1>5. \A s \in Requests : request'[s].pc = "rename" => request'[s].name \in ExitNames
  BY <1>2 DEF IInv, HandlersInv, Idle
<1>. QED  BY <1>2, <1>3, <1>4, <1>5
          DEF IInv, HandlersInv, Busy, Does, Subjects, Steps, Devices, Gateways, ExitNames

\* A handler takes its next step, and may keep a name for it.
Stepped(r, pc, name) == request' = [request EXCEPT ![r].pc = pc, ![r].name = name]

LEMMA StepHandlers ==
    ASSUME IInv, NEW r \in Requests, Busy(r), NEW pc \in Pc, NEW name \in AnyName,
           Stepped(r, pc, name),
           orderly' = orderly, todo' = todo, renames' = renames, SameOwners,
           \/ request[r].kind \in {"rename", "delete"} /\ pc = "commit"
           \/ request[r].kind = "approve" /\ pc \in {"list", "rename", "mark"},
           pc = "rename" => name \in ExitNames,
           pc # "rename" => name = request[r].name
    PROVE  /\ request' \in [Requests -> RequestRow] /\ HandlersInv'
           /\ \A s \in Requests :
                 /\ request'[s].kind = request[s].kind /\ request'[s].on = request[s].on
                 /\ request'[s].node = request[s].node /\ (Busy(s)' <=> Busy(s))
                 /\ request'[s].kind # "approve" => request'[s].name = request[s].name
                 /\ s # r => request'[s] = request[s]
           /\ request'[r].pc = pc /\ request'[r].name = name
<1>1. request \in [Requests -> RequestRow]
  BY DEF IInv, TypeOK, RequestRow
<1>2. pc # "idle"
  OBVIOUS
<1>3. request' \in [Requests -> RequestRow]
  BY <1>1 DEF RequestRow, AnyName, Stepped
<1>4. /\ \A s \in Requests :
            /\ request'[s].kind = request[s].kind /\ request'[s].on = request[s].on
            /\ request'[s].node = request[s].node
            /\ s # r => request'[s] = request[s]
      /\ request'[r].pc = pc /\ request'[r].name = name
  BY <1>1 DEF RequestRow, Stepped
<1>5. \A s \in Requests : Busy(s)' <=> Busy(s)
  BY <1>2, <1>4 DEF Busy
<1>6. \/ request[r].kind = "rename" /\ pc = "commit"
      \/ request[r].kind = "delete" /\ pc = "commit"
      \/ request[r].kind = "approve" /\ pc \in {"list", "rename", "mark"}
  OBVIOUS
<1>7. \A n \in todo' : node'[n].owner > 0
  BY DEF IInv, TypeOK, HandlersInv, SameOwners
<1>8. \A s \in Requests : Busy(s)' =>
        request'[s].on \in Subjects(request'[s].kind) /\ request'[s].pc \in Steps(request'[s].kind)
  <2>. SUFFICES ASSUME NEW s \in Requests, Busy(s)' PROVE <1>8!(s)!2
    OBVIOUS
  <2>1. CASE s = r
    <3>1. pc \in Steps(request[r].kind)
      BY <1>6 DEF Steps
    <3>. QED  BY <1>4, <1>5, <2>1, <3>1 DEF IInv, HandlersInv
  <2>2. CASE s # r
    BY <1>4, <1>5, <2>2 DEF IInv, HandlersInv
  <2>. QED  BY <2>1, <2>2
<1>9. \A s \in Requests : request'[s].pc = "rename" => request'[s].name \in ExitNames
  BY <1>4 DEF IInv, HandlersInv
<1>10. \A s \in Requests : request'[s].kind # "approve" => request'[s].name = request[s].name
  BY <1>4, <1>6
<1>11. HandlersInv'
  BY <1>4, <1>5, <1>7, <1>8, <1>9, <1>10 DEF IInv, HandlersInv, Does, Subjects, Steps, Devices, Gateways, ExitNames
<1>. QED  BY <1>3, <1>4, <1>5, <1>10, <1>11

-----------------------------------------------------------------------------
(* Frames: what a step of a handler has to leave alone *)

\* What every node is made of.
LEMMA NodeType ==
    ASSUME TypeOK, NEW n \in NodeId
    PROVE  node[n] \in [owner : (-MaxDevices)..MaxGateways, life : 0..MaxLives,
                        name : Names \cup {NoName}, route : Route]
  BY DEF TypeOK

\* _approve_exit_route_if_needed leaves everything of a node but its route.
LEMMA ApprovedNode ==
    ASSUME TypeOK, NEW n \in NodeId
    PROVE  /\ Approved(node[n]) \in [owner : (-MaxDevices)..MaxGateways, life : 0..MaxLives,
                                     name : Names \cup {NoName}, route : Route]
           /\ Approved(node[n]).owner = node[n].owner /\ Approved(node[n]).life = node[n].life
           /\ Approved(node[n]).name = node[n].name
           /\ Approved(node[n]).route = "deleted" <=> node[n].route = "deleted"
  BY NodeType DEF Approved, Route

\* A step that changes no row, and no name but of nodes that are deleted, and neither
\* starts nor ends a rename or a deletion.
LEMMA RowNamesKept ==
    ASSUME IInv, UNCHANGED <<orderly, gateway, renames>>,
           \A n \in Nodes : n \in Nodes' /\ node'[n].owner = node[n].owner /\ node'[n].name = node[n].name,
           \A s \in Requests :
               /\ Does(s, "rename")' <=> Does(s, "rename")
               /\ Does(s, "delete")' <=> Does(s, "delete")
               /\ Does(s, "rename") => request'[s] = request[s]
               /\ Does(s, "delete") => request'[s].on = request[s].on
    PROVE  RowNamesInv'
<1>1. \A g \in Gateways : Renaming(g)' <=> Renaming(g)
  BY DEF Renaming
<1>2. \A g \in Gateways : GatewayName(g)' = GatewayName(g)
  BY DEF GatewayName
<1>. QED  BY <1>1, <1>2 DEF IInv, HandlersInv, Subjects, RowNamesInv

\* Handlers and rows go on naming nodes of whom they are about, if a step only removes
\* nodes of gateways, and a handler that it starts, and an address that it writes, are
\* about an owner's node.
LEMMA OwnersKept ==
    ASSUME IInv, UNCHANGED <<orderly, registration>>, NoRenameRace' => NoRenameRace,
           \A n \in NodeId : node'[n].owner = node[n].owner,
           Nodes' \subseteq Nodes,
           NoRenameRace' => \A n \in Nodes : n \in Nodes' \/ node[n].owner > 0,
           NoRenameRace' => \A n \in Nodes :
               node'[n].route = "approved" => node[n].route = "approved" \/ Tagged(n),
           NoRenameRace' => \A s \in Requests : Busy(s)' =>
               \/ /\ Busy(s) /\ request'[s].kind = request[s].kind
                  /\ request'[s].on = request[s].on /\ request'[s].node = request[s].node
               \/ /\ request'[s].node # 0 =>
                        request'[s].node \in NodeId /\ node[request'[s].node].owner = OwnerOf(s)'
                  /\ request'[s].kind # "approve",
           NoRenameRace' => \A g \in Gateways :
               \/ gateway'[g].exit \in {0, gateway[g].exit}
               \/ gateway'[g].exit \in NodeId /\ node[gateway'[g].exit].owner = g
    PROVE  OwnersInv'
<1>. SUFFICES ASSUME NoRenameRace' PROVE OwnersInv!2'
  BY DEF OwnersInv
<1>1. NoRenameRace
  OBVIOUS
<1>2. \A n \in Nodes : n \in NodeId
  BY DEF Nodes
<1>3. \A r \in Requests : Busy(r) => request[r].node \in {0} \cup NodeId
  BY DEF IInv, TypeOK
<1>4. \A r \in Requests : Busy(r)' /\ request'[r].node # 0 =>
        node'[request'[r].node].owner = OwnerOf(r)'
  BY <1>1, <1>3 DEF IInv, OwnersInv, OwnerOf
<1>5. \A r \in Requests : Does(r, "approve")' => request'[r].node \in Nodes'
  <2>. SUFFICES ASSUME NEW r \in Requests, Does(r, "approve")' PROVE request'[r].node \in Nodes'
    OBVIOUS
  <2>1. Does(r, "approve") /\ request'[r].node = request[r].node
    BY DEF Does
  <2>2. request[r].node \in Nodes /\ request[r].node # 0 /\ request[r].on \in Devices
    BY <1>1, <2>1 DEF IInv, OwnersInv, HandlersInv, Does, Subjects, Nodes, NodeId
  <2>3. node[request[r].node].owner = -request[r].on
    BY <1>1, <2>1, <2>2 DEF IInv, OwnersInv, OwnerOf, Does
  <2>. QED  BY <2>1, <2>2, <2>3, BoundsAssumption DEF Devices
<1>6. \A g \in Gateways : gateway'[g].exit # 0 => node'[gateway'[g].exit].owner = g
  BY <1>1 DEF IInv, TypeOK, OwnersInv
<1>7. DeviceNeverExit'
  BY <1>1, <1>2 DEF IInv, OwnersInv, DeviceNeverExit, Tagged
<1>8. ApprovedOnMesh'
  <2>. SUFFICES ASSUME NEW d \in Devices, registration[d].status = "approved"
                PROVE  registration[d].node \in Nodes' /\ node'[registration[d].node].owner = -d
    BY DEF ApprovedOnMesh
  <2>1. registration[d].node \in Nodes /\ node[registration[d].node].owner = -d
    BY <1>1 DEF IInv, OwnersInv, ApprovedOnMesh
  <2>. QED  BY <1>2, <2>1, BoundsAssumption DEF Devices
<1>. QED  BY <1>4, <1>5, <1>6, <1>7, <1>8

-----------------------------------------------------------------------------
(* The handlers of a gateway *)

LEMMA FinalizeFindKeeps ==
    ASSUME IInv, NEW r \in Requests, NEW g \in Gateways, FinalizeFind(r, g)
    PROVE  IInv'
<1>1. SameNodes /\ SameOwners
  BY NodeType DEF FinalizeFind, SameNodes, SameOwners, IInv
<1>2. \A n \in NodeId : node'[n].route = "approved" => node[n].route = "approved"
  BY NodeType DEF FinalizeFind, IInv
<1>3. Nodes' = Nodes /\ NamesInv' /\ \A n \in Nodes : n \in NodeId
  BY <1>1, SameNodesSame DEF IInv, Nodes
<1>. DEFINE new == [kind |-> "finalize", pc |-> "record", on |-> g, name |-> NoName, node |-> Found(g)]
<1>4. new \in RequestRow
  BY FoundIn DEF RequestRow, Kind, Pc, Gateways, Nodes
<1>5. /\ request' \in [Requests -> RequestRow] /\ HandlersInv'
      /\ request'[r] = new /\ request[r].pc = "idle"
      /\ \A s \in Requests : s # r => request'[s] = request[s]
      /\ orderly => \A s \in Requests : request[s].pc = "idle"
  BY <1>1, <1>4, BeginHandlers DEF FinalizeFind, Begin, Subjects
<1>6. TypeOK'
  <2>1. node' \in [NodeId -> [owner : (-MaxDevices)..MaxGateways, life : 0..MaxLives,
                             name : Names \cup {NoName}, route : Route]]
    BY NodeType DEF FinalizeFind, IInv, Route
  <2>. QED  BY <1>5, <2>1 DEF FinalizeFind, IInv, TypeOK, RequestRow
<1>7. RowNamesInv'
  BY <1>1, <1>3, <1>5, RowNamesKept DEF FinalizeFind, Busy, Does, SameNodes
<1>8. OwnersInv'
  <2>1. NoRenameRace /\ Found(g) # 0 => node[Found(g)].owner = g /\ Found(g) \in NodeId
    BY <1>3, <1>5, OwnNames, FoundIn DEF FinalizeFind, Does, Busy
  <2>2. UNCHANGED <<orderly, gateway, registration, renames>>
    BY DEF FinalizeFind
  <2>3. \A s \in Requests : Busy(s)' =>
          \/ Busy(s) /\ request'[s] = request[s]
          \/ s = r /\ request'[s].node = Found(g) /\ OwnerOf(s)' = g /\ request'[s].kind # "approve"
    BY <1>5 DEF Busy, OwnerOf
  <2>. QED  BY <1>1, <1>2, <1>3, <2>1, <2>2, <2>3, OwnersKept DEF NoRenameRace, SameNodes
<1>. QED  BY <1>3, <1>5, <1>6, <1>7, <1>8 DEF IInv

\* The routes that are approved are those of the node that was found, a gateway's, and
\* of gateways; the address in the row is of a node of the gateway.
LEMMA FinalizeRecordKeeps ==
    ASSUME IInv, NEW r \in Requests, NEW g, g = request[r].on, FinalizeRecord(r)
    PROVE  IInv'
<1>1. Does(r, "finalize") /\ g \in Gateways /\ OwnerOf(r) = g
  BY DEF FinalizeRecord, IInv, HandlersInv, Does, Busy, Subjects, OwnerOf
<1>2. \A n \in NodeId : \/ node'[n] = node[n]
                        \/ /\ n \in Nodes
                           /\ n = request[r].node \/ Approvable(n)
                           /\ node'[n] = Approved(node[n])
  BY DEF FinalizeRecord
<1>3. SameNodes
  BY <1>2, ApprovedNode DEF SameNodes, IInv
<1>4. SameOwners
  BY <1>3 DEF SameNodes, SameOwners
<1>5. Nodes' = Nodes /\ NamesInv' /\ \A n \in Nodes : n \in NodeId /\ n # 0
  BY <1>3, SameNodesSame DEF IInv, Nodes, NodeId
<1>6. /\ request' \in [Requests -> RequestRow] /\ HandlersInv'
      /\ ~Busy(r)' /\ \A s \in Requests : s # r => request'[s] = request[s]
  BY <1>4, EndHandlers DEF FinalizeRecord
<1>7. /\ UNCHANGED <<orderly, registration, todo, renames>>
      /\ \/ gateway' = gateway
         \/ /\ gateway[g].status = "pending"
            /\ gateway' = [gateway EXCEPT ![g].status = "ready", ![g].exit = ExitAddress(g)]
  BY DEF FinalizeRecord
<1>8. ExitAddress(g) \in {0} \cup NodeId
  BY <1>1, <1>5, ExitAddressIn DEF IInv, TypeOK
<1>9. /\ gateway' \in [Gateways -> [status : GatewayStatus, life : 0..MaxLives,
                                   hostname : Names \cup {NoName}, exit : {0} \cup NodeId]]
      /\ \A h \in Gateways : gateway'[h].hostname = gateway[h].hostname
                             /\ (h # g => gateway'[h] = gateway[h])
      /\ \/ gateway' = gateway
         \/ /\ gateway[g].status = "pending" /\ gateway'[g].status = "ready"
            /\ gateway'[g].exit = ExitAddress(g)
  <2>1. gateway \in [Gateways -> [status : GatewayStatus, life : 0..MaxLives,
                                 hostname : Names \cup {NoName}, exit : {0} \cup NodeId]]
    BY DEF IInv, TypeOK
  <2>2. CASE gateway' = gateway
    BY <2>1, <2>2
  <2>3. CASE /\ gateway[g].status = "pending"
             /\ gateway' = [gateway EXCEPT ![g].status = "ready", ![g].exit = ExitAddress(g)]
    BY <1>1, <1>8, <2>1, <2>3 DEF GatewayStatus
  <2>. QED  BY <1>7, <2>2, <2>3
<1>10. TypeOK'
  <2>1. node' \in [NodeId -> [owner : (-MaxDevices)..MaxGateways, life : 0..MaxLives,
                             name : Names \cup {NoName}, route : Route]]
    <3>1. node' = [n \in NodeId |-> node'[n]]
      BY DEF FinalizeRecord, IInv, TypeOK
    <3>2. \A n \in NodeId : node'[n] \in [owner : (-MaxDevices)..MaxGateways, life : 0..MaxLives,
                             name : Names \cup {NoName}, route : Route]
      BY <1>2, ApprovedNode, NodeType DEF IInv
    <3>. QED  BY <3>1, <3>2
  <2>2. faults' \in 0..MaxFaults
    BY BoundsAssumption DEF FinalizeRecord, IInv, TypeOK
  <2>. QED  BY <1>6, <1>7, <1>9, <2>1, <2>2 DEF IInv, TypeOK, RequestRow
<1>11. RowNamesInv'
  <2>1. \A s \in Requests : /\ Does(s, "rename")' <=> Does(s, "rename")
                            /\ Does(s, "delete")' <=> Does(s, "delete")
                            /\ Does(s, "rename") \/ Does(s, "delete") => request'[s] = request[s]
    BY <1>1, <1>6 DEF Does, Busy
  <2>2. CASE gateway' = gateway
    BY <1>3, <1>5, <1>7, <2>1, <2>2, RowNamesKept DEF SameNodes
  <2>3. CASE gateway[g].status = "pending" /\ gateway'[g].status = "ready"
    <3>1. NoRenameRace => gateway[g].hostname = GatewayName(g)
      BY <1>1, <2>3 DEF IInv, RowNamesInv, NoRenameRace
    <3>2. \A h \in Gateways : (Renaming(h)' <=> Renaming(h)) /\ GatewayName(h)' = GatewayName(h)
      BY <2>1 DEF Renaming, GatewayName
    <3>3. orderly => \A s \in Requests : ~Does(s, "rename") /\ ~Does(s, "delete")
      BY <1>1 DEF IInv, HandlersInv, Does
    <3>4. \A n \in Nodes : n \in Nodes' /\ node'[n].owner = node[n].owner /\ node'[n].name = node[n].name
      BY <1>3, <1>5 DEF SameNodes
    <3>5. renames' = 0 => \A h \in Gateways :
            gateway'[h].status # "absent" => gateway'[h].hostname = GatewayName(h)
      BY <1>7, <1>9, <3>1 DEF IInv, RowNamesInv, NoRenameRace
    <3>6. orderly => \A h \in Gateways :
            gateway'[h].status = "pending" => gateway'[h].hostname = GatewayName(h)
      BY <1>9, <2>3 DEF IInv, RowNamesInv
    <3>7. orderly => \A h \in Gateways : gateway'[h].status = "ready" /\ ~Renaming(h)' =>
            \/ gateway'[h].hostname = GatewayName(h)
            \/ \E n \in Nodes' : node'[n].owner = h /\ node'[n].name = gateway'[h].hostname
      BY <1>9, <3>1, <3>2, <3>4 DEF IInv, RowNamesInv, NoRenameRace
    <3>. QED  BY <1>7, <2>1, <3>2, <3>3, <3>5, <3>6, <3>7 DEF RowNamesInv
  <2>. QED  BY <1>9, <2>2, <2>3
<1>12. OwnersInv'
  <2>1. NoRenameRace /\ request[r].node # 0 => node[request[r].node].owner = g
    BY <1>1 DEF IInv, OwnersInv, Does
  <2>2. NoRenameRace => \A n \in Nodes :
          node'[n].route = "approved" => node[n].route = "approved" \/ Tagged(n)
    BY <1>1, <1>2, <1>5, <2>1 DEF Approvable, Tagged, Gateways
  <2>3. ASSUME gateway[g].status = "pending", gateway'[g].exit = ExitAddress(g), NoRenameRace
        PROVE  \/ gateway'[g].exit \in {0, gateway[g].exit}
               \/ gateway'[g].exit \in NodeId /\ node[gateway'[g].exit].owner = g
    <3>1. NoRenameRace => gateway[g].hostname = GatewayName(g)
      BY <1>1, <2>3 DEF IInv, RowNamesInv, NoRenameRace
    <3>2. NoRenameRace => \/ ExitAddress(g) \in {0, gateway[g].exit}
                          \/ ExitAddress(g) \in NodeId /\ node[ExitAddress(g)].owner = g
      BY <1>1, <1>5, <3>1, ExitAddressIn DEF IInv, NamesInv
    <3>. QED  BY <2>3, <3>2
  <2>4. NoRenameRace => \/ gateway'[g].exit \in {0, gateway[g].exit}
                        \/ gateway'[g].exit \in NodeId /\ node[gateway'[g].exit].owner = g
    BY <1>9, <2>3
  <2>5. NoRenameRace => \A h \in Gateways :
           \/ gateway'[h].exit \in {0, gateway[h].exit}
           \/ gateway'[h].exit \in NodeId /\ node[gateway'[h].exit].owner = h
    BY <1>9, <2>4
  <2>6. \A s \in Requests : Busy(s)' => Busy(s) /\ request'[s] = request[s]
    BY <1>6 DEF Busy
  <2>. QED  BY <1>3, <1>5, <1>7, <2>2, <2>5, <2>6, OwnersKept DEF NoRenameRace, SameNodes
<1>. QED  BY <1>5, <1>6, <1>10, <1>11, <1>12 DEF IInv

\* rename_tailscale_display_name finds the gateway's own node.
LEMMA RenameReadKeeps ==
    ASSUME IInv, NEW r \in Requests, NEW g \in Gateways, NEW name \in Chosen, RenameRead(r, g, name)
    PROVE  IInv'
<1>1. /\ node' = node /\ gateway' = gateway /\ registration' = registration /\ todo' = todo
      /\ faults' = faults /\ orderly' = orderly /\ renames' = renames + 1
      /\ gateway[g].status = "ready" /\ MayStart(r)
  BY DEF RenameRead
<1>2. Nodes' = Nodes /\ SameOwners /\ NamesInv' /\ \A n \in Nodes : n \in NodeId
  BY <1>1 DEF Nodes, SameOwners, IInv, NamesInv, GatewayName
<1>3. renames' > 0 /\ renames' \in 0..MaxRenames
  BY <1>1, BoundsAssumption DEF RenameRead, IInv, TypeOK
<1>. DEFINE new == [kind |-> "rename", pc |-> "apply", on |-> g, name |-> name, node |-> Found(g)]
<1>4. new \in RequestRow /\ new.kind = "rename" /\ new.pc = "apply" /\ new.on = g
      /\ new.name = name /\ new.node = Found(g) /\ new.on \in Subjects(new.kind)
  BY FoundIn DEF RequestRow, Kind, Pc, Gateways, Nodes, Names, Subjects
<1>5. request' = [request EXCEPT ![r] = new]
  BY DEF RenameRead, Begin
<1>. HIDE DEF new
<1>6. /\ request' \in [Requests -> RequestRow] /\ HandlersInv'
      /\ request'[r] = new /\ request[r].pc = "idle"
      /\ \A s \in Requests : s # r => request'[s] = request[s]
      /\ orderly => \A s \in Requests : request[s].pc = "idle"
  BY <1>1, <1>2, <1>3, <1>4, <1>5, BeginHandlers
<1>7. TypeOK'
  BY <1>1, <1>3, <1>6 DEF IInv, TypeOK, RequestRow
<1>8. RowNamesInv'
  <2>1. orderly => \A s \in Requests : ~Does(s, "rename") /\ ~Does(s, "delete")
    BY <1>6 DEF Does, Busy
  <2>2. orderly => \A h \in Gateways : ~Renaming(h)
    BY <2>1 DEF Renaming
  <2>3. orderly => \A s \in Requests : Does(s, "rename")' => s = r
    BY <1>6 DEF Does, Busy
  <2>4. orderly => \A s \in Requests : ~Does(s, "delete")'
    BY <1>4, <1>6 DEF Does, Busy
  <2>5. \A h \in Gateways : GatewayName(h)' = GatewayName(h)
    BY DEF GatewayName
  <2>. QED  BY <1>1, <1>2, <1>3, <1>4, <1>6, <2>2, <2>3, <2>4, <2>5 DEF IInv, RowNamesInv
<1>9. OwnersInv'
  <2>1. NoRenameRace' => NoRenameRace
    BY <1>1, <1>3 DEF NoRenameRace
  <2>2. NoRenameRace /\ Found(g) # 0 => node[Found(g)].owner = g /\ Found(g) \in NodeId
    BY <1>1, <1>2, <1>6, OwnNames, FoundIn DEF Does, Busy
  <2>3. \A s \in Requests : Busy(s)' =>
          \/ Busy(s) /\ request'[s] = request[s]
          \/ s = r /\ request'[s].node = Found(g) /\ OwnerOf(s)' = g /\ request'[s].kind # "approve"
    BY <1>4, <1>6 DEF Busy, OwnerOf
  <2>. QED  BY <1>1, <1>2, <2>1, <2>2, <2>3, OwnersKept
<1>. QED  BY <1>2, <1>6, <1>7, <1>8, <1>9 DEF IInv

\* A handler that fails leaves everything as it is: a rename that was done is committed.
LEMMA GivesUp ==
    ASSUME IInv, NEW r \in Requests, End(r), request[r].pc # "commit",
           UNCHANGED <<orderly, node, gateway, registration, todo, renames>>,
           faults' \in 0..MaxFaults
    PROVE  IInv'
<1>1. Nodes' = Nodes /\ SameOwners /\ NamesInv' /\ \A n \in Nodes : n \in NodeId
  BY DEF Nodes, SameOwners, IInv, NamesInv, GatewayName
<1>2. /\ request' \in [Requests -> RequestRow] /\ HandlersInv'
      /\ ~Busy(r)' /\ \A s \in Requests : s # r => request'[s] = request[s]
  BY <1>1, EndHandlers
<1>3. TypeOK'
  BY <1>2 DEF IInv, TypeOK, RequestRow
<1>4. RowNamesInv'
  <2>1. \A h \in Gateways : Renaming(h)' <=> Renaming(h)
    BY <1>2 DEF Renaming, Does, Busy
  <2>2. \A s \in Requests : s # r \/ (~Does(s, "rename")' /\ ~Does(s, "delete")')
    BY <1>2 DEF Does
  <2>3. \A s \in Requests : s # r => (Does(s, "rename")' <=> Does(s, "rename"))
                                 /\ (Does(s, "delete")' <=> Does(s, "delete"))
    BY <1>2 DEF Does, Busy
  <2>4. \A h \in Gateways : GatewayName(h)' = GatewayName(h)
    BY DEF GatewayName
  <2>. QED  BY <1>1, <1>2, <2>1, <2>2, <2>3, <2>4 DEF IInv, RowNamesInv
<1>5. OwnersInv'
  <2>1. \A s \in Requests : Busy(s)' => Busy(s) /\ request'[s] = request[s]
    BY <1>2 DEF Busy
  <2>. QED  BY <1>1, <2>1, OwnersKept DEF NoRenameRace
<1>. QED  BY <1>1, <1>2, <1>3, <1>4, <1>5 DEF IInv

\* headscale nodes rename, for a gateway or a device: refused, the handler ends; else
\* the name moves to the node.
LEMMA RenameKeeps ==
    ASSUME IInv, NoGatewayNames, NEW r \in Requests, NEW pc,
           NEW k, k = request[r].node, NEW name, name = request[r].name,
           Rename(r, pc), UNCHANGED <<orderly, gateway, registration, todo, renames, faults>>,
           \/ request[r].kind = "rename" /\ request[r].pc = "apply" /\ pc = "commit"
           \/ request[r].kind = "approve" /\ request[r].pc = "rename" /\ pc = "mark"
    PROVE  IInv'
<1>1. Busy(r) /\ name \in GivenNames
  BY DEF IInv, HandlersInv, Busy, Does, GivenNames
<1>2. CASE Refused(r) /\ End(r) /\ node' = node
  <2>1. request[r].pc # "commit" /\ faults' \in 0..MaxFaults
    BY <1>2 DEF IInv, TypeOK
  <2>. QED  BY <1>2, <2>1, GivesUp
<1>3. CASE /\ ~Refused(r) /\ Step(r, pc)
           /\ node' = [node EXCEPT ![request[r].node].name = request[r].name]
  <2>1. /\ k \in Nodes /\ \A n \in Nodes \ {k} : node[n].name # name
        /\ node' = [node EXCEPT ![k].name = name]
    BY <1>3 DEF Refused
  <2>2. /\ NamesInv' /\ Nodes' = Nodes /\ node'[k].name = name
        /\ \A n \in NodeId : /\ node'[n].owner = node[n].owner /\ node'[n].life = node[n].life
                             /\ node'[n].route = node[n].route
                             /\ n # k => node'[n].name = node[n].name
    <3>1. TypeOK /\ NamesInv
      BY DEF IInv
    <3>2. \A n \in Nodes \ {k} : node[n].name # name
      BY <2>1
    <3>3. k \in Nodes /\ name \in GivenNames /\ Renamed(k, name)
      BY <1>1, <2>1 DEF Renamed
    <3>. QED  BY <3>1, <3>2, <3>3, RenameNames
  <2>3. SameOwners /\ \A n \in Nodes : n \in NodeId
    <3>1. SameOwners
      BY <2>2 DEF SameOwners
    <3>. QED  BY <3>1 DEF Nodes
  <2>4. /\ request' \in [Requests -> RequestRow] /\ HandlersInv'
        /\ \A s \in Requests :
              /\ request'[s].kind = request[s].kind /\ request'[s].on = request[s].on
              /\ request'[s].node = request[s].node /\ (Busy(s)' <=> Busy(s))
              /\ request'[s].kind # "approve" => request'[s].name = request[s].name
              /\ s # r => request'[s] = request[s]
        /\ request'[r].pc = pc /\ request'[r].name = name
    <3>1. name \in AnyName /\ pc \in Pc
      BY DEF IInv, TypeOK, Pc, AnyName
    <3>2. Stepped(r, pc, name)
      BY <1>3 DEF Step, IInv, TypeOK, Stepped
    <3>3. \/ request[r].kind \in {"rename", "delete"} /\ pc = "commit"
          \/ request[r].kind = "approve" /\ pc \in {"list", "rename", "mark"}
      OBVIOUS
    <3>4. pc # "rename" /\ orderly' = orderly /\ todo' = todo /\ renames' = renames
      OBVIOUS
    <3>. QED  BY <1>1, <2>3, <3>1, <3>2, <3>3, <3>4, StepHandlers
  <2>5. TypeOK'
    <3>1. name \in Names
      BY <1>1, KindsOfChosen
    <3>2. node' \in [NodeId -> [owner : (-MaxDevices)..MaxGateways, life : 0..MaxLives,
                               name : Names \cup {NoName}, route : Route]]
      BY <1>3, <2>1, <2>3, <3>1 DEF IInv, TypeOK
    <3>. QED  BY <2>4, <3>2 DEF IInv, TypeOK, RequestRow
  <2>6. orderly => node[k].owner = OwnerOf(r)
    BY <1>1, <2>1 DEF IInv, OwnersInv, NoRenameRace, Nodes, NodeId
  <2>7. RowNamesInv'
    <3>1. \A h \in Gateways : GatewayName(h)' = GatewayName(h) /\ (Renaming(h) => Renaming(h)')
      BY <2>4 DEF GatewayName, Renaming, Does, Busy
    <3>2. orderly => \A h \in Gateways : node[k].owner = h => Renaming(h)'
      <4>1. request[r].kind = "approve" => -request[r].on \notin Gateways
        BY <1>1, BoundsAssumption DEF IInv, HandlersInv, Subjects, Devices, Gateways
      <4>. QED  BY <1>1, <2>4, <2>6, <4>1 DEF OwnerOf, Renaming, Does, Busy
    <3>3. orderly => \A h \in Gateways : gateway[h].status = "ready" /\ ~Renaming(h)' =>
            \/ gateway[h].hostname = GatewayName(h)
            \/ \E n \in Nodes' : node'[n].owner = h /\ node'[n].name = gateway[h].hostname
      <4>. SUFFICES ASSUME orderly, NEW h \in Gateways, gateway[h].status = "ready", ~Renaming(h)',
                           gateway[h].hostname # GatewayName(h)
                    PROVE  \E n \in Nodes' : node'[n].owner = h /\ node'[n].name = gateway[h].hostname
        OBVIOUS
      <4>1. PICK n \in Nodes : node[n].owner = h /\ node[n].name = gateway[h].hostname
        BY <3>1 DEF IInv, RowNamesInv
      <4>2. n # k
        BY <3>2, <4>1
      <4>. QED  BY <2>2, <2>3, <4>1, <4>2
    <3>4. orderly => \A s \in Requests : Does(s, "rename")' /\ request'[s].pc = "commit" =>
            request'[s].node \in Nodes' /\ node'[request'[s].node].name = request'[s].name
      <4>. SUFFICES ASSUME orderly, NEW s \in Requests, Does(s, "rename")', request'[s].pc = "commit"
                    PROVE  request'[s].node \in Nodes' /\ node'[request'[s].node].name = request'[s].name
        OBVIOUS
      <4>1. s = r
        BY <1>1, <2>4 DEF IInv, HandlersInv, Does
      <4>. QED  BY <2>1, <2>2, <2>4, <4>1
    <3>. QED  BY <2>4, <3>1, <3>3, <3>4 DEF IInv, RowNamesInv, Does
  <2>8. OwnersInv'
    <3>1. /\ \A n \in NodeId : node'[n].owner = node[n].owner
          /\ \A n \in Nodes : node'[n].route = "approved" => node[n].route = "approved"
      BY <2>2, <2>3
    <3>. QED  BY <2>2, <2>4, <3>1, OwnersKept DEF NoRenameRace
  <2>. QED  BY <2>2, <2>4, <2>5, <2>7, <2>8 DEF IInv
<1>. QED  BY <1>2, <1>3 DEF Rename

\* The row takes the name of the node, as the handler that was alone left it.
LEMMA RenameCommitKeeps ==
    ASSUME IInv, NEW r \in Requests, NEW g, g = request[r].on, RenameCommit(r)
    PROVE  IInv'
<1>1. Does(r, "rename") /\ request[r].pc = "commit" /\ g \in Gateways /\ request[r].name \in Chosen
  BY DEF RenameCommit, IInv, HandlersInv, Does, Busy, Subjects
<1>2. /\ UNCHANGED <<orderly, node, registration, todo, renames, faults>> /\ End(r)
      /\ \/ gateway' = gateway /\ gateway[g].status = "absent"
         \/ gateway' = [gateway EXCEPT ![g].hostname = request[r].name]
  BY DEF RenameCommit
<1>3. Nodes' = Nodes /\ SameOwners /\ NamesInv' /\ \A n \in Nodes : n \in NodeId
  BY <1>2 DEF Nodes, SameOwners, IInv, NamesInv, GatewayName
<1>4. /\ request' \in [Requests -> RequestRow] /\ HandlersInv'
      /\ ~Busy(r)' /\ \A s \in Requests : s # r => request'[s] = request[s]
  BY <1>2, <1>3, EndHandlers
<1>5. /\ gateway' \in [Gateways -> [status : GatewayStatus, life : 0..MaxLives,
                                   hostname : Names \cup {NoName}, exit : {0} \cup NodeId]]
      /\ \A h \in Gateways : /\ gateway'[h].status = gateway[h].status
                             /\ gateway'[h].exit = gateway[h].exit
                             /\ h # g => gateway'[h].hostname = gateway[h].hostname
      /\ gateway[g].status # "absent" => gateway'[g].hostname = request[r].name
  <2>1. gateway \in [Gateways -> [status : GatewayStatus, life : 0..MaxLives,
                                 hostname : Names \cup {NoName}, exit : {0} \cup NodeId]]
    BY DEF IInv, TypeOK
  <2>2. request[r].name \in Names \cup {NoName}
    BY DEF IInv, TypeOK
  <2>. QED  BY <1>1, <1>2, <2>1, <2>2
<1>6. TypeOK'
  BY <1>2, <1>4, <1>5 DEF IInv, TypeOK, RequestRow
<1>7. RowNamesInv'
  <2>1. renames # 0
    BY <1>1 DEF IInv, HandlersInv
  <2>2. orderly => \A s \in Requests : ~Does(s, "rename")' /\ ~Does(s, "delete")'
    BY <1>1, <1>4 DEF IInv, HandlersInv, Does, Busy
  <2>3. orderly => /\ gateway[g].status = "ready" /\ request[r].node \in Nodes
                   /\ node[request[r].node].name = request[r].name
                   /\ node[request[r].node].owner = g
    <3>1. orderly => gateway[g].status = "ready" /\ request[r].node \in Nodes
                     /\ node[request[r].node].name = request[r].name
      BY <1>1 DEF IInv, RowNamesInv
    <3>. QED  BY <1>1, <3>1 DEF IInv, OwnersInv, NoRenameRace, OwnerOf, Does, Nodes, NodeId
  <2>4. orderly => \A h \in Gateways : Renaming(h) => h = g
    BY <1>1 DEF IInv, HandlersInv, Renaming, Does
  <2>5. \A h \in Gateways : GatewayName(h)' = GatewayName(h)
    BY DEF GatewayName
  <2>6. orderly => \A h \in Gateways : gateway'[h].status = "pending" => gateway'[h].hostname = GatewayName(h)
    BY <1>5, <2>3 DEF IInv, RowNamesInv
  <2>7. orderly => \A h \in Gateways : gateway'[h].status = "ready" =>
          \/ gateway'[h].hostname = GatewayName(h)
          \/ \E n \in Nodes' : node'[n].owner = h /\ node'[n].name = gateway'[h].hostname
    BY <1>2, <1>3, <1>5, <2>3, <2>4 DEF IInv, RowNamesInv
  <2>. QED  BY <1>2, <2>1, <2>2, <2>5, <2>6, <2>7 DEF RowNamesInv
<1>8. OwnersInv'
  <2>1. \A s \in Requests : Busy(s)' => Busy(s) /\ request'[s] = request[s]
    BY <1>4 DEF Busy
  <2>. QED  BY <1>2, <1>3, <1>5, <2>1, OwnersKept DEF NoRenameRace
<1>. QED  BY <1>3, <1>4, <1>6, <1>7, <1>8 DEF IInv

\* execute_delete_gateway finds the gateway's own node.
LEMMA DeleteFindKeeps ==
    ASSUME IInv, NEW r \in Requests, NEW g \in Gateways, DeleteFind(r, g)
    PROVE  IInv'
<1>1. /\ UNCHANGED <<orderly, node, registration, todo, renames, faults>>
      /\ gateway[g].status \in {"pending", "ready"} /\ MayStart(r)
      /\ gateway' = [gateway EXCEPT ![g].status = "deleting"]
  BY DEF DeleteFind
<1>2. Nodes' = Nodes /\ SameOwners /\ NamesInv' /\ \A n \in Nodes : n \in NodeId
  BY <1>1 DEF Nodes, SameOwners, IInv, NamesInv, GatewayName
<1>. DEFINE new == [kind |-> "delete", pc |-> "remove", on |-> g, name |-> NoName, node |-> Found(g)]
<1>3. new \in RequestRow
  BY FoundIn DEF RequestRow, Kind, Pc, Gateways, Nodes
<1>4. /\ request' \in [Requests -> RequestRow] /\ HandlersInv'
      /\ request'[r] = new /\ request[r].pc = "idle"
      /\ \A s \in Requests : s # r => request'[s] = request[s]
      /\ orderly => \A s \in Requests : request[s].pc = "idle"
  BY <1>1, <1>2, <1>3, BeginHandlers DEF DeleteFind, Begin, Subjects
<1>5. /\ gateway' \in [Gateways -> [status : GatewayStatus, life : 0..MaxLives,
                                   hostname : Names \cup {NoName}, exit : {0} \cup NodeId]]
      /\ \A h \in Gateways : /\ gateway'[h].hostname = gateway[h].hostname
                             /\ gateway'[h].exit = gateway[h].exit
                             /\ h # g => gateway'[h].status = gateway[h].status
      /\ gateway'[g].status = "deleting"
  BY <1>1 DEF IInv, TypeOK, GatewayStatus
<1>6. TypeOK'
  BY <1>1, <1>4, <1>5 DEF IInv, TypeOK, RequestRow
<1>7. RowNamesInv'
  <2>1. orderly => \A s \in Requests : ~Does(s, "rename") /\ ~Does(s, "delete")
    BY <1>4 DEF Does, Busy
  <2>2. orderly => \A h \in Gateways : ~Renaming(h)
    BY <2>1 DEF Renaming
  <2>3. orderly => \A s \in Requests : ~Does(s, "rename")' /\ (Does(s, "delete")' => s = r)
    BY <1>4 DEF Does, Busy
  <2>4. \A h \in Gateways : GatewayName(h)' = GatewayName(h)
    BY DEF GatewayName
  <2>5. \A h \in Gateways : gateway'[h].status \in {"pending", "ready"} => gateway'[h].status = gateway[h].status
    BY <1>5
  <2>. QED  BY <1>1, <1>2, <1>4, <1>5, <2>2, <2>3, <2>4, <2>5 DEF IInv, RowNamesInv
<1>8. OwnersInv'
  <2>1. NoRenameRace /\ Found(g) # 0 => node[Found(g)].owner = g /\ Found(g) \in NodeId
    BY <1>1, <1>2, <1>4, OwnNames, FoundIn DEF Does, Busy
  <2>2. \A s \in Requests : Busy(s)' =>
          \/ Busy(s) /\ request'[s] = request[s]
          \/ s = r /\ request'[s].node = Found(g) /\ OwnerOf(s)' = g /\ request'[s].kind # "approve"
    BY <1>4 DEF Busy, OwnerOf
  <2>. QED  BY <1>1, <1>2, <1>5, <2>1, <2>2, OwnersKept DEF NoRenameRace
<1>. QED  BY <1>2, <1>4, <1>6, <1>7, <1>8 DEF IInv

\* delete_gateway_headscale_node: if a node goes it is the one that was found.
LEMMA RemovedNodes ==
    ASSUME TypeOK, NEW r, NEW k, k = request[r].node, node' \in {node, Removed(r)}
    PROVE  /\ node' \in [NodeId -> [owner : (-MaxDevices)..MaxGateways, life : 0..MaxLives,
                                    name : Names \cup {NoName}, route : Route]]
           /\ \A n \in NodeId : /\ node'[n].owner = node[n].owner /\ node'[n].life = node[n].life
                                /\ n # k \/ n \notin Nodes => node'[n] = node[n]
                                /\ node'[n].route = "approved" => node[n].route = "approved"
           /\ Nodes' \in {Nodes, Nodes \ {k}}
<1>1. CASE node' = node
  BY <1>1 DEF TypeOK, Nodes
<1>2. CASE k \in Nodes /\ node' = [node EXCEPT ![k].name = NoName, ![k].route = "deleted"]
  <2>1. k \in NodeId
    BY <1>2 DEF Nodes
  <2>2. node' \in [NodeId -> [owner : (-MaxDevices)..MaxGateways, life : 0..MaxLives,
                             name : Names \cup {NoName}, route : Route]]
    BY <1>2, <2>1 DEF TypeOK, Route
  <2>3. \A n \in NodeId : /\ node'[n].owner = node[n].owner /\ node'[n].life = node[n].life
                          /\ n # k => node'[n] = node[n]
                          /\ n = k => node'[n].route = "deleted"
    BY <1>2, <2>1 DEF TypeOK
  <2>4. Nodes' = Nodes \ {k}
    BY <2>1, <2>3 DEF Nodes
  <2>. QED  BY <1>2, <2>2, <2>3, <2>4
<1>. QED  BY <1>1, <1>2 DEF Removed

LEMMA DeleteNodeKeeps ==
    ASSUME IInv, NEW r \in Requests, NEW k, k = request[r].node, DeleteNode(r)
    PROVE  IInv'
<1>1. /\ Does(r, "delete") /\ request[r].pc = "remove" /\ OwnerOf(r) = request[r].on
      /\ request[r].on \in Gateways
  BY DEF DeleteNode, IInv, HandlersInv, Does, Busy, Subjects, OwnerOf
<1>2. /\ UNCHANGED <<orderly, gateway, registration, todo, renames>>
      /\ node' \in {node, Removed(r)} /\ faults' \in 0..MaxFaults
  BY BoundsAssumption DEF DeleteNode, IInv, TypeOK
<1>3. /\ node' \in [NodeId -> [owner : (-MaxDevices)..MaxGateways, life : 0..MaxLives,
                              name : Names \cup {NoName}, route : Route]]
      /\ \A n \in NodeId : /\ node'[n].owner = node[n].owner /\ node'[n].life = node[n].life
                           /\ n # k \/ n \notin Nodes => node'[n] = node[n]
                           /\ node'[n].route = "approved" => node[n].route = "approved"
      /\ Nodes' \in {Nodes, Nodes \ {k}}
  BY <1>2, RemovedNodes DEF IInv
<1>4. SameOwners /\ (\A n \in Nodes : n \in NodeId) /\ Nodes' \subseteq Nodes
  BY <1>3 DEF SameOwners, Nodes
<1>5. /\ request' \in [Requests -> RequestRow] /\ HandlersInv'
      /\ \A s \in Requests :
            /\ request'[s].kind = request[s].kind /\ request'[s].on = request[s].on
            /\ request'[s].node = request[s].node /\ (Busy(s)' <=> Busy(s))
            /\ request'[s].kind # "approve" => request'[s].name = request[s].name
            /\ s # r => request'[s] = request[s]
      /\ request'[r].pc = "commit" /\ request'[r].name = request[r].name
  <2>1. request[r].name \in AnyName /\ "commit" \in Pc
    BY DEF IInv, TypeOK, Pc, AnyName
  <2>2. Stepped(r, "commit", request[r].name)
    BY DEF DeleteNode, Step, IInv, TypeOK, Stepped
  <2>3. request[r].kind = "delete" /\ Busy(r) /\ orderly' = orderly /\ todo' = todo /\ renames' = renames
    BY <1>1, <1>2 DEF Does
  <2>. QED  BY <1>4, <2>1, <2>2, <2>3, StepHandlers
<1>6. TypeOK'
  BY <1>2, <1>3, <1>5 DEF IInv, TypeOK, RequestRow
<1>7. \A m \in Nodes' : m \in Nodes /\ node'[m] = node[m]
  <2>. SUFFICES ASSUME NEW m \in Nodes' PROVE m \in Nodes /\ node'[m] = node[m]
    OBVIOUS
  <2>1. m \in Nodes /\ m \in NodeId
    BY <1>4
  <2>2. CASE Nodes' = Nodes /\ m = k
    BY <1>2, <2>1, <2>2 DEF Removed, Nodes, IInv, TypeOK
  <2>. QED  BY <1>3, <2>1, <2>2
<1>8. NamesInv'
  BY <1>7 DEF IInv, NamesInv, GatewayName
<1>9. NoRenameRace /\ k \in Nodes => node[k].owner = request[r].on
  BY <1>1 DEF IInv, OwnersInv, Does, Nodes, NodeId
<1>10. RowNamesInv'
  <2>1. \A s \in Requests : /\ Does(s, "rename")' <=> Does(s, "rename")
                            /\ Does(s, "delete")' <=> Does(s, "delete")
    BY <1>5 DEF Does
  <2>2. \A h \in Gateways : GatewayName(h)' = GatewayName(h) /\ (Renaming(h)' <=> Renaming(h))
    <3>1. \A s \in Requests : Does(s, "rename") => s # r
      BY <1>1 DEF Does
    <3>. QED  BY <1>5, <2>1, <3>1 DEF GatewayName, Renaming
  <2>3. orderly => gateway[request[r].on].status = "deleting" /\ \A s \in Requests : ~Does(s, "rename")
    BY <1>1 DEF IInv, HandlersInv, RowNamesInv, Does
  <2>4. orderly => \A h \in Gateways : gateway[h].status = "ready" /\ ~Renaming(h) =>
          \/ gateway[h].hostname = GatewayName(h)
          \/ \E n \in Nodes' : node'[n].owner = h /\ node'[n].name = gateway[h].hostname
    <3>. SUFFICES ASSUME orderly, NEW h \in Gateways, gateway[h].status = "ready", ~Renaming(h),
                         gateway[h].hostname # GatewayName(h)
                  PROVE  \E n \in Nodes' : node'[n].owner = h /\ node'[n].name = gateway[h].hostname
      OBVIOUS
    <3>1. PICK n \in Nodes : node[n].owner = h /\ node[n].name = gateway[h].hostname
      BY DEF IInv, RowNamesInv
    <3>2. n # k
      BY <1>9, <2>3, <3>1 DEF NoRenameRace
    <3>. QED  BY <1>3, <1>4, <3>1, <3>2
  <2>. QED  BY <1>2, <1>5, <2>1, <2>2, <2>3, <2>4 DEF IInv, RowNamesInv
<1>11. OwnersInv'
  <2>1. NoRenameRace => \A n \in Nodes : n \in Nodes' \/ node[n].owner > 0
    BY <1>1, <1>3, <1>9 DEF Gateways
  <2>2. \A n \in Nodes : node'[n].route = "approved" => node[n].route = "approved"
    BY <1>3, <1>4
  <2>. QED  BY <1>2, <1>3, <1>4, <1>5, <2>1, <2>2, OwnersKept DEF NoRenameRace
<1>. QED  BY <1>5, <1>6, <1>8, <1>10, <1>11 DEF IInv

LEMMA DeleteRowKeeps ==
    ASSUME IInv, NEW r \in Requests, NEW g, g = request[r].on, DeleteRow(r)
    PROVE  IInv'
<1>1. Does(r, "delete") /\ g \in Gateways
  BY DEF DeleteRow, IInv, HandlersInv, Does, Busy, Subjects
<1>2. /\ UNCHANGED <<orderly, node, registration, todo, renames, faults>> /\ End(r)
      /\ gateway' = [gateway EXCEPT ![g] = [NoGateway EXCEPT !.life = gateway[g].life]]
  BY DEF DeleteRow
<1>3. Nodes' = Nodes /\ SameOwners /\ NamesInv' /\ \A n \in Nodes : n \in NodeId
  BY <1>2 DEF Nodes, SameOwners, IInv, NamesInv, GatewayName
<1>4. /\ request' \in [Requests -> RequestRow] /\ HandlersInv'
      /\ ~Busy(r)' /\ \A s \in Requests : s # r => request'[s] = request[s]
  BY <1>2, <1>3, EndHandlers
<1>5. /\ gateway' \in [Gateways -> [status : GatewayStatus, life : 0..MaxLives,
                                   hostname : Names \cup {NoName}, exit : {0} \cup NodeId]]
      /\ \A h \in Gateways : h # g => gateway'[h] = gateway[h]
      /\ gateway'[g].status = "absent" /\ gateway'[g].exit = 0
  <2>1. gateway \in [Gateways -> [status : GatewayStatus, life : 0..MaxLives,
                                 hostname : Names \cup {NoName}, exit : {0} \cup NodeId]]
    BY DEF IInv, TypeOK
  <2>. QED  BY <1>1, <1>2, <2>1 DEF NoGateway, GatewayStatus
<1>6. TypeOK'
  BY <1>2, <1>4, <1>5 DEF IInv, TypeOK, RequestRow
<1>7. RowNamesInv'
  <2>1. orderly => \A s \in Requests : ~Does(s, "rename")' /\ ~Does(s, "delete")'
    BY <1>1, <1>4 DEF IInv, HandlersInv, Does, Busy
  <2>2. orderly => \A h \in Gateways : ~Renaming(h)
    BY <1>1 DEF IInv, HandlersInv, Renaming, Does
  <2>3. \A h \in Gateways : GatewayName(h)' = GatewayName(h)
    BY DEF GatewayName
  <2>. QED  BY <1>2, <1>3, <1>5, <2>1, <2>2, <2>3 DEF IInv, RowNamesInv
<1>8. OwnersInv'
  <2>1. \A s \in Requests : Busy(s)' => Busy(s) /\ request'[s] = request[s]
    BY <1>4 DEF Busy
  <2>2. \A h \in Gateways : gateway'[h].exit \in {0, gateway[h].exit}
    BY <1>5
  <2>. QED  BY <1>2, <1>3, <2>1, <2>2, OwnersKept DEF NoRenameRace
<1>. QED  BY <1>3, <1>4, <1>6, <1>7, <1>8 DEF IInv

-----------------------------------------------------------------------------
(* The handler that admits a device, and failures *)

\* The handler starts with the node that it registered, or with the device's own.
LEMMA ApproveRegisterKeeps ==
    ASSUME IInv, NEW r \in Requests, NEW d \in Devices, ApproveRegister(r, d)
    PROVE  IInv'
<1>1. UNCHANGED <<orderly, gateway, registration, todo, renames, faults>> /\ MayStart(r)
  BY DEF ApproveRegister
<1>2. \A m \in Nodes : m \in NodeId
  BY DEF Nodes
<1>3. PICK n \in NodeId :
        /\ Begin(r, "approve", "routes", d, NoName, n)
        /\ DeviceNode(d, n) \/ (n \in NodesOf(d) /\ node' = node)
  BY <1>2 DEF ApproveRegister, NodesOf
<1>4. /\ node' \in [NodeId -> [owner : (-MaxDevices)..MaxGateways, life : 0..MaxLives,
                              name : Names \cup {NoName}, route : Route]]
      /\ NamesInv'
      /\ \A m \in NodeId : node[m].owner # 0 => node'[m] = node[m]
      /\ \A m \in Nodes : m \in Nodes'
      /\ n \in Nodes' /\ node'[n].owner = -d
      /\ \A m \in Nodes' : m \in Nodes \/ (m = n /\ node'[m].route # "approved")
  <2>1. CASE DeviceNode(d, n)
    <3>1. PICK route \in {"none", "available"} :
            /\ IsNextNode(n)
            /\ node' = [node EXCEPT ![n] = [owner |-> -d, life |-> 0, name |-> FreeName(n, <<"dev", d>>),
                                            route |-> route]]
      BY <2>1 DEF DeviceNode
    <3>2. <<"dev", d>> \in Names
      BY DEF Names
    <3>3. -d \in ((-MaxDevices)..MaxGateways) \ {0} /\ 0 \in 0..MaxLives
      BY BoundsAssumption DEF Devices
    <3>. DEFINE machine == [owner |-> -d, life |-> 0, name |-> FreeName(n, <<"dev", d>>), route |-> route]
    <3>4. /\ machine \in [owner : (-MaxDevices)..MaxGateways, life : 0..MaxLives,
                          name : Names \cup {NoName}, route : Route]
          /\ machine.owner = -d /\ machine.owner # 0 /\ machine.name = FreeName(n, <<"dev", d>>)
          /\ machine.route \in {"none", "available"}
          /\ node' = [node EXCEPT ![n] = machine]
      BY <3>1, <3>2, <3>3, FreeNameType DEF Route
    <3>. HIDE DEF machine
    <3>5. NamesInv'
      BY <3>1, <3>4, JoinNames DEF IInv
    <3>6. node[n].owner = 0 /\ node'[n] = machine /\ \A m \in NodeId : m # n => node'[m] = node[m]
      BY <3>1, <3>4 DEF IsNextNode, IInv, TypeOK
    <3>7. node' \in [NodeId -> [owner : (-MaxDevices)..MaxGateways, life : 0..MaxLives,
                               name : Names \cup {NoName}, route : Route]]
      BY <3>4 DEF IInv, TypeOK
    <3>. QED  BY <3>4, <3>5, <3>6, <3>7 DEF Nodes
  <2>2. CASE n \in NodesOf(d) /\ node' = node
    BY <2>2 DEF NodesOf, Nodes, IInv, TypeOK, NamesInv, GatewayName
  <2>. QED  BY <1>3, <2>1, <2>2
<1>. DEFINE new == [kind |-> "approve", pc |-> "routes", on |-> d, name |-> NoName, node |-> n]
<1>5. new \in RequestRow
  BY DEF RequestRow, Kind, Pc, Devices
<1>6. SameOwners
  BY <1>4 DEF SameOwners
<1>7. /\ request' \in [Requests -> RequestRow] /\ HandlersInv'
      /\ request'[r] = new /\ request[r].pc = "idle"
      /\ \A s \in Requests : s # r => request'[s] = request[s]
      /\ orderly => \A s \in Requests : request[s].pc = "idle"
  BY <1>1, <1>3, <1>5, <1>6, BeginHandlers DEF Begin, Subjects
<1>8. TypeOK'
  BY <1>1, <1>4, <1>7 DEF IInv, TypeOK, RequestRow
<1>9. RowNamesInv'
  <2>1. \A m \in Nodes : node'[m] = node[m]
    BY <1>2, <1>4 DEF Nodes
  <2>. QED  BY <1>1, <1>4, <1>7, <2>1, RowNamesKept DEF Busy, Does
<1>10. OwnersInv'
  <2>. SUFFICES ASSUME NoRenameRace PROVE OwnersInv!2'
    BY <1>1 DEF OwnersInv, NoRenameRace
  <2>1. \A s \in Requests : Busy(s)' => s = r \/ (Busy(s) /\ request'[s] = request[s])
    BY <1>7 DEF Busy
  <2>2. \A s \in Requests : Busy(s) => OwnerOf(s) # 0
    BY BoundsAssumption DEF IInv, HandlersInv, Subjects, OwnerOf, Gateways, Devices
  <2>3. \A s \in Requests : Busy(s)' /\ request'[s].node # 0 => node'[request'[s].node].owner = OwnerOf(s)'
    <3>1. node'[request'[r].node].owner = OwnerOf(r)'
      BY <1>4, <1>7 DEF OwnerOf
    <3>2. \A s \in Requests : Busy(s) /\ request[s].node # 0 => node'[request[s].node].owner = OwnerOf(s)
      BY <1>4, <2>2 DEF IInv, TypeOK, OwnersInv
    <3>. QED  BY <2>1, <3>1, <3>2 DEF OwnerOf
  <2>4. \A s \in Requests : Does(s, "approve")' => request'[s].node \in Nodes'
    BY <1>4, <1>7, <2>1 DEF Does, IInv, OwnersInv
  <2>5. \A g \in Gateways : gateway'[g].exit # 0 => node'[gateway'[g].exit].owner = g
    <3>1. \A g \in Gateways : gateway[g].exit \in {0} \cup NodeId /\ g # 0
      BY DEF IInv, TypeOK, Gateways
    <3>2. \A g \in Gateways : gateway[g].exit # 0 => node[gateway[g].exit].owner = g
      BY DEF IInv, OwnersInv
    <3>. QED  BY <1>1, <1>4, <3>1, <3>2
  <2>6. \A m \in Nodes : node'[m] = node[m]
    BY <1>2, <1>4 DEF Nodes
  <2>7. DeviceNeverExit'
    BY <1>4, <2>6 DEF IInv, OwnersInv, DeviceNeverExit, Tagged
  <2>8. ApprovedOnMesh'
    BY <1>1, <1>4, <2>6 DEF IInv, OwnersInv, ApprovedOnMesh
  <2>. QED  BY <2>3, <2>4, <2>5, <2>7, <2>8
<1>. QED  BY <1>4, <1>7, <1>8, <1>9, <1>10 DEF IInv

\* Its next steps: routes are taken away, and a name is picked.
LEMMA ApproveRoutesKeeps ==
    ASSUME IInv, NEW r \in Requests, NEW k, k = request[r].node, ApproveRoutes(r)
    PROVE  IInv'
<1>1. Does(r, "approve") /\ k \in {0} \cup NodeId
  BY DEF ApproveRoutes, Does, Busy, IInv, TypeOK
<1>2. /\ UNCHANGED <<orderly, gateway, registration, todo, renames, faults>>
      /\ node' = [node EXCEPT ![k].route = IF @ = "approved" THEN "available" ELSE @]
  BY DEF ApproveRoutes
<1>3. \A n \in NodeId : /\ node'[n].owner = node[n].owner /\ node'[n].life = node[n].life
                        /\ node'[n].name = node[n].name
                        /\ node'[n].route = node[n].route
                           \/ (node[n].route = "approved" /\ node'[n].route = "available")
  BY <1>2 DEF IInv, TypeOK
<1>4. SameNodes /\ SameOwners
  BY <1>3 DEF SameNodes, SameOwners
<1>5. node' \in [NodeId -> [owner : (-MaxDevices)..MaxGateways, life : 0..MaxLives,
                           name : Names \cup {NoName}, route : Route]]
  <2>1. CASE k \notin NodeId
    BY <1>2, <2>1 DEF IInv, TypeOK
  <2>2. CASE k \in NodeId
    <3>1. [node[k] EXCEPT !.route = IF @ = "approved" THEN "available" ELSE @]
            \in [owner : (-MaxDevices)..MaxGateways, life : 0..MaxLives,
                 name : Names \cup {NoName}, route : Route]
      BY <2>2, NodeType DEF IInv, Route
    <3>. QED  BY <1>2, <2>2, <3>1 DEF IInv, TypeOK
  <2>. QED  BY <2>1, <2>2
<1>6. request' \in [Requests -> RequestRow] /\ HandlersInv'
  <2>1. request[r].name \in AnyName /\ "list" \in Pc
    BY DEF IInv, TypeOK, Pc, AnyName
  <2>2. Stepped(r, "list", request[r].name)
    BY DEF ApproveRoutes, Step, IInv, TypeOK, Stepped
  <2>3. request[r].kind = "approve" /\ Busy(r) /\ orderly' = orderly /\ todo' = todo /\ renames' = renames
    BY <1>1, <1>2 DEF Does
  <2>. QED  BY <1>4, <2>1, <2>2, <2>3, StepHandlers
<1>7. TypeOK'
  BY <1>2, <1>5, <1>6 DEF IInv, TypeOK, RequestRow
<1>8. \A s \in Requests :
        \/ request'[s] = request[s]
        \/ Does(s, "approve") /\ request'[s] = [request[s] EXCEPT !.pc = "list"]
  BY <1>1 DEF ApproveRoutes, Step, IInv, TypeOK
<1>9. \A n \in NodeId : node'[n].route = "approved" => node[n].route = "approved"
  BY <1>3
<1>. QED  BY <1>2, <1>4, <1>6, <1>7, <1>8, <1>9, RoutesKeep

LEMMA ApproveListKeeps ==
    ASSUME IInv, NEW r \in Requests, ApproveList(r)
    PROVE  IInv'
<1>1. Does(r, "approve") /\ UNCHANGED <<orderly, node, gateway, registration, todo, renames, faults>>
  BY DEF ApproveList, Does, Busy
<1>2. Nodes' = Nodes /\ SameOwners /\ NamesInv' /\ \A n \in Nodes : n \in NodeId
  BY <1>1 DEF Nodes, SameOwners, IInv, NamesInv, GatewayName
<1>3. PICK i \in 0..MaxExit : Stepped(r, "rename", <<"ex", i>>)
  BY DEF ApproveList, Stepped
<1>4. <<"ex", i>> \in AnyName /\ <<"ex", i>> \in ExitNames /\ "rename" \in Pc
  BY DEF AnyName, ExitNames, Names, Pc
<1>5. /\ request' \in [Requests -> RequestRow] /\ HandlersInv'
      /\ \A s \in Requests :
            /\ request'[s].kind = request[s].kind /\ request'[s].on = request[s].on
            /\ request'[s].node = request[s].node /\ (Busy(s)' <=> Busy(s))
            /\ s # r => request'[s] = request[s]
  <2>1. request[r].kind = "approve" /\ Busy(r) /\ orderly' = orderly /\ todo' = todo /\ renames' = renames
    BY <1>1 DEF Does
  <2>. QED  BY <1>2, <1>3, <1>4, <2>1, StepHandlers
<1>6. TypeOK'
  BY <1>1, <1>5 DEF IInv, TypeOK, RequestRow
<1>7. RowNamesInv'
  BY <1>1, <1>2, <1>5, RowNamesKept DEF Does
<1>8. OwnersInv'
  BY <1>1, <1>2, <1>5, OwnersKept DEF NoRenameRace
<1>. QED  BY <1>2, <1>5, <1>6, <1>7, <1>8 DEF IInv

\* The row names the node of the device, which is there.
LEMMA ApproveMarkKeeps ==
    ASSUME IInv, NEW r \in Requests, NEW d, d = request[r].on, ApproveMark(r)
    PROVE  IInv'
<1>1. Does(r, "approve") /\ d \in Devices /\ OwnerOf(r) = -d
  BY DEF ApproveMark, IInv, HandlersInv, Does, Busy, Subjects, OwnerOf
<1>2. /\ UNCHANGED <<orderly, node, gateway, todo, renames, faults>> /\ End(r)
      /\ registration' = [registration EXCEPT ![d] = MarkApproved(request[r].node)]
  BY DEF ApproveMark
<1>3. Nodes' = Nodes /\ SameOwners /\ NamesInv' /\ \A n \in Nodes : n \in NodeId /\ n # 0
  BY <1>2 DEF Nodes, NodeId, SameOwners, IInv, NamesInv, GatewayName
<1>4. /\ request' \in [Requests -> RequestRow] /\ HandlersInv'
      /\ ~Busy(r)' /\ \A s \in Requests : s # r => request'[s] = request[s]
  BY <1>2, <1>3, EndHandlers
<1>5. /\ registration' \in [Devices -> [status : RegistrationStatus, node : {0} \cup NodeId]]
      /\ \A e \in Devices : e # d => registration'[e] = registration[e]
      /\ registration'[d].node = request[r].node
  BY <1>1, <1>2 DEF IInv, TypeOK, RegistrationStatus, MarkApproved
<1>6. TypeOK'
  BY <1>2, <1>4, <1>5 DEF IInv, TypeOK, RequestRow
<1>7. \A s \in Requests : Busy(s)' => Busy(s) /\ request'[s] = request[s]
  BY <1>4 DEF Busy
<1>8. RowNamesInv'
  <2>1. \A s \in Requests : /\ Does(s, "rename")' <=> Does(s, "rename")
                            /\ Does(s, "delete")' <=> Does(s, "delete")
                            /\ Does(s, "rename") \/ Does(s, "delete") => request'[s] = request[s]
    BY <1>1, <1>4, <1>7 DEF Does, Busy
  <2>. QED  BY <1>2, <1>3, <2>1, RowNamesKept
<1>9. OwnersInv'
  <2>. SUFFICES ASSUME NoRenameRace PROVE OwnersInv!2'
    BY <1>2 DEF OwnersInv, NoRenameRace
  <2>1. request[r].node \in Nodes /\ node[request[r].node].owner = -d
    BY <1>1, <1>3 DEF IInv, OwnersInv, Does
  <2>2. ApprovedOnMesh'
    BY <1>2, <1>3, <1>5, <2>1 DEF IInv, OwnersInv, ApprovedOnMesh
  <2>. QED  BY <1>2, <1>3, <1>7, <2>2 DEF IInv, OwnersInv, Does, OwnerOf, DeviceNeverExit, Tagged, NoRenameRace
<1>. QED  BY <1>3, <1>4, <1>6, <1>8, <1>9 DEF IInv

LEMMA FailureKeeps ==
    ASSUME IInv, NEW r \in Requests, HeadscaleFails(r)
    PROVE  IInv'
<1>1. /\ End(r) /\ request[r].pc # "commit"
      /\ UNCHANGED <<orderly, node, gateway, registration, todo, renames>>
      /\ faults' \in 0..MaxFaults
  BY BoundsAssumption DEF HeadscaleFails, IInv, TypeOK
<1>. QED  BY <1>1, GivesUp

-----------------------------------------------------------------------------
(* The invariant, and what it says *)

LEMMA InitInv == Init => IInv
<1>. SUFFICES ASSUME Init PROVE IInv
  OBVIOUS
<1>1. Nodes = {} /\ \A r \in Requests : ~Busy(r)
  BY DEF Init, Nodes, NoNode, Busy, Idle
<1>2. TypeOK
  BY BoundsAssumption
  DEF Init, TypeOK, NoNode, Route, NoGateway, GatewayStatus, NoRegistration, RegistrationStatus, Idle, Kind, Pc
<1>3. HandlersInv /\ NamesInv /\ RowNamesInv
  BY <1>1 DEF Init, HandlersInv, NamesInv, RowNamesInv, Does, NoGateway, Idle
<1>4. OwnersInv
  BY <1>1 DEF Init, OwnersInv, Does, NoGateway, NoRegistration, DeviceNeverExit, ApprovedOnMesh
<1>. QED  BY <1>2, <1>3, <1>4 DEF IInv

LEMMA NextKeeps == ASSUME IInv, NoGatewayNames, [Next]_vars PROVE IInv'
<1>1. ASSUME NEW g \in Gateways, CreateGateway(g) \/ Join(g) PROVE IInv'
  BY <1>1, CreateKeeps, VmJoinKeeps
<1>2. ASSUME NEW d \in Devices, Touch(d) \/ JoinWithKey(d) \/ Reject(d) PROVE IInv'
  BY <1>2, DevicesKeep
<1>3. ASSUME NEW r \in Requests, HandlerStep(r) PROVE IInv'
  <2>1. CASE FinalizeRecord(r)
    BY <2>1, FinalizeRecordKeeps
  <2>2. CASE RenameApply(r) \/ ApproveRename(r)
    BY <2>2, RenameKeeps DEF RenameApply, ApproveRename
  <2>3. CASE RenameCommit(r)
    BY <2>3, RenameCommitKeeps
  <2>4. CASE DeleteNode(r) \/ DeleteRow(r)
    BY <2>4, DeleteNodeKeeps, DeleteRowKeeps
  <2>5. CASE ApproveRoutes(r) \/ ApproveList(r) \/ ApproveMark(r)
    BY <2>5, ApproveRoutesKeeps, ApproveListKeeps, ApproveMarkKeeps
  <2>. QED  BY <1>3, <2>1, <2>2, <2>3, <2>4, <2>5 DEF HandlerStep
<1>4. ASSUME NEW r \in Requests, HeadscaleFails(r) PROVE IInv'
  BY <1>4, FailureKeeps
<1>5. ASSUME NEW r \in Requests, NEW g \in Gateways, FinalizeFind(r, g) \/ DeleteFind(r, g) PROVE IInv'
  BY <1>5, FinalizeFindKeeps, DeleteFindKeeps
<1>6. ASSUME NEW r \in Requests, NEW g \in Gateways, NEW name \in Chosen, RenameRead(r, g, name) PROVE IInv'
  BY <1>6, RenameReadKeeps
<1>7. ASSUME NEW r \in Requests, NEW d \in Devices, ApproveRegister(r, d) PROVE IInv'
  BY <1>7, ApproveRegisterKeeps
<1>8. CASE Sync
  BY <1>8, SyncKeeps
<1>9. CASE UNCHANGED vars
  <2>. USE <1>9 DEF vars
  <2>1. TypeOK' /\ HandlersInv' /\ NamesInv'
    BY DEF IInv, TypeOK, HandlersInv, NamesInv, Busy, Does, Nodes, GatewayName,
           Subjects, Steps, Devices, Gateways, ExitNames
  <2>2. RowNamesInv'
    BY DEF IInv, RowNamesInv, Busy, Does, Renaming, Nodes, GatewayName
  <2>3. OwnersInv'
    BY DEF IInv, OwnersInv, NoRenameRace, Busy, Does, OwnerOf, Nodes, DeviceNeverExit, ApprovedOnMesh, Tagged
  <2>. QED  BY <2>1, <2>2, <2>3 DEF IInv
<1>. QED  BY <1>1, <1>2, <1>3, <1>4, <1>5, <1>6, <1>7, <1>8, <1>9 DEF Next

LEMMA Invariance == ASSUME NoGatewayNames PROVE Spec => []IInv
<1>1. IInv /\ [Next]_vars => IInv'
  BY NextKeeps
<1>. QED  BY InitInv, <1>1, PTL DEF Spec

\* The shapes of nodes, rows and handlers: what a handler looks up is a node or none.
THEOREM TypeCorrect == ASSUME NoGatewayNames PROVE Spec => []TypeOK
<1>1. IInv => TypeOK
  BY DEF IInv
<1>. QED  BY Invariance, <1>1, PTL

\* find_gateway_headscale_node finds a node of the gateway that it is called for.
THEOREM FindsItsOwn == ASSUME NoGatewayNames PROVE Spec => []FoundIsOwn
<1>1. IInv => FoundIsOwn
  <2>. SUFFICES ASSUME IInv, orderly, IsQuiet, NEW g \in Gateways,
                       gateway[g].status \in {"pending", "ready"}, Found(g) # 0
                PROVE  node[Found(g)].owner = g
    BY DEF FoundIsOwn
  <2>1. \A r \in Requests : ~Does(r, "rename")
    BY DEF IsQuiet, Does, Busy
  <2>. QED  BY <2>1, FoundIn, OwnNames DEF NoRenameRace
<1>. QED  BY Invariance, <1>1, PTL

\* No device's exit route is ever approved, by assign_exit_node_name's handler, by a
\* gateway's or by the periodic sync: the node that a gateway's handler approves is its own.
THEOREM DevicesNeverExits == ASSUME NoGatewayNames PROVE Spec => []DeviceNeverExit
<1>1. IInv => DeviceNeverExit
  BY DEF IInv, OwnersInv, DeviceNeverExit
<1>. QED  BY Invariance, <1>1, PTL

\* approve_registration_ui's row names a live node of its device for ever.
THEOREM ApprovedStayOnMesh == ASSUME NoGatewayNames PROVE Spec => []ApprovedOnMesh
<1>1. IInv => ApprovedOnMesh
  BY DEF IInv, OwnersInv, ApprovedOnMesh
<1>. QED  BY Invariance, <1>1, PTL

\* Every step but delete_gateway_headscale_node's leaves every node on the tailnet.
LEMMA OthersDeleteNone ==
    ASSUME IInv, [Next]_vars, \A r \in Requests : ~DeleteNode(r)
    PROVE  Nodes \subseteq Nodes'
<1>. DEFINE Kept == \A n \in Nodes : node'[n].owner = node[n].owner /\ node'[n].route # "deleted"
<1>1. \A n \in Nodes : n \in NodeId /\ node[n].owner # 0 /\ node[n].route # "deleted"
  BY DEF Nodes
<1>2. Kept => Nodes \subseteq Nodes'
  BY <1>1 DEF Nodes
<1>3. node' = node => Kept
  BY <1>1
<1>4. ASSUME NEW g \in Gateways, CreateGateway(g) \/ Join(g) PROVE Kept
  <2>1. CASE Join(g)
    BY <1>1, <2>1 DEF Join, IsNextNode, IInv, TypeOK
  <2>. QED  BY <1>3, <1>4, <2>1 DEF CreateGateway
<1>5. ASSUME NEW d \in Devices, NEW n \in NodeId, DeviceNode(d, n) PROVE Kept
  BY <1>1, <1>5 DEF DeviceNode, IsNextNode, IInv, TypeOK
<1>6. ASSUME NEW d \in Devices, Touch(d) \/ JoinWithKey(d) \/ Reject(d) PROVE Kept
  BY <1>3, <1>5, <1>6 DEF Touch, JoinWithKey, Reject
<1>7. ASSUME NEW r \in Requests, HandlerStep(r) PROVE Kept
  <2>1. CASE FinalizeRecord(r)
    BY <1>1, <2>1, ApprovedNode DEF FinalizeRecord, IInv
  <2>2. ASSUME NEW pc, Rename(r, pc) PROVE Kept
    BY <1>1, <1>3, <2>2 DEF Rename, IInv, TypeOK
  <2>3. CASE RenameApply(r) \/ ApproveRename(r)
    BY <2>2, <2>3 DEF RenameApply, ApproveRename
  <2>4. CASE ApproveRoutes(r)
    BY <1>1, <2>4 DEF ApproveRoutes, IInv, TypeOK
  <2>5. CASE RenameCommit(r) \/ DeleteRow(r) \/ ApproveList(r) \/ ApproveMark(r)
    BY <1>3, <2>5 DEF RenameCommit, DeleteRow, ApproveList, ApproveMark
  <2>. QED  BY <1>7, <2>1, <2>3, <2>4, <2>5 DEF HandlerStep
<1>8. ASSUME NEW r \in Requests, NEW g \in Gateways, FinalizeFind(r, g) PROVE Kept
  BY <1>1, <1>8, NodeType DEF FinalizeFind, IInv
<1>9. ASSUME NEW r \in Requests, NEW d \in Devices, ApproveRegister(r, d) PROVE Kept
  BY <1>3, <1>5, <1>9 DEF ApproveRegister
<1>10. ASSUME NEW n \in NodeId, SyncApprove(n) PROVE Kept
  BY <1>1, <1>10, ApprovedNode DEF SyncApprove, IInv, TypeOK
<1>11. ASSUME NEW r \in Requests, NEW g \in Gateways,
              DeleteFind(r, g) \/ (\E name \in Chosen : RenameRead(r, g, name))
       PROVE  Kept
  BY <1>3, <1>11 DEF DeleteFind, RenameRead
<1>12. ASSUME NEW r \in Requests, HeadscaleFails(r) PROVE Kept
  BY <1>3, <1>12 DEF HeadscaleFails
<1>13. ASSUME SyncList \/ UNCHANGED vars PROVE Kept
  BY <1>3, <1>13 DEF SyncList, vars
<1>. HIDE DEF Kept
<1>14. Kept
  BY <1>4, <1>6, <1>7, <1>8, <1>9, <1>10, <1>11, <1>12, <1>13 DEF Next, Sync
<1>. QED  BY <1>2, <1>14 DEF Kept

\* The node that a deletion takes off the tailnet is one of the gateway that it deletes,
\* although it was found by names, which devices and renamed gateways have too.
THEOREM DeletesOnlyItsOwn == ASSUME NoGatewayNames PROVE Spec => OwnNodeDeleted
<1>1. ASSUME IInv, [Next]_vars, NoRenameRace, NEW n \in NodeId, n \in Nodes, n \notin Nodes'
      PROVE  \E r \in Requests : request[r].kind = "delete" /\ request[r].on = node[n].owner
  <2>1. PICK r \in Requests : DeleteNode(r)
    BY <1>1, OthersDeleteNone
  <2>2. Does(r, "delete") /\ node' \in {node, Removed(r)}
    BY <2>1 DEF DeleteNode, Does, Busy
  <2>3. n = request[r].node
    BY <1>1, <2>2, RemovedNodes DEF IInv
  <2>4. n # 0
    BY DEF NodeId
  <2>. QED  BY <1>1, <2>2, <2>3, <2>4 DEF IInv, OwnersInv, Does, OwnerOf
<1>2. IInv /\ [Next]_vars =>
        [NoRenameRace => \A n \in NodeId : n \in Nodes /\ n \notin Nodes' =>
          \E r \in Requests : request[r].kind = "delete" /\ request[r].on = node[n].owner]_vars
  BY <1>1
<1>. QED  BY Invariance, <1>2, PTL DEF Spec, OwnNodeDeleted

-----------------------------------------------------------------------------
(* Careful operators and a Headscale that answers *)

LEMMA FirstOfOne == ASSUME NEW n \in NodeId PROVE First({n}) = n
<1>1. IsFirst(n, {n})
  BY DEF IsFirst, NodeId
<1>. QED  BY <1>1 DEF First

\* What a step does to machines: none changes hands, and one may join.
LEMMA MachinesKeep ==
    ASSUME IInv, [Next]_vars
    PROVE  \/ \A n \in NodeId : node'[n].owner = node[n].owner /\ node'[n].life = node[n].life
           \/ \E k \in NodeId :
                /\ \A n \in NodeId : n # k => node'[n] = node[n]
                /\ node[k].owner = 0
                /\ \/ node'[k].owner < 0
                   \/ \E g \in Gateways :
                        /\ node'[k].owner = g /\ node'[k].life = gateway[g].life
                        /\ \A n \in NodeId : ~(node[n].owner = g /\ node[n].life = gateway[g].life)
<1>. DEFINE Same == \A n \in NodeId : node'[n].owner = node[n].owner /\ node'[n].life = node[n].life
            Joins == \E k \in NodeId :
                /\ \A n \in NodeId : n # k => node'[n] = node[n]
                /\ node[k].owner = 0
                /\ \/ node'[k].owner < 0
                   \/ \E g \in Gateways :
                        /\ node'[k].owner = g /\ node'[k].life = gateway[g].life
                        /\ \A n \in NodeId : ~(node[n].owner = g /\ node[n].life = gateway[g].life)
<1>1. node' = node => Same
  OBVIOUS
<1>2. ASSUME NEW g \in Gateways, CreateGateway(g) \/ Join(g) PROVE Same \/ Joins
  <2>1. CASE Join(g)
    <3>1. PICK k \in NodeId :
            /\ IsNextNode(k)
            /\ node' = [node EXCEPT ![k] = [owner |-> g, life |-> gateway[g].life, route |-> "none",
                                            name |-> FreeName(k, GatewayName(g))]]
      BY <2>1 DEF Join
    <3>2. node[k].owner = 0 /\ node'[k].owner = g /\ node'[k].life = gateway[g].life
          /\ \A n \in NodeId : n # k => node'[n] = node[n]
      BY <3>1 DEF IsNextNode, IInv, TypeOK
    <3>. QED  BY <2>1, <3>2 DEF Join
  <2>. QED  BY <1>1, <1>2, <2>1 DEF CreateGateway
<1>3. ASSUME NEW d \in Devices, NEW k \in NodeId, DeviceNode(d, k) PROVE Joins
  <2>1. node[k].owner = 0 /\ node'[k].owner = -d /\ \A n \in NodeId : n # k => node'[n] = node[n]
    BY <1>3 DEF DeviceNode, IsNextNode, IInv, TypeOK
  <2>. QED  BY <2>1, BoundsAssumption DEF Devices
<1>4. ASSUME NEW d \in Devices, Touch(d) \/ JoinWithKey(d) \/ Reject(d) PROVE Same \/ Joins
  BY <1>1, <1>3, <1>4 DEF Touch, JoinWithKey, Reject
<1>5. ASSUME NEW r \in Requests, HandlerStep(r) PROVE Same
  <2>1. CASE FinalizeRecord(r)
    BY <2>1, ApprovedNode DEF FinalizeRecord, IInv
  <2>2. ASSUME NEW pc, Rename(r, pc) PROVE Same
    BY <1>1, <2>2 DEF Rename, IInv, TypeOK
  <2>3. CASE RenameApply(r) \/ ApproveRename(r)
    BY <2>2, <2>3 DEF RenameApply, ApproveRename
  <2>4. CASE ApproveRoutes(r)
    BY <2>4 DEF ApproveRoutes, IInv, TypeOK
  <2>5. CASE DeleteNode(r)
    BY <2>5, RemovedNodes DEF DeleteNode, IInv
  <2>6. CASE RenameCommit(r) \/ DeleteRow(r) \/ ApproveList(r) \/ ApproveMark(r)
    BY <1>1, <2>6 DEF RenameCommit, DeleteRow, ApproveList, ApproveMark
  <2>. QED  BY <1>5, <2>1, <2>3, <2>4, <2>5, <2>6 DEF HandlerStep
<1>6. ASSUME NEW r \in Requests, NEW g \in Gateways, FinalizeFind(r, g) PROVE Same
  BY <1>6, NodeType DEF FinalizeFind, IInv
<1>7. ASSUME NEW r \in Requests, NEW d \in Devices, ApproveRegister(r, d) PROVE Same \/ Joins
  BY <1>1, <1>3, <1>7 DEF ApproveRegister
<1>8. ASSUME NEW n \in NodeId, SyncApprove(n) PROVE Same
  BY <1>8, ApprovedNode DEF SyncApprove, IInv, TypeOK
<1>9. ASSUME NEW r \in Requests, NEW g \in Gateways,
             DeleteFind(r, g) \/ (\E name \in Chosen : RenameRead(r, g, name))
      PROVE  Same
  BY <1>1, <1>9 DEF DeleteFind, RenameRead
<1>10. ASSUME NEW r \in Requests, HeadscaleFails(r) PROVE Same
  BY <1>1, <1>10 DEF HeadscaleFails
<1>11. ASSUME SyncList \/ UNCHANGED vars PROVE Same
  BY <1>1, <1>11 DEF SyncList, vars
<1>. HIDE DEF Same, Joins
<1>12. Same \/ Joins
  BY <1>2, <1>4, <1>5, <1>6, <1>7, <1>8, <1>9, <1>10, <1>11 DEF Next, Sync
<1>. QED  BY <1>12 DEF Same, Joins

LEMMA OnceKeeps == ASSUME IInv, OnceInv, [Next]_vars PROVE OnceInv'
<1>1. CASE \A n \in NodeId : node'[n].owner = node[n].owner /\ node'[n].life = node[n].life
  BY <1>1 DEF OnceInv
<1>2. ASSUME NEW k \in NodeId,
             \A n \in NodeId : n # k => node'[n] = node[n],
             \/ node'[k].owner < 0
             \/ \E g \in Gateways :
                  /\ node'[k].owner = g /\ node'[k].life = gateway[g].life
                  /\ \A n \in NodeId : ~(node[n].owner = g /\ node[n].life = gateway[g].life)
      PROVE  OnceInv'
  <2>. SUFFICES ASSUME NEW m \in NodeId, NEW n \in NodeId, node'[m].owner > 0,
                       node'[m].owner = node'[n].owner, node'[m].life = node'[n].life
                PROVE  m = n
    BY DEF OnceInv
  <2>1. CASE m = k
    BY <1>2, <2>1 DEF IInv, TypeOK
  <2>2. CASE n = k
    BY <1>2, <2>2 DEF IInv, TypeOK
  <2>3. CASE m # k /\ n # k
    BY <1>2, <2>3 DEF OnceInv
  <2>. QED  BY <2>1, <2>2, <2>3
<1>. QED  BY <1>1, <1>2, MachinesKeep

\* A gateway has at most one live node.
LEMMA OneNode ==
    ASSUME OnceInv, Careful, NEW g \in Gateways, NEW m \in Nodes, NEW n \in Nodes,
           node[m].owner = g, node[n].owner = g
    PROVE  m = n
  BY DEF OnceInv, Careful, Nodes, Gateways

\* A step that leaves gateways, their nodes and their handlers alone.
GatewayNodesKept ==
    /\ \A n \in Nodes : /\ n \in Nodes'
                        /\ node'[n].owner = node[n].owner /\ node'[n].life = node[n].life
                        /\ node'[n].name = node[n].name \/ node[n].owner < 0
    /\ \A n \in Nodes' : n \in Nodes \/ node'[n].owner < 0
    /\ \A n \in NodeId : node[n].owner > 0 => node'[n].owner = node[n].owner /\ node'[n].life = node[n].life

GatewayHandlersKept ==
    /\ \A s \in Requests : Busy(s)' /\ ~Does(s, "approve")' => Busy(s) /\ request'[s] = request[s]
    /\ \A s \in Requests : Busy(s) /\ ~Does(s, "approve") => request'[s] = request[s]

LEMMA CarefulKept ==
    ASSUME IInv, Careful, UNCHANGED gateway, GatewayNodesKept, GatewayHandlersKept
    PROVE  Careful'
<1>. USE DEF GatewayNodesKept, GatewayHandlersKept
<1>1. \A s \in Requests : /\ Does(s, "finalize")' => Does(s, "finalize") /\ request'[s] = request[s]
                          /\ Does(s, "rename")' => Does(s, "rename") /\ request'[s] = request[s]
                          /\ Does(s, "delete")' => Does(s, "delete") /\ request'[s] = request[s]
  BY DEF Does
<1>2. \A s \in Requests : /\ Does(s, "rename") => Does(s, "rename")' /\ request'[s] = request[s]
                          /\ Does(s, "delete") => Does(s, "delete")' /\ request'[s] = request[s]
  BY DEF Does, Busy
<1>3. \A g \in Gateways : Renaming(g)' <=> Renaming(g)
  BY <1>1, <1>2 DEF Renaming
<1>4. \A g \in Gateways : g > 0 /\ ~(g < 0)
  BY DEF Gateways
<1>5. \A s \in Requests : Busy(s) => request[s].on \in Subjects(request[s].kind)
  BY DEF IInv, HandlersInv
<1>6. \A s \in Requests, kind \in {"finalize", "delete"} : Does(s, kind) => request[s].on \in Gateways
  BY <1>5 DEF Does, Subjects
<1>7. Careful!1'
  <2>. SUFFICES ASSUME NEW s \in Requests, Does(s, "finalize")'
                PROVE  /\ gateway'[request'[s].on].status = "pending"
                       /\ \E n \in Nodes' : node'[n].owner = request'[s].on
    OBVIOUS
  <2>1. Does(s, "finalize") /\ request'[s] = request[s]
    BY <1>1
  <2>2. PICK n \in Nodes : node[n].owner = request[s].on
    BY <2>1 DEF Careful
  <2>. QED  BY <2>1, <2>2 DEF Careful
<1>8. Careful!2'
  BY <1>1 DEF Careful
<1>9. Careful!3'
  <2>. SUFFICES ASSUME NEW s \in Requests, Does(s, "delete")', NEW g, g = request'[s].on
                PROVE  /\ \E n \in NodeId : node'[n].owner = g /\ node'[n].life = gateway'[g].life
                       /\ \A n \in Nodes' : node'[n].owner = g => request'[s].pc = "remove" /\ n = request'[s].node
    OBVIOUS
  <2>1. Does(s, "delete") /\ request'[s] = request[s]
    BY <1>1
  <2>2. g \in Gateways /\ g > 0 /\ ~(g < 0)
    BY <1>4, <1>6, <2>1
  <2>3. PICK n \in NodeId : node[n].owner = g /\ node[n].life = gateway[g].life
    BY <2>1 DEF Careful
  <2>4. \A m \in Nodes : node[m].owner = g => request[s].pc = "remove" /\ m = request[s].node
    BY <2>1 DEF Careful
  <2>5. \A m \in Nodes' : node'[m].owner = g => m \in Nodes /\ node[m].owner = g
    BY <2>2
  <2>. QED  BY <2>1, <2>2, <2>3, <2>4, <2>5
<1>10. Careful!4'
  <2>. SUFFICES ASSUME NEW g \in Gateways, gateway[g].status = "deleting"
                PROVE  \E r \in Requests : Does(r, "delete")' /\ request'[r].on = g
    OBVIOUS
  <2>1. PICK r \in Requests : Does(r, "delete") /\ request[r].on = g
    BY DEF Careful
  <2>. QED  BY <1>2, <2>1
<1>11. Careful!5'
  <2>. SUFFICES ASSUME NEW n \in Nodes', NEW g \in Gateways, node'[n].owner = g
                PROVE  /\ gateway'[g].status # "absent" /\ node'[n].life = gateway'[g].life
                       /\ ~Renaming(g)' => node'[n].name = gateway'[g].hostname
    OBVIOUS
  <2>1. n \in Nodes
    BY <1>4
  <2>2. node[n].owner = g /\ node'[n].life = node[n].life /\ node'[n].name = node[n].name
    BY <1>4, <2>1
  <2>. QED  BY <1>3, <2>1, <2>2 DEF Careful
<1>12. Careful!6'
  BY DEF Careful
<1>. QED  BY <1>7, <1>8, <1>9, <1>10, <1>11, <1>12 DEF Careful

LEMMA NodesFrames ==
    ASSUME IInv
    PROVE  /\ node' = node => GatewayNodesKept
           /\ SameNodes => GatewayNodesKept
           /\ \A d \in Devices, n \in NodeId : DeviceNode(d, n) => GatewayNodesKept
           /\ \A r \in Requests : \A pc : Does(r, "approve") /\ orderly /\ Rename(r, pc) => GatewayNodesKept
<1>1. SameNodes => GatewayNodesKept
  BY SameNodesSame DEF SameNodes, GatewayNodesKept, Nodes
<1>2. node' = node => GatewayNodesKept
  BY <1>1 DEF SameNodes
<1>3. ASSUME NEW d \in Devices, NEW n \in NodeId, DeviceNode(d, n) PROVE GatewayNodesKept
  <2>1. node[n].owner = 0 /\ node'[n].owner = -d /\ \A m \in NodeId : m # n => node'[m] = node[m]
    BY <1>3 DEF DeviceNode, IsNextNode, IInv, TypeOK
  <2>2. -d < 0
    BY BoundsAssumption DEF Devices
  <2>. QED  BY <2>1, <2>2 DEF GatewayNodesKept, Nodes
<1>4. ASSUME NEW r \in Requests, NEW pc, Does(r, "approve"), orderly, Rename(r, pc) PROVE GatewayNodesKept
  <2>1. CASE node' = node
    BY <1>2, <2>1
  <2>2. CASE ~Refused(r) /\ node' = [node EXCEPT ![request[r].node].name = request[r].name]
    <3>1. request[r].node \in Nodes /\ request[r].node \in NodeId /\ request[r].node # 0
      BY <2>2 DEF Refused, Nodes, NodeId
    <3>2. node[request[r].node].owner = -request[r].on /\ request[r].on \in Devices
      BY <1>4, <3>1 DEF IInv, OwnersInv, HandlersInv, NoRenameRace, Does, OwnerOf, Subjects
    <3>3. node[request[r].node].owner < 0
      BY <3>2, BoundsAssumption DEF Devices
    <3>4. \A n \in NodeId : /\ node'[n].owner = node[n].owner /\ node'[n].life = node[n].life
                            /\ node'[n].route = node[n].route
                            /\ n # request[r].node => node'[n].name = node[n].name
      BY <2>2, <3>1 DEF IInv, TypeOK
    <3>. QED  BY <3>3, <3>4 DEF GatewayNodesKept, Nodes
  <2>. QED  BY <1>4, <2>1, <2>2 DEF Rename
<1>. QED  BY <1>1, <1>2, <1>3, <1>4

\* What a machine, a device's handler, or the periodic sync does.
LEMMA DevicesCareful ==
    ASSUME IInv, Careful, orderly,
           \/ \E d \in Devices : Touch(d) \/ JoinWithKey(d) \/ Reject(d)
           \/ \E r \in Requests :
                \/ ApproveRoutes(r) \/ ApproveList(r) \/ ApproveRename(r) \/ ApproveMark(r)
                \/ \E d \in Devices : ApproveRegister(r, d)
           \/ Sync \/ UNCHANGED vars
    PROVE  Careful'
<1>1. \A r \in Requests : request[r] \in RequestRow
  BY DEF IInv, TypeOK, RequestRow
<1>2. request' = request => GatewayHandlersKept
  BY DEF GatewayHandlersKept, Busy, Does
<1>3. ASSUME NEW r \in Requests, \A s \in Requests : s # r => request'[s] = request[s],
             Does(r, "approve") \/ ~Busy(r), Does(r, "approve")' \/ ~Busy(r)'
      PROVE  GatewayHandlersKept
  BY <1>3 DEF GatewayHandlersKept, Busy, Does
<1>4. ASSUME NEW r \in Requests, Does(r, "approve"), NEW pc,
             Step(r, pc) \/ End(r) \/ \E name : request' = [request EXCEPT ![r].pc = pc, ![r].name = name]
      PROVE  GatewayHandlersKept
  <2>1. \A s \in Requests : s # r => request'[s] = request[s]
    BY <1>4 DEF Step, End, IInv, TypeOK
  <2>2. Does(r, "approve")' \/ ~Busy(r)'
    BY <1>1, <1>4 DEF Step, End, Does, Busy, Idle, RequestRow, IInv, TypeOK
  <2>. QED  BY <1>3, <1>4, <2>1, <2>2
<1>5. ASSUME NEW d \in Devices, Touch(d) \/ JoinWithKey(d) \/ Reject(d) PROVE Careful'
  BY <1>2, <1>5, NodesFrames, CarefulKept DEF Touch, JoinWithKey, Reject
<1>6. CASE Sync \/ UNCHANGED vars
  <2>1. ASSUME NEW n \in NodeId, SyncApprove(n) PROVE SameNodes
    BY <2>1, ApprovedNode DEF SyncApprove, SameNodes, Nodes, IInv, TypeOK
  <2>2. request' = request /\ gateway' = gateway /\ GatewayNodesKept
    BY <1>6, <2>1, NodesFrames DEF Sync, SyncList, SyncApprove, vars
  <2>. QED  BY <1>2, <2>2, CarefulKept
<1>7. ASSUME NEW r \in Requests, ApproveRoutes(r) PROVE Careful'
  <2>1. SameNodes
    BY <1>7 DEF ApproveRoutes, SameNodes, IInv, TypeOK
  <2>2. Does(r, "approve") /\ gateway' = gateway /\ Step(r, "list")
    BY <1>7 DEF ApproveRoutes, Does, Busy
  <2>3. GatewayHandlersKept
    BY <1>4, <2>2
  <2>. QED  BY <2>1, <2>2, <2>3, NodesFrames, CarefulKept
<1>8. ASSUME NEW r \in Requests, ApproveList(r) PROVE Careful'
  <2>1. Does(r, "approve") /\ gateway' = gateway /\ node' = node
    BY <1>8 DEF ApproveList, Does, Busy
  <2>2. PICK i \in 0..MaxExit : request' = [request EXCEPT ![r].pc = "rename", ![r].name = <<"ex", i>>]
    BY <1>8 DEF ApproveList
  <2>3. GatewayHandlersKept
    BY <1>4, <2>1, <2>2
  <2>. QED  BY <2>1, <2>3, NodesFrames, CarefulKept
<1>9. ASSUME NEW r \in Requests, ApproveRename(r) PROVE Careful'
  <2>1. Does(r, "approve") /\ gateway' = gateway /\ Rename(r, "mark")
    BY <1>9 DEF ApproveRename, Does, Busy
  <2>2. GatewayHandlersKept
    BY <1>4, <2>1 DEF Rename
  <2>. QED  BY <2>1, <2>2, NodesFrames, CarefulKept
<1>10. ASSUME NEW r \in Requests, ApproveMark(r) PROVE Careful'
  <2>1. Does(r, "approve") /\ gateway' = gateway /\ node' = node /\ End(r)
    BY <1>10 DEF ApproveMark, Does, Busy
  <2>2. GatewayHandlersKept
    BY <1>4, <2>1
  <2>. QED  BY <2>1, <2>2, NodesFrames, CarefulKept
<1>11. ASSUME NEW r \in Requests, NEW d \in Devices, ApproveRegister(r, d) PROVE Careful'
  <2>1. ~Busy(r) /\ gateway' = gateway
    BY <1>11 DEF ApproveRegister, MayStart, Busy
  <2>2. PICK n : Begin(r, "approve", "routes", d, NoName, n)
    BY <1>11 DEF ApproveRegister
  <2>3. Does(r, "approve")' /\ \A s \in Requests : s # r => request'[s] = request[s]
    BY <2>2 DEF Begin, Does, Busy, IInv, TypeOK
  <2>4. GatewayHandlersKept
    BY <1>3, <2>1, <2>3
  <2>5. GatewayNodesKept
    BY <1>11, NodesFrames DEF ApproveRegister
  <2>. QED  BY <2>1, <2>4, <2>5, CarefulKept
<1>. QED  BY <1>5, <1>6, <1>7, <1>8, <1>9, <1>10, <1>11

\* A row that is made has no node yet; a machine joins for a gateway that waits for it,
\* under its name, which is free.
LEMMA RowsCareful ==
    ASSUME IInv, OnceInv, Careful, orderly, NEW g \in Gateways, CreateGateway(g) \/ Join(g)
    PROVE  Careful'
<1>1. CASE CreateGateway(g)
  <2>1. /\ node' = node /\ request' = request /\ gateway[g].status = "absent"
        /\ gateway'[g].status = "pending"
        /\ \A h \in Gateways : h # g => gateway'[h] = gateway[h]
    BY <1>1 DEF CreateGateway, IInv, TypeOK
  <2>2. \A s \in Requests : Busy(s) /\ request[s].kind # "approve" => request[s].on # g
    BY <2>1 DEF IInv, HandlersInv, RowNamesInv, Careful, Does, Kind, TypeOK
  <2>3. \A s \in Requests : Busy(s) => request[s].on \in Subjects(request[s].kind)
    BY DEF IInv, HandlersInv
  <2>4. \A s \in Requests, kind \in {"finalize", "rename", "delete"} : Does(s, kind) =>
          request[s].on \in Gateways /\ gateway'[request[s].on] = gateway[request[s].on]
    BY <2>1, <2>2, <2>3 DEF Does, Subjects
  <2>5. Careful!1' /\ Careful!2' /\ Careful!3'
    BY <2>1, <2>4 DEF Careful, Does, Busy, Nodes
  <2>6. Careful!4' /\ Careful!6'
    BY <2>1 DEF Careful, Does, Busy, Nodes
  <2>7. Careful!5'
    BY <2>1 DEF Careful, Does, Busy, Nodes, Renaming
  <2>. QED  BY <2>5, <2>6, <2>7 DEF Careful
<1>2. CASE Join(g)
  <2>1. /\ gateway' = gateway /\ request' = request
        /\ \A n \in NodeId : ~(node[n].owner = g /\ node[n].life = gateway[g].life)
    BY <1>2 DEF Join
  <2>2. gateway[g].status = "pending"
    BY <1>2, <2>1 DEF Join, Careful
  <2>3. PICK k \in NodeId :
          /\ IsNextNode(k)
          /\ node' = [node EXCEPT ![k] = [owner |-> g, life |-> gateway[g].life, route |-> "none",
                                          name |-> FreeName(k, GatewayName(g))]]
    BY <1>2 DEF Join
  <2>4. gateway[g].hostname = GatewayName(g)
    BY <2>2 DEF IInv, RowNamesInv
  <2>5. FreeName(k, GatewayName(g)) = GatewayName(g)
    <3>1. ASSUME NEW m \in Nodes, node[m].name = GatewayName(g) PROVE FALSE
      <4>1. node[m].owner = g /\ m \in NodeId
        BY <3>1 DEF IInv, NamesInv, Nodes
      <4>. QED  BY <2>1, <4>1 DEF Careful
    <3>. QED  BY <3>1 DEF FreeName, TakenNames
  <2>6. /\ node[k].owner = 0 /\ node'[k].owner = g /\ node'[k].life = gateway[g].life
        /\ node'[k].name = gateway[g].hostname
        /\ \A n \in NodeId : n # k => node'[n] = node[n]
        /\ \A n \in Nodes : n \in NodeId /\ n # k /\ n \in Nodes'
        /\ \A n \in Nodes' : n \in NodeId /\ (n \in Nodes \/ n = k)
    BY <2>3, <2>4, <2>5 DEF IsNextNode, Nodes, IInv, TypeOK, Gateways
  <2>7. \A s \in Requests : (\A kind : Does(s, kind)' <=> Does(s, kind)) /\ request'[s] = request[s]
    BY <2>1 DEF Does, Busy
  <2>8. \A h \in Gateways : Renaming(h)' <=> Renaming(h)
    BY <2>7 DEF Renaming
  <2>9. \A s \in Requests : Does(s, "delete") => request[s].on # g /\ request[s].on \in Gateways
    BY <2>2 DEF IInv, HandlersInv, RowNamesInv, Does, Subjects
  <2>10. \A n \in NodeId, h \in Gateways : node[n].owner = h => n # k
    BY <2>6 DEF Gateways
  <2>11. Careful!1' /\ Careful!2' /\ Careful!4' /\ Careful!6'
    BY <2>1, <2>6, <2>7 DEF Careful
  <2>12. Careful!3'
    <3>. SUFFICES ASSUME NEW s \in Requests, Does(s, "delete"), NEW h, h = request[s].on
                  PROVE  /\ \E n \in NodeId : node'[n].owner = h /\ node'[n].life = gateway[h].life
                         /\ \A n \in Nodes' : node'[n].owner = h => request[s].pc = "remove" /\ n = request[s].node
      BY <2>1, <2>7
    <3>1. PICK n \in NodeId : node[n].owner = h /\ node[n].life = gateway[h].life
      BY DEF Careful
    <3>2. \A m \in Nodes : node[m].owner = h => request[s].pc = "remove" /\ m = request[s].node
      BY DEF Careful
    <3>. QED  BY <2>6, <2>9, <2>10, <3>1, <3>2
  <2>13. Careful!5'
    BY <2>1, <2>2, <2>6, <2>8 DEF Careful
  <2>. QED  BY <2>11, <2>12, <2>13 DEF Careful
<1>. QED  BY <1>1, <1>2

\* A gateway that is finalized has the address of its own node: the node that goes by its
\* internal name, of which there is one.
LEMMA FinalizeCareful ==
    ASSUME IInv, OnceInv, Careful, orderly, NEW r \in Requests,
           FinalizeRecord(r) \/ \E g \in Gateways : FinalizeFind(r, g)
    PROVE  Careful'
<1>1. ASSUME NEW g \in Gateways, FinalizeFind(r, g) PROVE Careful'
  <2>1. SameNodes
    BY <1>1, NodeType DEF FinalizeFind, SameNodes, IInv
  <2>2. Nodes' = Nodes /\ \A n \in Nodes : n \in NodeId
    BY <2>1, SameNodesSame DEF Nodes
  <2>3. gateway' = gateway /\ gateway[g].status = "pending" /\ \E n \in Nodes : node[n].owner = g
    BY <1>1 DEF FinalizeFind
  <2>4. \A s \in Requests : ~Busy(s)
    BY <1>1 DEF FinalizeFind, MayStart, IsQuiet, Busy
  <2>5. /\ request'[r].kind = "finalize" /\ request'[r].on = g
        /\ \A s \in Requests : s # r => request'[s] = request[s]
    BY <1>1 DEF FinalizeFind, Begin, IInv, TypeOK
  <2>6. \A s \in Requests : /\ Does(s, "finalize")' => request'[s].on = g
                            /\ ~Does(s, "rename")' /\ ~Does(s, "delete")'
                            /\ ~Does(s, "rename") /\ ~Does(s, "delete")
    BY <2>4, <2>5 DEF Does, Busy
  <2>7. \A h \in Gateways : ~Renaming(h) /\ ~Renaming(h)'
    BY <2>6 DEF Renaming
  <2>8. Careful!1' /\ Careful!2' /\ Careful!3' /\ Careful!4'
    BY <2>1, <2>2, <2>3, <2>6 DEF Careful, SameNodes
  <2>9. Careful!5'
    BY <2>1, <2>2, <2>3, <2>7 DEF Careful, SameNodes
  <2>10. Careful!6'
    BY <2>1, <2>2, <2>3 DEF Careful, SameNodes
  <2>. QED  BY <2>8, <2>9, <2>10 DEF Careful
<1>2. CASE FinalizeRecord(r)
  <2>. DEFINE g == request[r].on
  <2>1. Does(r, "finalize") /\ g \in Gateways
    BY <1>2 DEF FinalizeRecord, IInv, HandlersInv, Does, Busy, Subjects
  <2>2. SameNodes
    BY <1>2, ApprovedNode DEF FinalizeRecord, SameNodes, IInv
  <2>3. Nodes' = Nodes /\ \A n \in Nodes : n \in NodeId
    BY <2>2, SameNodesSame DEF Nodes
  <2>4. \A s \in Requests : Busy(s) => s = r
    BY <2>1 DEF IInv, HandlersInv, Does
  <2>5. \A s \in Requests : ~Busy(s)'
    BY <1>2, <2>4 DEF FinalizeRecord, End, Busy, Idle, IInv, TypeOK
  <2>6. \A h \in Gateways : ~Renaming(h) /\ ~Renaming(h)'
    BY <2>1, <2>4, <2>5 DEF Renaming, Does
  <2>7. gateway[g].status = "pending" /\ gateway[g].hostname = GatewayName(g)
    BY <2>1 DEF Careful, IInv, RowNamesInv
  <2>8. PICK n \in Nodes : node[n].owner = g
    BY <2>1 DEF Careful
  <2>9. node[n].name = GatewayName(g)
    BY <2>1, <2>6, <2>7, <2>8 DEF Careful
  <2>10. ExitAddress(g) = n
    <3>1. {m \in Nodes : node[m].name = GatewayName(g)} = {n}
      BY <2>9 DEF IInv, NamesInv
    <3>2. IpOf(gateway[g].hostname) = n
      BY <2>3, <2>7, <3>1, FirstOfOne DEF IpOf
    <3>3. n # 0
      BY DEF Nodes, NodeId
    <3>. QED  BY <3>2, <3>3 DEF ExitAddress
  <2>11. /\ \A h \in Gateways : /\ h # g => gateway'[h] = gateway[h]
                                /\ gateway'[h].life = gateway[h].life
                                /\ gateway'[h].hostname = gateway[h].hostname
         /\ gateway'[g].status = "ready" /\ gateway'[g].exit = n
    BY <1>2, <2>1, <2>7, <2>10 DEF FinalizeRecord, IInv, TypeOK
  <2>. HIDE DEF g
  <2>12. Careful!1' /\ Careful!2' /\ Careful!3'
    BY <2>5 DEF Does
  <2>13. Careful!4'
    BY <2>1, <2>4, <2>11 DEF Careful, Does
  <2>14. Careful!5'
    BY <2>2, <2>3, <2>6, <2>11 DEF Careful, SameNodes
  <2>15. Careful!6'
    BY <2>2, <2>3, <2>8, <2>11 DEF Careful, SameNodes, IInv, TypeOK
  <2>. QED  BY <2>12, <2>13, <2>14, <2>15 DEF Careful
<1>. QED  BY <1>1, <1>2

\* A rename finds the node whose address the row has, and row and node have the same name
\* again when it ends.
LEMMA RenameCareful ==
    ASSUME IInv, OnceInv, Careful, orderly, NEW r \in Requests,
           \/ RenameApply(r) \/ RenameCommit(r)
           \/ \E g \in Gateways, name \in Chosen : RenameRead(r, g, name)
    PROVE  Careful'
<1>1. ASSUME NEW g \in Gateways, NEW name \in Chosen, RenameRead(r, g, name) PROVE Careful'
  <2>1. node' = node /\ gateway' = gateway /\ gateway[g].status = "ready" /\ Found(g) # 0
    BY <1>1 DEF RenameRead
  <2>2. \A s \in Requests : ~Busy(s)
    BY <1>1 DEF RenameRead, MayStart, IsQuiet, Busy
  <2>3. request'[r] = [kind |-> "rename", pc |-> "apply", on |-> g, name |-> name, node |-> Found(g)]
        /\ \A s \in Requests : s # r => request'[s] = request[s]
    BY <1>1 DEF RenameRead, Begin, IInv, TypeOK
  <2>4. \A s \in Requests : /\ ~Does(s, "finalize")' /\ ~Does(s, "delete")'
                            /\ Does(s, "rename")' => s = r /\ request'[s].pc = "apply"
                            /\ ~Does(s, "rename") /\ ~Does(s, "delete")
    BY <2>2, <2>3 DEF Does, Busy
  <2>5. \A h \in Gateways : ~Renaming(h) /\ ~Renaming(h)'
    BY <2>4 DEF Renaming
  <2>6. Found(g) = gateway[g].exit
    <3>1. Found(g) \in Nodes /\ node[Found(g)].owner = g
      BY <2>1, <2>4, FoundIn, OwnNames DEF NoRenameRace
    <3>2. gateway[g].exit \in Nodes /\ node[gateway[g].exit].owner = g
      BY <2>1 DEF Careful
    <3>. QED  BY <3>1, <3>2, OneNode
  <2>7. Careful!1' /\ Careful!2' /\ Careful!3' /\ Careful!4'
    BY <2>1, <2>3, <2>4, <2>6 DEF Careful
  <2>8. Careful!5' /\ Careful!6'
    BY <2>1, <2>5 DEF Careful, Nodes
  <2>. QED  BY <2>7, <2>8 DEF Careful
<1>2. ASSUME RenameApply(r) PROVE Careful'
  <2>. DEFINE g == request[r].on
              k == request[r].node
  <2>1. Does(r, "rename") /\ g \in Gateways /\ request[r].pc = "apply" /\ gateway' = gateway
    BY <1>2 DEF RenameApply, IInv, HandlersInv, Does, Busy, Subjects
  <2>2. \A s \in Requests : Busy(s) => s = r
    BY <2>1 DEF IInv, HandlersInv, Does
  <2>3. \A h \in Gateways : ~Renaming(h)
    BY <2>1, <2>2 DEF Renaming, Does
  <2>4. gateway[g].status = "ready" /\ k = gateway[g].exit
    BY <2>1 DEF IInv, RowNamesInv, Careful
  <2>5. \A h \in Gateways : gateway[h].status # "deleting"
    BY <2>1, <2>2 DEF Careful, Does
  <2>6. k \in Nodes /\ node[k].owner = g
    BY <2>1, <2>4 DEF Careful
  <2>7. CASE End(r) /\ node' = node
    <3>1. \A s \in Requests : ~Busy(s)'
      BY <2>2, <2>7 DEF End, Busy, Idle, IInv, TypeOK
    <3>2. Careful!1' /\ Careful!2' /\ Careful!3'
      BY <3>1 DEF Does
    <3>3. Careful!4'
      BY <2>1, <2>5
    <3>4. Careful!5' /\ Careful!6'
      BY <2>1, <2>3, <2>7 DEF Careful, Nodes
    <3>. QED  BY <3>2, <3>3, <3>4 DEF Careful
  <2>8. CASE Step(r, "commit") /\ node' = [node EXCEPT ![k].name = request[r].name]
    <3>1. /\ \A n \in NodeId : /\ node'[n].owner = node[n].owner /\ node'[n].life = node[n].life
                               /\ node'[n].route = node[n].route
                               /\ n # k => node'[n].name = node[n].name
      BY <2>8 DEF IInv, TypeOK
    <3>2. Nodes' = Nodes /\ \A n \in Nodes : n \in NodeId
      BY <3>1 DEF Nodes
    <3>3. /\ request'[r].kind = "rename" /\ request'[r].pc = "commit"
          /\ request'[r].on = g /\ request'[r].node = k
          /\ \A s \in Requests : s # r => request'[s] = request[s]
      BY <2>1, <2>8 DEF Step, Does, IInv, TypeOK
    <3>4. \A s \in Requests : /\ ~Does(s, "finalize")' /\ ~Does(s, "delete")'
                              /\ Does(s, "rename")' => s = r
      BY <2>2, <3>3 DEF Does, Busy
    <3>. HIDE DEF g, k
    <3>5. Careful!1' /\ Careful!2' /\ Careful!3'
      BY <2>1, <2>4, <3>3, <3>4
    <3>6. Careful!4'
      BY <2>1, <2>5
    <3>7. Careful!5'
      <4>. SUFFICES ASSUME NEW n \in Nodes, NEW h \in Gateways, node[n].owner = h
                    PROVE  /\ gateway[h].status # "absent" /\ node[n].life = gateway[h].life
                           /\ ~Renaming(h)' => node'[n].name = gateway[h].hostname
        BY <2>1, <3>1, <3>2
      <4>1. CASE n = k
        <5>1. h = g
          BY <2>6, <4>1
        <5>2. Renaming(h)'
          BY <3>3, <5>1 DEF Renaming, Does, Busy
        <5>. QED  BY <5>2 DEF Careful
      <4>2. CASE n # k
        <5>1. node'[n].name = node[n].name
          BY <3>1, <3>2, <4>2
        <5>. QED  BY <2>3, <5>1 DEF Careful
      <4>. QED  BY <4>1, <4>2
    <3>8. Careful!6'
      BY <2>1, <3>1, <3>2 DEF Careful
    <3>. QED  BY <3>5, <3>6, <3>7, <3>8 DEF Careful
  <2>. QED  BY <1>2, <2>7, <2>8 DEF RenameApply, Rename
<1>3. ASSUME RenameCommit(r) PROVE Careful'
  <2>. DEFINE g == request[r].on
              k == request[r].node
  <2>1. Does(r, "rename") /\ request[r].pc = "commit" /\ g \in Gateways /\ node' = node /\ End(r)
    BY <1>3 DEF RenameCommit, IInv, HandlersInv, Does, Busy, Subjects
  <2>2. \A s \in Requests : Busy(s) => s = r
    BY <2>1 DEF IInv, HandlersInv, Does
  <2>3. gateway[g].status = "ready" /\ k \in Nodes /\ node[k].name = request[r].name
    BY <2>1 DEF IInv, RowNamesInv
  <2>4. node[k].owner = g
    BY <2>1, <2>3 DEF Careful
  <2>5. /\ gateway'[g].hostname = request[r].name
        /\ \A h \in Gateways : /\ gateway'[h].status = gateway[h].status
                               /\ gateway'[h].exit = gateway[h].exit
                               /\ gateway'[h].life = gateway[h].life
                               /\ h # g => gateway'[h].hostname = gateway[h].hostname
    BY <1>3, <2>1, <2>3 DEF RenameCommit, IInv, TypeOK
  <2>6. \A s \in Requests : ~Busy(s)'
    BY <2>1, <2>2 DEF End, Busy, Idle, IInv, TypeOK
  <2>7. \A h \in Gateways : h # g => ~Renaming(h)
    BY <2>1, <2>2 DEF Renaming, Does
  <2>8. Careful!1' /\ Careful!2' /\ Careful!3'
    BY <2>6 DEF Does
  <2>9. Careful!4'
    BY <2>1, <2>2, <2>5 DEF Careful, Does
  <2>10. Careful!5'
    <3>. SUFFICES ASSUME NEW n \in Nodes, NEW h \in Gateways, node[n].owner = h
                  PROVE  /\ gateway'[h].status # "absent" /\ node[n].life = gateway'[h].life
                         /\ node[n].name = gateway'[h].hostname
      BY <2>1 DEF Nodes
    <3>1. CASE h # g
      BY <2>5, <2>7, <3>1 DEF Careful
    <3>2. CASE h = g
      <4>1. n = k
        BY <2>1, <2>3, <2>4, <3>2, OneNode
      <4>. QED  BY <2>3, <2>5, <3>2, <4>1 DEF Careful
    <3>. QED  BY <3>1, <3>2
  <2>11. Careful!6'
    BY <2>1, <2>5 DEF Careful, Nodes
  <2>. QED  BY <2>8, <2>9, <2>10, <2>11 DEF Careful
<1>. QED  BY <1>1, <1>2, <1>3

\* A deletion finds the gateway's only node and removes it before it removes the row.
LEMMA DeleteCareful ==
    ASSUME IInv, OnceInv, Careful, orderly, faults = 0, faults' = 0, NEW r \in Requests,
           DeleteNode(r) \/ DeleteRow(r) \/ \E g \in Gateways : DeleteFind(r, g)
    PROVE  Careful'
<1>1. ASSUME NEW g \in Gateways, DeleteFind(r, g) PROVE Careful'
  <2>1. node' = node /\ gateway[g].status = "ready"
    BY <1>1 DEF DeleteFind
  <2>2. \A s \in Requests : ~Busy(s)
    BY <1>1 DEF DeleteFind, MayStart, IsQuiet, Busy
  <2>3. request'[r] = [kind |-> "delete", pc |-> "remove", on |-> g, name |-> NoName, node |-> Found(g)]
        /\ \A s \in Requests : s # r => request'[s] = request[s]
    BY <1>1 DEF DeleteFind, Begin, IInv, TypeOK
  <2>4. \A s \in Requests : /\ ~Does(s, "finalize")' /\ ~Does(s, "rename")'
                            /\ Does(s, "delete")' => s = r
                            /\ ~Does(s, "rename") /\ ~Does(s, "delete")
    BY <2>2, <2>3 DEF Does, Busy
  <2>5. \A h \in Gateways : ~Renaming(h) /\ ~Renaming(h)'
    BY <2>4 DEF Renaming
  <2>6. /\ gateway'[g].status = "deleting"
        /\ \A h \in Gateways : /\ gateway'[h].life = gateway[h].life
                               /\ gateway'[h].hostname = gateway[h].hostname
                               /\ gateway'[h].exit = gateway[h].exit
                               /\ h # g => gateway'[h].status = gateway[h].status
    BY <1>1 DEF DeleteFind, IInv, TypeOK
  <2>7. /\ gateway[g].exit \in Nodes /\ node[gateway[g].exit].owner = g
        /\ gateway[g].exit \in NodeId /\ node[gateway[g].exit].life = gateway[g].life
    BY <2>1 DEF Careful, Nodes
  <2>8. Found(g) = gateway[g].exit
    <3>1. {n \in Nodes : n = gateway[g].exit \/ node[n].name \in {gateway[g].hostname, GatewayName(g)}}
            = {gateway[g].exit}
      <4>1. ASSUME NEW n \in Nodes, n = gateway[g].exit \/ node[n].name \in {gateway[g].hostname, GatewayName(g)}
            PROVE  n = gateway[g].exit
        <5>1. node[n].owner = g
          BY <2>1, <2>4, <4>1, OwnNames DEF NoRenameRace
        <5>. QED  BY <2>7, <5>1, OneNode
      <4>. QED  BY <2>7, <4>1
    <3>. QED  BY <2>7, <3>1, FirstOfOne DEF Found
  <2>9. Careful!1' /\ Careful!2'
    BY <2>4
  <2>10. Careful!3'
    <3>1. \A n \in Nodes : node[n].owner = g => n = Found(g)
      BY <2>7, <2>8, OneNode
    <3>. QED  BY <2>1, <2>3, <2>4, <2>6, <2>7, <3>1 DEF Nodes
  <2>11. Careful!4'
    <3>1. Does(r, "delete")' /\ request'[r].on = g
      BY <2>3 DEF Does, Busy
    <3>. QED  BY <2>4, <2>6, <3>1 DEF Careful
  <2>12. Careful!5' /\ Careful!6'
    BY <2>1, <2>5, <2>6 DEF Careful, Nodes
  <2>. QED  BY <2>9, <2>10, <2>11, <2>12 DEF Careful
<1>2. ASSUME DeleteNode(r) PROVE Careful'
  <2>. DEFINE g == request[r].on
              k == request[r].node
  <2>1. /\ Does(r, "delete") /\ g \in Gateways /\ OwnerOf(r) = g /\ gateway' = gateway
        /\ node' = Removed(r) /\ Step(r, "commit")
    BY <1>2 DEF DeleteNode, IInv, TypeOK, HandlersInv, Does, Busy, Subjects, OwnerOf
  <2>2. \A s \in Requests : Busy(s) => s = r
    BY <2>1 DEF IInv, HandlersInv, Does
  <2>3. gateway[g].status = "deleting"
    BY <2>1 DEF IInv, RowNamesInv
  <2>4. k \in Nodes => node[k].owner = g
    BY <2>1 DEF IInv, OwnersInv, NoRenameRace, Does, Nodes, NodeId
  <2>5. /\ \A n \in NodeId : /\ node'[n].owner = node[n].owner /\ node'[n].life = node[n].life
                             /\ n # k \/ n \notin Nodes => node'[n] = node[n]
    BY <2>1, RemovedNodes DEF IInv
  <2>6. Nodes' = Nodes \ {k} /\ \A n \in Nodes : n \in NodeId
    <3>1. k \in NodeId /\ k \in Nodes => node'[k].route = "deleted"
      BY <2>1 DEF Removed, IInv, TypeOK
    <3>. QED  BY <2>5, <3>1 DEF Nodes
  <2>7. /\ request'[r].kind = "delete" /\ request'[r].on = g
        /\ \A s \in Requests : s # r => request'[s] = request[s]
    BY <2>1 DEF Step, Does, IInv, TypeOK
  <2>8. \A s \in Requests : /\ ~Does(s, "finalize")' /\ ~Does(s, "rename")'
                            /\ Does(s, "delete")' => s = r
                            /\ ~Does(s, "rename")
    BY <2>1, <2>2, <2>7 DEF Does, Busy
  <2>9. \A h \in Gateways : ~Renaming(h)
    BY <2>8 DEF Renaming
  <2>10. Does(r, "delete")'
    BY <2>1, <2>7 DEF Does, Busy, Step, IInv, TypeOK
  <2>11. /\ \E n \in NodeId : node[n].owner = g /\ node[n].life = gateway[g].life
         /\ \A n \in Nodes : node[n].owner = g => n = k
    BY <2>1 DEF Careful
  <2>. HIDE DEF g, k
  <2>12. Careful!1' /\ Careful!2'
    BY <2>8
  <2>13. Careful!3'
    BY <2>1, <2>5, <2>6, <2>7, <2>8, <2>11
  <2>14. Careful!4'
    <3>1. \A h \in Gateways : gateway[h].status = "deleting" => h = g
      BY <2>2 DEF Careful, Does, g
    <3>. QED  BY <2>1, <2>7, <2>10, <3>1
  <2>15. Careful!5'
    BY <2>1, <2>5, <2>6, <2>9 DEF Careful
  <2>16. Careful!6'
    BY <2>1, <2>3, <2>4, <2>5, <2>6 DEF Careful
  <2>. QED  BY <2>12, <2>13, <2>14, <2>15, <2>16 DEF Careful
<1>3. ASSUME DeleteRow(r) PROVE Careful'
  <2>. DEFINE g == request[r].on
  <2>1. Does(r, "delete") /\ request[r].pc = "commit" /\ g \in Gateways /\ node' = node /\ End(r)
    BY <1>3 DEF DeleteRow, IInv, HandlersInv, Does, Busy, Subjects
  <2>2. \A s \in Requests : Busy(s) => s = r
    BY <2>1 DEF IInv, HandlersInv, Does
  <2>3. /\ gateway'[g].status = "absent"
        /\ \A h \in Gateways : h # g => gateway'[h] = gateway[h]
    BY <1>3, <2>1 DEF DeleteRow, NoGateway, IInv, TypeOK
  <2>4. \A s \in Requests : ~Busy(s)'
    BY <2>1, <2>2 DEF End, Busy, Idle, IInv, TypeOK
  <2>5. \A n \in Nodes : node[n].owner # g
    BY <2>1 DEF Careful
  <2>6. \A h \in Gateways : ~Renaming(h)
    BY <2>1, <2>2 DEF Renaming, Does
  <2>7. Careful!1' /\ Careful!2' /\ Careful!3'
    BY <2>4 DEF Does
  <2>8. Careful!4'
    BY <2>1, <2>2, <2>3 DEF Careful, Does
  <2>9. Careful!5' /\ Careful!6'
    BY <2>1, <2>3, <2>5, <2>6 DEF Careful, Nodes
  <2>. QED  BY <2>7, <2>8, <2>9 DEF Careful
<1>. QED  BY <1>1, <1>2, <1>3

\* The operators' carefulness and the count of failures.
LEMMA CarefulMode == ASSUME IInv, [Next]_vars PROVE orderly' = orderly /\ (faults' = 0 => faults = 0)
<1>. DEFINE Kept == orderly' = orderly /\ faults' \in {faults, faults + 1}
<1>1. ASSUME NEW r \in Requests, HandlerStep(r) \/ HeadscaleFails(r) PROVE Kept
  BY <1>1 DEF HandlerStep, FinalizeRecord, RenameApply, RenameCommit, DeleteNode, DeleteRow, ApproveRoutes,
              ApproveList, ApproveRename, ApproveMark, HeadscaleFails
<1>2. ASSUME NEW r \in Requests, NEW g \in Gateways,
             FinalizeFind(r, g) \/ DeleteFind(r, g) \/ (\E name \in Chosen : RenameRead(r, g, name))
      PROVE  Kept
  BY <1>2 DEF FinalizeFind, DeleteFind, RenameRead
<1>3. ASSUME NEW r \in Requests, NEW d \in Devices, ApproveRegister(r, d) PROVE Kept
  BY <1>3 DEF ApproveRegister
<1>4. ASSUME NEW g \in Gateways, CreateGateway(g) \/ Join(g) PROVE Kept
  BY <1>4 DEF CreateGateway, Join
<1>5. ASSUME NEW d \in Devices, Touch(d) \/ JoinWithKey(d) \/ Reject(d) PROVE Kept
  BY <1>5 DEF Touch, JoinWithKey, Reject
<1>6. ASSUME Sync \/ UNCHANGED vars PROVE Kept
  BY <1>6 DEF Sync, SyncList, SyncApprove, vars
<1>. HIDE DEF Kept
<1>7. Kept
  BY <1>1, <1>2, <1>3, <1>4, <1>5, <1>6 DEF Next
<1>8. faults \in Nat
  BY BoundsAssumption DEF IInv, TypeOK
<1>. QED  BY <1>7, <1>8 DEF Kept

LEMMA CarefulKeeps == ASSUME IInv, CarefulInv, [Next]_vars PROVE CarefulInv'
<1>1. OnceInv'
  BY OnceKeeps DEF CarefulInv
<1>2. ASSUME orderly', faults' = 0 PROVE Careful'
  <2>1. orderly /\ faults = 0 /\ OnceInv /\ Careful
    BY <1>2, CarefulMode DEF CarefulInv
  <2>2. ASSUME NEW g \in Gateways, CreateGateway(g) \/ Join(g) PROVE Careful'
    BY <2>1, <2>2, RowsCareful
  <2>3. ASSUME NEW d \in Devices, Touch(d) \/ JoinWithKey(d) \/ Reject(d) PROVE Careful'
    BY <2>1, <2>3, DevicesCareful
  <2>4. ASSUME NEW r \in Requests, HandlerStep(r) PROVE Careful'
    <3>1. CASE FinalizeRecord(r)
      BY <2>1, <3>1, FinalizeCareful
    <3>2. CASE RenameApply(r) \/ RenameCommit(r)
      BY <2>1, <3>2, RenameCareful
    <3>3. CASE DeleteNode(r) \/ DeleteRow(r)
      BY <1>2, <2>1, <3>3, DeleteCareful
    <3>4. CASE ApproveRoutes(r) \/ ApproveList(r) \/ ApproveRename(r) \/ ApproveMark(r)
      BY <2>1, <3>4, DevicesCareful
    <3>. QED  BY <2>4, <3>1, <3>2, <3>3, <3>4 DEF HandlerStep
  <2>5. ASSUME NEW r \in Requests, NEW g \in Gateways, FinalizeFind(r, g) PROVE Careful'
    BY <2>1, <2>5, FinalizeCareful
  <2>6. ASSUME NEW r \in Requests, NEW g \in Gateways, DeleteFind(r, g) PROVE Careful'
    BY <1>2, <2>1, <2>6, DeleteCareful
  <2>7. ASSUME NEW r \in Requests, NEW g \in Gateways, NEW name \in Chosen, RenameRead(r, g, name) PROVE Careful'
    BY <2>1, <2>7, RenameCareful
  <2>8. ASSUME NEW r \in Requests, NEW d \in Devices, ApproveRegister(r, d) PROVE Careful'
    BY <2>1, <2>8, DevicesCareful
  <2>9. ASSUME NEW r \in Requests, HeadscaleFails(r) PROVE Careful'
    BY <1>2, <2>1, <2>9 DEF HeadscaleFails
  <2>10. CASE Sync \/ UNCHANGED vars
    BY <2>1, <2>10, DevicesCareful
  <2>. QED  BY <2>2, <2>3, <2>4, <2>5, <2>6, <2>7, <2>8, <2>9, <2>10 DEF Next
<1>. QED  BY <1>1, <1>2 DEF CarefulInv

LEMMA InitCareful == Init => CarefulInv
<1>. SUFFICES ASSUME Init PROVE CarefulInv
  OBVIOUS
<1>1. Nodes = {} /\ \A r \in Requests : ~Busy(r)
  BY DEF Init, Nodes, NoNode, Busy, Idle
<1>. QED  BY <1>1 DEF Init, CarefulInv, OnceInv, Careful, Does, NoNode, NoGateway

LEMMA BothInvariance == ASSUME NoGatewayNames PROVE Spec => [](IInv /\ CarefulInv)
<1>1. IInv /\ CarefulInv /\ [Next]_vars => IInv' /\ CarefulInv'
  BY NextKeeps, CarefulKeeps
<1>. QED  BY InitInv, InitCareful, <1>1, PTL DEF Spec

\* _finalize_exit_node records the address of the gateway's own node of this life, and
\* nothing that happens to names afterwards makes it another's.
THEOREM ExitNodeIsOwn == ASSUME NoGatewayNames PROVE Spec => []ExitIsOwn
<1>1. IInv /\ CarefulInv => ExitIsOwn
  <2>. SUFFICES ASSUME IInv, CarefulInv, orderly, faults = 0, NEW g \in Gateways, NEW n, n = gateway[g].exit,
                       gateway[g].status = "ready"
                PROVE  /\ node[n].owner = g /\ node[n].life = gateway[g].life
                       /\ IsQuiet => node[n].name = gateway[g].hostname
    BY DEF ExitIsOwn
  <2>1. n \in Nodes /\ node[n].owner = g
    BY DEF CarefulInv, Careful
  <2>2. IsQuiet => ~Renaming(g)
    BY DEF IsQuiet, Renaming, Does, Busy
  <2>. QED  BY <2>1, <2>2 DEF CarefulInv, Careful
<1>. QED  BY BothInvariance, <1>1, PTL

\* match_gateway_exit_node and partition_exit_nodes put a READY gateway's node in its row.
THEOREM DashboardIsRight == ASSUME NoGatewayNames PROVE Spec => []DashboardShowsOwn
<1>1. IInv /\ CarefulInv => DashboardShowsOwn
  <2>. SUFFICES ASSUME IInv, CarefulInv, orderly, faults = 0, NEW g \in Gateways, NEW n, n = gateway[g].exit,
                       gateway[g].status = "ready"
                PROVE  \E m \in ExitNodes \ Unassigned :
                         MatchExitNode(g) = m /\ node[m].owner = g /\ node[m].life = gateway[g].life
    BY DEF DashboardShowsOwn
  <2>1. n \in Nodes /\ node[n].owner = g /\ node[n].life = gateway[g].life
    BY DEF CarefulInv, Careful
  <2>2. n \in ExitNodes
    BY <2>1 DEF ExitNodes, IsExitNode, Tagged, Gateways
  <2>3. n \notin Unassigned
    BY DEF Unassigned, Rows
  <2>. QED  BY <2>1, <2>2, <2>3 DEF MatchExitNode
<1>. QED  BY BothInvariance, <1>1, PTL

=============================================================================
