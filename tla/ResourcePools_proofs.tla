------------------------ MODULE ResourcePools_proofs ------------------------
(***************************************************************************)
(* Proofs about ResourcePools, for any pools, workers, groups and requests: *)
(*   TypeCorrect         Spec => []TypeOK                                    *)
(*   EndpointsNotShared  Spec => []NoSharedEndpoint                          *)
(*   AllocatedStays      Spec => []AllocatedWhileUsed                        *)
(*   LanAddresses        Spec => []LanAddressesFit                           *)
(***************************************************************************)
EXTENDS ResourcePools, WellFoundedInduction, FiniteSetTheorems, TLAPS

-----------------------------------------------------------------------------
(* The least and the greatest of a set of numbers *)

\* A set of natural numbers that is not empty has a least element, which Min is.
LEMMA MinIsLeast ==
    ASSUME NEW S \in SUBSET Nat, S # {}
    PROVE  Min(S) \in S /\ \A x \in S : Min(S) <= x
<1>. DEFINE R == {p \in Nat \X Nat : p[1] < p[2]}
<1>0. IsWellFoundedOn(R, Nat)
  BY NatLessThanWellFounded, Zenon DEF OpToRel
<1>1. PICK m \in S : \A x \in S : ~ (<<x, m>> \in R)
  <2>. HIDE DEF R
  <2>. QED  BY <1>0, WFMin
<1>2. ASSUME NEW x \in S PROVE m <= x
  <2>1. m \in Nat /\ x \in Nat
    OBVIOUS
  <2>2. <<x, m>> \in Nat \X Nat /\ ~(<<x, m>> \in R)
    BY <1>1, <2>1
  <2>3. ~(x < m)
    BY <2>2
  <2>. QED  BY <2>1, <2>3
<1>. QED  BY <1>2 DEF Min

\* What First finds is free.
LEMMA FirstIsFree ==
    ASSUME NEW free \in SUBSET Nat
    PROVE  First(free) \in free \cup {-1} /\ (First(free) # -1 => First(free) \in free)
BY MinIsLeast DEF First

\* A bounded set of natural numbers that is not empty has a greatest element, which
\* Max is: the least of its upper bounds.
LEMMA MaxIsGreatest ==
    ASSUME NEW n \in Nat, NEW S \in SUBSET (0..n), S # {}
    PROVE  Max(S) \in S /\ \A x \in S : x <= Max(S)
<1>. DEFINE bounds == {k \in Nat : \A x \in S : x <= k}
<1>1. n \in bounds
  OBVIOUS
<1>. DEFINE b == Min(bounds)
<1>2. b \in bounds /\ \A k \in bounds : b <= k
  BY <1>1, MinIsLeast
<1>3. b \in S
  <2>1. SUFFICES ASSUME b \notin S PROVE FALSE
    OBVIOUS
  <2>2. PICK x \in S : TRUE
    OBVIOUS
  <2>3. b \in Nat /\ \A y \in S : y \in Nat /\ y <= b /\ y # b
    BY <1>2, <2>1
  <2>. HIDE DEF b
  <2>4. b - 1 \in Nat /\ \A y \in S : y <= b - 1
    BY <2>2, <2>3
  <2>5. b - 1 \in bounds
    BY <2>4
  <2>. QED  BY <1>2, <2>3, <2>5
<1>4. \A x \in S : b >= x
  BY <1>2
<1>. HIDE DEF b
<1>5. \E m \in S : \A x \in S : m >= x
  BY <1>3, <1>4
<1>. QED  BY <1>5 DEF Max

\* The next id is nobody's: SQLite gives the greatest and one.
LEMMA NextIdIsFree ==
    ASSUME NEW n \in Nat, NEW taken \in SUBSET (1..n)
    PROVE  NextId(taken) \notin taken
<1>0. taken \cup {0} \in SUBSET (0..n) /\ taken \cup {0} # {}
  OBVIOUS
<1>a. \A x \in taken \cup {0} : x \in Nat
  OBVIOUS
<1>1. Max(taken \cup {0}) \in taken \cup {0} /\ \A x \in taken \cup {0} : x <= Max(taken \cup {0})
  BY <1>0, MaxIsGreatest
<1>. DEFINE m == Max(taken \cup {0})
<1>2. m \in Nat
  BY <1>a, <1>1
<1>. HIDE DEF m
<1>3. m + 1 \notin taken
  BY <1>1, <1>2 DEF m
<1>. QED  BY <1>3 DEF NextId, m

-----------------------------------------------------------------------------
(* Types *)

GroupRow == [live : {TRUE}, name : GroupNames, worker : Workers, start : Starts]
Pc == {"idle", "lan", "name", "preauth", "insert"}
RequestRow == [pc : Pc, ui : BOOLEAN, group : 0..MaxGroups,
               start : Starts \cup {-1}, worker : Workers \cup {"none"},
               left : 0..MaxCount, lan : -1..LanTop, name : -1..MaxGateways,
               ip : -1..MaxIp, port : 0..MaxPort]

RowsInv ==
    /\ gateway \in [Ids -> GatewayRow \cup {NoGateway}]
    /\ group \in [GroupIds -> GroupRow \cup {NoGroup}]

PoolsInv ==
    /\ ipAlloc \in [Workers -> SUBSET (1..MaxIp)]
    /\ portAlloc \in [Workers -> SUBSET (1..MaxPort)]

\* What a creation has at each place.
HasRead(q) ==
    /\ q.pc # "idle" => q.worker \in Workers /\ q.left # 0
    /\ q.pc = "lan" \/ q.left > 1 => q.group \in GroupIds
    /\ q.pc \in {"preauth", "insert"} => q.name \in GatewayNames
    /\ q.pc = "insert" => q.ip \in 1..MaxIp

RequestsInv ==
    /\ req \in [Requests -> RequestRow]
    /\ \A r \in Requests : HasRead(req[r])

TInv == RowsInv /\ PoolsInv /\ RequestsInv /\ creates \in 0..MaxCreates

\* The rows that are there.
LEMMA LiveRows ==
    ASSUME RowsInv
    PROVE  /\ \A i \in Gateways : i \in Ids /\ gateway[i] \in GatewayRow
           /\ \A g \in Groups : g \in GroupIds /\ group[g] \in GroupRow
BY DEF RowsInv, Gateways, Groups, NoGateway, NoGroup

\* A request that is over.
LEMMA IdleType == Idle \in RequestRow /\ HasRead(Idle)
BY PoolsAssumption, BoundsAssumption DEF Idle, RequestRow, Pc, HasRead

\* A request that goes on with the next gateway of its batch, or is over.
LEMMA AfterType ==
    ASSUME TInv, NEW r \in Requests, req[r].pc # "idle"
    PROVE  After(r) \in RequestRow /\ HasRead(After(r))
<1>1. req[r] \in RequestRow /\ HasRead(req[r])
  BY DEF TInv, RequestsInv
<1>2. CASE req[r].left = 1
  BY <1>2, IdleType DEF After
<1>3. CASE req[r].left # 1
  <2>. DEFINE next == [req[r] EXCEPT !.pc = "lan", !.left = @ - 1, !.lan = -1, !.name = -1, !.ip = -1]
  <2>1. req[r].left \in 0..MaxCount /\ req[r].left > 1 /\ req[r].left - 1 \in 1..MaxCount
    BY <1>1, <1>3, BoundsAssumption DEF RequestRow, HasRead
  <2>2. /\ next.pc = "lan" /\ next.left = req[r].left - 1
        /\ next.worker = req[r].worker /\ next.group = req[r].group
    BY <1>1 DEF RequestRow
  <2>a. /\ "lan" \in Pc /\ -1 \in -1..LanTop /\ -1 \in -1..MaxGateways /\ -1 \in -1..MaxIp
        /\ req[r].left - 1 \in 0..MaxCount
    BY <2>1, PoolsAssumption, BoundsAssumption DEF Pc
  <2>3. next \in RequestRow
    BY <1>1, <2>a DEF RequestRow
  <2>4. HasRead(next)
    BY <1>1, <2>1, <2>2 DEF HasRead
  <2>. QED  BY <1>3, <2>3, <2>4 DEF After
<1>. QED  BY <1>2, <1>3

\* One request is changed to another of its type.
LEMMA RequestsKept ==
    ASSUME TInv, NEW r \in Requests, NEW q \in RequestRow, HasRead(q),
           req' = [req EXCEPT ![r] = q]
    PROVE  RequestsInv'
BY DEF TInv, RequestsInv

\* Only the requests are changed.
LEMMA OnlyRequests ==
    ASSUME TInv, RequestsInv', UNCHANGED <<gateway, group, pools>>, creates' \in 0..MaxCreates
    PROVE  TInv'
BY DEF TInv, RowsInv, PoolsInv, pools, Ids, GroupIds, GroupRow, GatewayRow

\* The groups: only their rows change, or the gateways of one lose it.
LEMMA GroupTypes == TInv /\ GroupStep => TInv'
<1>. SUFFICES ASSUME TInv, GroupStep PROVE TInv'
  OBVIOUS
<1>1. NoGroup \in GroupRow \cup {NoGroup}
  OBVIOUS
<1>2. ASSUME NEW n \in GroupNames, NEW w \in Workers, NEW s \in Starts, CreateGroup(n, w, s)
      PROVE  TInv'
  <2>1. [live |-> TRUE, name |-> n, worker |-> w, start |-> s] \in GroupRow
    BY DEF GroupRow
  <2>2. RowsInv'
    BY <1>2, <2>1 DEF CreateGroup, TInv, RowsInv
  <2>. QED  BY <1>2, <2>2 DEF CreateGroup, TInv, PoolsInv, RequestsInv, pools
<1>3. ASSUME NEW g \in GroupIds, NEW n \in GroupNames, RenameGroup(g, n)
      PROVE  TInv'
  <2>1. group[g] \in GroupRow
    BY <1>3, LiveRows DEF RenameGroup, TInv
  <2>2. [group[g] EXCEPT !.name = n] \in GroupRow
    BY <2>1 DEF GroupRow
  <2>3. RowsInv'
    BY <1>3, <2>2 DEF RenameGroup, TInv, RowsInv
  <2>. QED  BY <1>3, <2>3 DEF RenameGroup, TInv, PoolsInv, RequestsInv, pools
<1>4. ASSUME NEW g \in GroupIds, DeleteGroup(g)
      PROVE  TInv'
  <2>1. ASSUME NEW i \in Members(g) PROVE [gateway[i] EXCEPT !.group = 0] \in GatewayRow
    <3>1. gateway[i] \in GatewayRow
      BY LiveRows DEF Members, TInv
    <3>2. 0 \in 0..MaxGroups
      BY BoundsAssumption
    <3>. QED  BY <3>1, <3>2 DEF GatewayRow
  <2>2. gateway' \in [Ids -> GatewayRow \cup {NoGateway}]
    BY <1>4, <2>1 DEF DeleteGroup, TInv, RowsInv
  <2>3. group' \in [GroupIds -> GroupRow \cup {NoGroup}]
    BY <1>4 DEF DeleteGroup, TInv, RowsInv
  <2>4. RowsInv'
    BY <2>2, <2>3 DEF RowsInv
  <2>. QED  BY <1>4, <2>4 DEF DeleteGroup, TInv, PoolsInv, RequestsInv, pools
<1>. QED  BY <1>2, <1>3, <1>4 DEF GroupStep

\* What is free is in its pool, or there is none.
LEMMA FreeInPool ==
    ASSUME TInv
    PROVE  /\ \A w \in Workers : FreeIp(w) # -1 => FreeIp(w) \in 1..MaxIp /\ FreeIp(w) \notin ipAlloc[w]
           /\ \A w \in Workers : FreePort(w) # -1 =>
                 FreePort(w) \in 1..MaxPort /\ \A i \in On(w) : gateway[i].port # FreePort(w)
           /\ \A g \in GroupIds, start \in Starts : FreeLan(g, start) \in -1..LanTop
<1>1. ASSUME NEW w \in Workers, FreeIp(w) # -1
      PROVE  FreeIp(w) \in 1..MaxIp /\ FreeIp(w) \notin ipAlloc[w]
  <2>. DEFINE free == (1..MaxIp) \ (ipAlloc[w] \cup {gateway[i].ip : i \in On(w)})
  <2>1. free \in SUBSET Nat
    BY PoolsAssumption
  <2>2. First(free) \in free
    BY <1>1, <2>1, FirstIsFree DEF FreeIp
  <2>. QED  BY <2>2 DEF FreeIp
<1>2. ASSUME NEW w \in Workers, FreePort(w) # -1
      PROVE  FreePort(w) \in 1..MaxPort /\ \A i \in On(w) : gateway[i].port # FreePort(w)
  <2>. DEFINE free == (1..MaxPort) \ (portAlloc[w] \cup {gateway[i].port : i \in On(w)})
  <2>1. free \in SUBSET Nat
    BY PoolsAssumption
  <2>2. First(free) \in free
    BY <1>2, <2>1, FirstIsFree DEF FreePort
  <2>. QED  BY <2>2 DEF FreePort
<1>3. ASSUME NEW g \in GroupIds, NEW start \in Starts
      PROVE  FreeLan(g, start) \in -1..LanTop
  <2>. DEFINE free == {a \in start..LanTop : \A i \in Members(g) : gateway[i].lan # a}
  <2>1. start \in 0..LanTop
    BY PoolsAssumption
  <2>2. free \in SUBSET (0..LanTop)
    BY <2>1, PoolsAssumption
  <2>3. free \in SUBSET Nat
    BY <2>2, PoolsAssumption
  <2>4. First(free) \in free \cup {-1}
    BY <2>3, FirstIsFree
  <2>5. FreeLan(g, start) \in free \/ FreeLan(g, start) = -1
    BY <2>4 DEF FreeLan
  <2>. HIDE DEF free
  <2>6. FreeLan(g, start) \in 0..LanTop \/ FreeLan(g, start) = -1
    BY <2>2, <2>5
  <2>. QED  BY <2>6, PoolsAssumption
<1>. QED  BY <1>1, <1>2, <1>3

\* A request begins.
LEMMA BeginTypes ==
    ASSUME TInv, NEW r \in Requests,
           \/ \E w \in Workers, ui \in BOOLEAN, p \in {0, MaxPort} : BeginSingle(r, w, ui, p)
           \/ \E g \in GroupIds, ui \in BOOLEAN, n \in 1..MaxCount : BeginBatch(r, g, ui, n)
    PROVE  TInv'
<1>1. ASSUME NEW q \in RequestRow, HasRead(q), Begin(r, q)
      PROVE  TInv'
  <2>1. creates' \in 0..MaxCreates
    BY <1>1, BoundsAssumption DEF Begin, TInv
  <2>2. RequestsInv'
    BY <1>1, RequestsKept DEF Begin
  <2>. QED  BY <1>1, <2>1, <2>2, OnlyRequests DEF Begin
<1>2. ASSUME NEW w \in Workers, NEW ui \in BOOLEAN, NEW p \in {0, MaxPort}, BeginSingle(r, w, ui, p)
      PROVE  TInv'
  <2>. DEFINE q == [Idle EXCEPT !.pc = "name", !.ui = ui, !.worker = w, !.left = 1, !.port = p]
  <2>1. 1 \in 0..MaxCount /\ p \in 0..MaxPort /\ "name" \in Pc /\ w \in Workers \cup {"none"}
    BY PoolsAssumption, BoundsAssumption DEF Pc
  <2>2. q \in RequestRow
    BY <2>1, IdleType DEF RequestRow
  <2>3. HasRead(q)
    BY DEF HasRead, Idle
  <2>. QED  BY <1>1, <1>2, <2>2, <2>3 DEF BeginSingle
<1>3. ASSUME NEW g \in GroupIds, NEW ui \in BOOLEAN, NEW n \in 1..MaxCount, BeginBatch(r, g, ui, n)
      PROVE  TInv'
  <2>. DEFINE q == [Idle EXCEPT !.pc = "lan", !.ui = ui, !.group = g, !.start = group[g].start,
                                !.worker = group[g].worker, !.left = n]
  <2>1. group[g].worker \in Workers /\ group[g].start \in Starts
    BY <1>3, LiveRows DEF BeginBatch, GroupRow, TInv
  <2>2. n \in 0..MaxCount /\ g \in 0..MaxGroups /\ "lan" \in Pc /\ n # 0
    BY PoolsAssumption, BoundsAssumption DEF Pc, GroupIds
  <2>3. q \in RequestRow
    BY <2>1, <2>2, IdleType DEF RequestRow
  <2>4. HasRead(q)
    BY <2>1, <2>2 DEF HasRead, Idle
  <2>. QED  BY <1>1, <1>3, <2>3, <2>4 DEF BeginBatch
<1>. QED  BY <1>2, <1>3

\* What a request reads before it inserts.
LEMMA ReadTypes ==
    ASSUME TInv, NEW r \in Requests, PickFirstLan(r) \/ PickLan(r) \/ PickName(r) \/ Preauth(r)
    PROVE  TInv'
<1>0. req[r] \in RequestRow /\ HasRead(req[r])
  BY DEF TInv, RequestsInv
<1>1. ASSUME NEW q \in RequestRow, HasRead(q), req' = [req EXCEPT ![r] = q],
             UNCHANGED <<gateway, group, pools, orderly, creates>>
      PROVE  TInv'
  <2>1. RequestsInv' /\ creates' \in 0..MaxCreates
    BY <1>1, RequestsKept DEF TInv
  <2>. QED  BY <1>1, <2>1, OnlyRequests
<1>2. CASE PickFirstLan(r)
  <2>. DEFINE lan == FreeLan(req[r].group, req[r].start)
  <2>1. CASE lan = -1
    BY <1>1, <1>2, <2>1, IdleType DEF PickFirstLan
  <2>2. CASE lan # -1
    <3>. DEFINE q == [req[r] EXCEPT !.pc = "name", !.start = -1, !.lan = lan]
    <3>1. lan \in -1..LanTop /\ "name" \in Pc
      BY <1>0, <1>2, FreeInPool DEF Pc, PickFirstLan, HasRead, RequestRow
    <3>2. req' = [req EXCEPT ![r] = q]
      BY <1>2, <2>2 DEF PickFirstLan, TInv, RequestsInv
    <3>. HIDE DEF lan
    <3>3. q \in RequestRow
      BY <1>0, <3>1 DEF RequestRow
    <3>4. HasRead(q)
      BY <1>0, <1>2 DEF HasRead, RequestRow, PickFirstLan
    <3>. QED  BY <1>1, <1>2, <3>2, <3>3, <3>4 DEF PickFirstLan
  <2>. QED  BY <2>1, <2>2
<1>5. CASE PickLan(r)
  <2>. DEFINE g == req[r].group
              lan == FreeLan(g, group[g].start)
  <2>1. CASE g \notin Groups \/ lan = -1
    BY <1>1, <1>5, <2>1, IdleType DEF PickLan
  <2>2. CASE ~(g \notin Groups \/ lan = -1)
    <3>. DEFINE q == [req[r] EXCEPT !.pc = "name", !.worker = group[g].worker, !.lan = lan]
    <3>1. g \in GroupIds /\ group[g].start \in Starts /\ group[g].worker \in Workers
      BY <2>2, LiveRows DEF GroupRow, TInv
    <3>2. lan \in -1..LanTop /\ "name" \in Pc
      BY <3>1, FreeInPool DEF Pc
    <3>3. req' = [req EXCEPT ![r] = q]
      BY <1>5, <2>2 DEF PickLan, TInv, RequestsInv
    <3>. HIDE DEF lan
    <3>4. q \in RequestRow
      BY <1>0, <3>1, <3>2 DEF RequestRow
    <3>5. HasRead(q)
      BY <1>0, <1>5, <3>1 DEF HasRead, RequestRow, PickLan
    <3>. QED  BY <1>1, <1>5, <3>3, <3>4, <3>5 DEF PickLan
  <2>. QED  BY <2>1, <2>2
<1>3. CASE PickName(r)
  <2>1. PICK n \in GatewayNames : req' = [req EXCEPT ![r].pc = "preauth", ![r].name = n]
    BY <1>3 DEF PickName
  <2>. DEFINE q == [req[r] EXCEPT !.pc = "preauth", !.name = n]
  <2>2. n \in -1..MaxGateways /\ "preauth" \in Pc
    BY BoundsAssumption DEF GatewayNames, Pc
  <2>3. q \in RequestRow
    BY <1>0, <2>2 DEF RequestRow
  <2>4. HasRead(q)
    BY <1>0, <1>3 DEF HasRead, RequestRow, PickName
  <2>5. req' = [req EXCEPT ![r] = q]
    BY <1>0, <2>1 DEF TInv, RequestsInv, RequestRow
  <2>. QED  BY <1>1, <1>3, <2>3, <2>4, <2>5 DEF PickName
<1>4. CASE Preauth(r)
  <2>1. CASE Ends(r)
    BY <1>1, <1>4, <2>1, IdleType DEF Preauth, Ends
  <2>2. CASE /\ FreeIp(req[r].worker) # -1
             /\ req' = [req EXCEPT ![r].pc = "insert", ![r].ip = FreeIp(req[r].worker)]
    <3>. DEFINE ip == FreeIp(req[r].worker)
                q == [req[r] EXCEPT !.pc = "insert", !.ip = ip]
    <3>1. ip \in 1..MaxIp
      BY <1>0, <1>4, <2>2, FreeInPool DEF HasRead, Preauth
    <3>. HIDE DEF ip
    <3>2. ip \in -1..MaxIp /\ "insert" \in Pc
      BY <3>1, PoolsAssumption DEF Pc
    <3>3. q \in RequestRow
      BY <1>0, <3>2 DEF RequestRow
    <3>4. HasRead(q)
      BY <1>0, <1>4, <3>1 DEF HasRead, RequestRow, Preauth
    <3>5. req' = [req EXCEPT ![r] = q]
      BY <1>0, <2>2 DEF TInv, RequestsInv, RequestRow, ip
    <3>. QED  BY <1>1, <1>4, <3>3, <3>4, <3>5 DEF Preauth
  <2>. QED  BY <1>4, <2>1, <2>2 DEF Preauth
<1>. QED  BY <1>2, <1>3, <1>4, <1>5

\* The port of a creation that has one.
LEMMA PortType ==
    ASSUME TInv, NEW r \in Requests, req[r].pc = "insert", PortFor(r) # -1
    PROVE  PortFor(r) \in 1..MaxPort
<1>1. req[r].worker \in Workers /\ req[r].port \in 0..MaxPort
  BY DEF TInv, RequestsInv, RequestRow, HasRead
<1>2. CASE req[r].port # 0
  BY <1>1, <1>2, PoolsAssumption DEF PortFor
<1>3. CASE req[r].port = 0
  BY <1>1, <1>3, FreeInPool DEF PortFor
<1>. QED  BY <1>2, <1>3

NewRow(r) == [live |-> TRUE, name |-> req[r].name, worker |-> req[r].worker,
              ip |-> req[r].ip, port |-> PortFor(r), group |-> req[r].group,
              lan |-> req[r].lan, deleting |-> FALSE]

\* The row that is inserted.
LEMMA NewRowType ==
    ASSUME TInv, NEW r \in Requests, req[r].pc = "insert", PortFor(r) # -1
    PROVE  NewRow(r) \in GatewayRow
<1>1. /\ req[r].name \in GatewayNames /\ req[r].worker \in Workers /\ req[r].ip \in 1..MaxIp
      /\ req[r].group \in 0..MaxGroups /\ req[r].lan \in -1..LanTop
  BY DEF TInv, RequestsInv, RequestRow, HasRead
<1>. QED  BY <1>1, PortType DEF NewRow, GatewayRow

\* A creation ends, or goes on with the next gateway.
LEMMA InsertTypes ==
    ASSUME TInv, NEW r \in Requests, Insert(r) \/ InsertRefused(r) \/ NoPort(r)
    PROVE  TInv'
<1>0. req[r].worker \in Workers /\ req[r].ip \in 1..MaxIp /\ req[r].pc = "insert"
  BY DEF TInv, RequestsInv, HasRead, Insert, InsertRefused, NoPort
<1>1. CASE Insert(r)
  <2>1. RequestsInv'
    BY <1>0, <1>1, AfterType, RequestsKept DEF Insert
  <2>2. NewRow(r) \in GatewayRow
    BY <1>0, <1>1, NewRowType DEF Insert
  <2>3. gateway' = [gateway EXCEPT ![NextId(Gateways)] = NewRow(r)]
    BY <1>1 DEF Insert, NewRow
  <2>4. RowsInv'
    <3>1. gateway' \in [Ids -> GatewayRow \cup {NoGateway}]
      BY <2>2, <2>3 DEF TInv, RowsInv
    <3>2. group' \in [GroupIds -> GroupRow \cup {NoGroup}]
      BY <1>1 DEF TInv, RowsInv, Insert
    <3>. QED  BY <3>1, <3>2 DEF RowsInv
  <2>5. PortFor(r) \in 1..MaxPort
    BY <1>0, <1>1, PortType DEF Insert
  <2>6. PoolsInv'
    BY <1>0, <1>1, <2>5 DEF TInv, PoolsInv, Insert
  <2>. QED  BY <1>1, <2>1, <2>4, <2>6 DEF TInv, Insert
<1>2. CASE InsertRefused(r)
  <2>1. RequestsInv'
    BY <1>2, IdleType, RequestsKept DEF InsertRefused, Ends
  <2>. QED  BY <1>2, <2>1, OnlyRequests DEF InsertRefused, TInv
<1>3. CASE NoPort(r)
  <2>1. RequestsInv'
    BY <1>3, IdleType, RequestsKept DEF NoPort, Ends
  <2>2. PoolsInv'
    BY <1>0, <1>3 DEF TInv, PoolsInv, NoPort
  <2>3. RowsInv'
    BY <1>3 DEF TInv, RowsInv, NoPort
  <2>. QED  BY <1>3, <2>1, <2>2, <2>3 DEF TInv, NoPort
<1>. QED  BY <1>1, <1>2, <1>3

\* The deletion of a gateway.
LEMMA DeleteTypes ==
    ASSUME TInv, NEW i \in Ids, RequestDelete(i) \/ ExecuteDelete(i)
    PROVE  TInv'
<1>0. gateway[i] \in GatewayRow
  BY LiveRows DEF TInv, RequestDelete, ExecuteDelete
<1>1. CASE RequestDelete(i)
  <2>1. [gateway[i] EXCEPT !.deleting = TRUE] \in GatewayRow
    BY <1>0 DEF GatewayRow
  <2>2. gateway' \in [Ids -> GatewayRow \cup {NoGateway}]
    BY <1>1, <2>1 DEF TInv, RowsInv, RequestDelete
  <2>. QED  BY <1>1, <2>2 DEF TInv, RowsInv, PoolsInv, RequestsInv, RequestDelete, pools
<1>2. CASE ExecuteDelete(i)
  <2>1. gateway' \in [Ids -> GatewayRow \cup {NoGateway}]
    BY <1>2 DEF TInv, RowsInv, ExecuteDelete
  <2>2. PoolsInv'
    BY <1>2 DEF TInv, PoolsInv, ExecuteDelete
  <2>. QED  BY <1>2, <2>1, <2>2 DEF TInv, RowsInv, RequestsInv, ExecuteDelete
<1>. QED  BY <1>1, <1>2

LEMMA TInvInit == Init => TInv
<1>. SUFFICES ASSUME Init PROVE TInv
  OBVIOUS
<1>1. RowsInv /\ PoolsInv
  BY DEF Init, RowsInv, PoolsInv
<1>2. RequestsInv
  BY IdleType DEF Init, RequestsInv
<1>3. creates \in 0..MaxCreates
  BY BoundsAssumption DEF Init
<1>. QED  BY <1>1, <1>2, <1>3 DEF TInv

LEMMA TInvStep == TInv /\ [Next]_vars => TInv'
<1>. SUFFICES ASSUME TInv, [Next]_vars PROVE TInv'
  OBVIOUS
<1>1. CASE GroupStep
  BY <1>1, GroupTypes
<1>2. ASSUME NEW r \in Requests, CreateStep(r) PROVE TInv'
  BY <1>2, BeginTypes, ReadTypes, InsertTypes DEF CreateStep
<1>3. ASSUME NEW i \in Ids, RequestDelete(i) \/ ExecuteDelete(i) PROVE TInv'
  BY <1>3, DeleteTypes
<1>4. CASE UNCHANGED vars
  BY <1>4 DEF vars, pools, TInv, RowsInv, PoolsInv, RequestsInv
<1>. QED  BY <1>1, <1>2, <1>3, <1>4 DEF Next

LEMMA TInvHolds == Spec => []TInv
BY TInvInit, TInvStep, PTL DEF Spec

\* The rows and requests have their shapes: the ports and addresses that are written
\* are in their pools, and a batch never counts below zero.
THEOREM TypeCorrect == Spec => []TypeOK
<1>1. TInv => TypeOK
  <2>. SUFFICES ASSUME TInv PROVE TypeOK
    OBVIOUS
  <2>1. \A g \in Groups : group[g].name \in GroupNames /\ group[g].start \in Starts
    BY LiveRows DEF TInv, GroupRow
  <2>2. \A r \in Requests : req[r].pc \in Pc /\ req[r].left \in 0..MaxCount
    BY DEF TInv, RequestsInv, RequestRow
  <2>. QED  BY <2>1, <2>2 DEF TypeOK, TInv, RowsInv, PoolsInv, Pc
<1>. QED  BY <1>1, TInvHolds, PTL

-----------------------------------------------------------------------------
(* Names, addresses and ports.  That no two gateways share one is kept only   *)
(* because every address in use is allocated: an insertion is refused for an  *)
(* allocated address, whatever the request has read before.  And that is kept *)
(* only because no two share one: a deletion gives its address back.          *)

Distinct ==
    \A i, j \in Gateways : i # j =>
        /\ gateway[i].name # gateway[j].name
        /\ gateway[i].worker = gateway[j].worker => /\ gateway[i].ip # gateway[j].ip
                                                   /\ gateway[i].port # gateway[j].port

EInv == Distinct /\ AllocatedWhileUsed

\* The rows that are there, their endpoints and the allocations stay what they are.
SameEndpoints ==
    /\ Gateways' = Gateways
    /\ \A i \in Gateways : /\ gateway'[i].name = gateway[i].name
                           /\ gateway'[i].worker = gateway[i].worker
                           /\ gateway'[i].ip = gateway[i].ip
                           /\ gateway'[i].port = gateway[i].port
    /\ UNCHANGED pools

\* Steps that leave them alone: all but an insertion, an address that is committed
\* without a row, and a deletion.
LEMMA OthersKeepEndpoints ==
    ASSUME TInv, [Next]_vars
    PROVE  \/ SameEndpoints
           \/ \E r \in Requests : Insert(r) \/ NoPort(r)
           \/ \E i \in Ids : ExecuteDelete(i)
<1>1. ASSUME UNCHANGED gateway, UNCHANGED pools
      PROVE  SameEndpoints
  BY <1>1 DEF SameEndpoints, Gateways
<1>2. CASE GroupStep
  <2>1. ASSUME NEW n \in GroupNames, NEW w \in Workers, NEW s \in Starts, CreateGroup(n, w, s)
        PROVE  SameEndpoints
    BY <1>1, <2>1 DEF CreateGroup
  <2>2. ASSUME NEW g \in GroupIds, NEW n \in GroupNames, RenameGroup(g, n)
        PROVE  SameEndpoints
    BY <1>1, <2>2 DEF RenameGroup
  <2>3. ASSUME NEW g \in GroupIds, DeleteGroup(g)
        PROVE  SameEndpoints
    <3>1. \A i \in Ids : gateway'[i] = IF i \in Members(g) THEN [gateway[i] EXCEPT !.group = 0]
                                       ELSE gateway[i]
      BY <2>3 DEF DeleteGroup
    <3>2. \A i \in Members(g) : i \in Gateways /\ gateway[i] \in GatewayRow
      BY LiveRows DEF Members, TInv
    <3>3. \A i \in Ids : /\ gateway'[i].live = gateway[i].live
                         /\ i \in Gateways => /\ gateway'[i].name = gateway[i].name
                                              /\ gateway'[i].worker = gateway[i].worker
                                              /\ gateway'[i].ip = gateway[i].ip
                                              /\ gateway'[i].port = gateway[i].port
      BY <3>1, <3>2 DEF GatewayRow
    <3>. QED  BY <2>3, <3>3 DEF SameEndpoints, Gateways, DeleteGroup
  <2>. QED  BY <1>2, <2>1, <2>2, <2>3 DEF GroupStep
<1>3. ASSUME NEW r \in Requests, CreateStep(r)
      PROVE  SameEndpoints \/ Insert(r) \/ NoPort(r)
  <2>1. ASSUME NEW q, Begin(r, q) PROVE SameEndpoints
    BY <1>1, <2>1 DEF Begin
  <2>2. CASE \E w \in Workers, ui \in BOOLEAN, p \in {0, MaxPort} : BeginSingle(r, w, ui, p)
    BY <2>1, <2>2 DEF BeginSingle
  <2>3. CASE \E g \in GroupIds, ui \in BOOLEAN, n \in 1..MaxCount : BeginBatch(r, g, ui, n)
    BY <2>1, <2>3 DEF BeginBatch
  <2>4. CASE PickFirstLan(r) \/ PickLan(r) \/ PickName(r) \/ Preauth(r) \/ InsertRefused(r)
    BY <1>1, <2>4 DEF PickFirstLan, PickLan, PickName, Preauth, InsertRefused
  <2>. QED  BY <1>3, <2>2, <2>3, <2>4 DEF CreateStep
<1>4. ASSUME NEW i \in Ids, RequestDelete(i)
      PROVE  SameEndpoints
  <2>1. gateway[i] \in GatewayRow
    BY <1>4, LiveRows DEF TInv, RequestDelete
  <2>2. \A k \in Ids : /\ gateway'[k].live = gateway[k].live
                       /\ k \in Gateways => /\ gateway'[k].name = gateway[k].name
                                            /\ gateway'[k].worker = gateway[k].worker
                                            /\ gateway'[k].ip = gateway[k].ip
                                            /\ gateway'[k].port = gateway[k].port
    BY <1>4, <2>1 DEF RequestDelete, TInv, RowsInv, GatewayRow
  <2>. QED  BY <1>4, <2>2 DEF SameEndpoints, Gateways, RequestDelete
<1>5. CASE UNCHANGED vars
  BY <1>1, <1>5 DEF vars, pools
<1>. QED  BY <1>2, <1>3, <1>4, <1>5 DEF Next

\* An insertion adds one row, under an id of its own.
LEMMA InsertAdds ==
    ASSUME TInv, NEW r \in Requests, Insert(r)
    PROVE  LET n == NextId(Gateways) IN
           /\ n \in Ids /\ n \notin Gateways /\ Gateways' = Gateways \cup {n}
           /\ gateway'[n] = NewRow(r)
           /\ \A i \in Gateways : gateway'[i] = gateway[i]
<1>. DEFINE n == NextId(Gateways)
<1>1. n \in Ids
  BY DEF Insert
<1>2. n \notin Gateways
  <2>1. Gateways \in SUBSET (1..MaxGateways)
    BY DEF Gateways, Ids
  <2>. QED  BY <2>1, NextIdIsFree, BoundsAssumption
<1>3. gateway' = [gateway EXCEPT ![n] = NewRow(r)]
  BY DEF Insert, NewRow
<1>. HIDE DEF n
<1>4. gateway'[n] = NewRow(r) /\ \A i \in Ids \ {n} : gateway'[i] = gateway[i]
  BY <1>1, <1>3 DEF TInv, RowsInv
<1>5. Gateways' = Gateways \cup {n}
  <2>1. NewRow(r).live
    BY DEF NewRow
  <2>. QED  BY <1>1, <1>4, <2>1 DEF Gateways
<1>6. \A i \in Gateways : gateway'[i] = gateway[i]
  BY <1>2, <1>4 DEF Gateways
<1>. QED  BY <1>1, <1>2, <1>4, <1>5, <1>6 DEF n

\* A deletion removes one.
LEMMA DeleteRemoves ==
    ASSUME TInv, NEW i \in Ids, ExecuteDelete(i)
    PROVE  /\ i \in Gateways /\ Gateways' = Gateways \ {i}
           /\ \A j \in Gateways \ {i} : gateway'[j] = gateway[j]
<1>1. i \in Gateways /\ gateway'[i] = NoGateway /\ \A j \in Ids \ {i} : gateway'[j] = gateway[j]
  BY DEF ExecuteDelete, TInv, RowsInv
<1>. QED  BY <1>1 DEF Gateways, NoGateway

\* What is used and what is allocated, after an insertion.
LEMMA InsertEndpoints ==
    ASSUME TInv, EInv, NEW r \in Requests, Insert(r)
    PROVE  EInv'
<1>. DEFINE n == NextId(Gateways)
<1>1. /\ n \notin Gateways /\ Gateways' = Gateways \cup {n}
      /\ gateway'[n] = NewRow(r) /\ \A i \in Gateways : gateway'[i] = gateway[i]
  BY InsertAdds
<1>. HIDE DEF n
<1>2. /\ req[r].worker \in Workers
      /\ req[r].ip \notin ipAlloc[req[r].worker]
      /\ \A i \in Gateways : gateway[i].name # req[r].name
      /\ \A i \in Gateways : gateway[i].worker = req[r].worker => gateway[i].port # PortFor(r)
      /\ ipAlloc' = [ipAlloc EXCEPT ![req[r].worker] = @ \cup {req[r].ip}]
      /\ portAlloc' = [portAlloc EXCEPT ![req[r].worker] =
                          IF req[r].port # 0 THEN @ ELSE @ \cup {PortFor(r)}]
  BY DEF Insert, TInv, RequestsInv, HasRead, IpFits, RowFits, On
<1>3. /\ NewRow(r).name = req[r].name /\ NewRow(r).worker = req[r].worker
      /\ NewRow(r).ip = req[r].ip /\ NewRow(r).port = PortFor(r)
  BY DEF NewRow
<1>4. \A i \in Gateways : /\ gateway[i].name # req[r].name
                          /\ gateway[i].worker = req[r].worker =>
                                gateway[i].ip # req[r].ip /\ gateway[i].port # PortFor(r)
  BY <1>2 DEF EInv, AllocatedWhileUsed, On
<1>5. Distinct'
  BY <1>1, <1>3, <1>4 DEF EInv, Distinct
<1>6. ASSUME NEW w \in Workers
      PROVE  {gateway[i].ip : i \in On(w)}' \subseteq ipAlloc'[w]
  <2>1. /\ ipAlloc[w] \subseteq ipAlloc'[w]
        /\ w = req[r].worker => req[r].ip \in ipAlloc'[w]
    BY <1>2 DEF TInv, PoolsInv
  <2>2. \A i \in Gateways : gateway[i].worker = w => gateway[i].ip \in ipAlloc[w]
    BY DEF EInv, AllocatedWhileUsed, On
  <2>. QED  BY <1>1, <1>3, <2>1, <2>2 DEF On
<1>7. ASSUME NEW w \in Workers
      PROVE  portAlloc'[w] \subseteq {gateway[i].port : i \in On(w)}'
  <2>1. \A x \in portAlloc'[w] : x \in portAlloc[w] \/ (w = req[r].worker /\ x = PortFor(r))
    BY <1>2 DEF TInv, PoolsInv
  <2>2. \A x \in portAlloc[w] : \E i \in Gateways : gateway[i].worker = w /\ gateway[i].port = x
    BY DEF EInv, AllocatedWhileUsed, On
  <2>. QED  BY <1>1, <1>3, <2>1, <2>2 DEF On
<1>. QED  BY <1>5, <1>6, <1>7 DEF EInv, AllocatedWhileUsed

\* And after a deletion: only this gateway had its address and its port.
LEMMA DeleteEndpoints ==
    ASSUME TInv, EInv, NEW i \in Ids, ExecuteDelete(i)
    PROVE  EInv'
<1>1. /\ i \in Gateways /\ Gateways' = Gateways \ {i}
      /\ \A j \in Gateways \ {i} : gateway'[j] = gateway[j]
  BY DeleteRemoves
<1>2. /\ gateway[i].worker \in Workers
      /\ ipAlloc' = [ipAlloc EXCEPT ![gateway[i].worker] = @ \ {gateway[i].ip}]
      /\ portAlloc' = [portAlloc EXCEPT ![gateway[i].worker] = @ \ {gateway[i].port}]
  BY <1>1, LiveRows DEF ExecuteDelete, TInv, GatewayRow
<1>3. Distinct'
  BY <1>1 DEF EInv, Distinct
<1>4. ASSUME NEW w \in Workers
      PROVE  {gateway[j].ip : j \in On(w)}' \subseteq ipAlloc'[w]
  <2>1. \A j \in Gateways \ {i} : gateway[j].worker = w => gateway[j].ip \in ipAlloc[w]
    BY DEF EInv, AllocatedWhileUsed, On
  <2>2. \A j \in Gateways \ {i} : gateway[j].worker = w /\ gateway[i].worker = w =>
           gateway[j].ip # gateway[i].ip
    BY <1>1 DEF EInv, Distinct
  <2>3. \A j \in Gateways \ {i} : gateway[j].worker = w => gateway[j].ip \in ipAlloc'[w]
    BY <1>2, <2>1, <2>2 DEF TInv, PoolsInv
  <2>. QED  BY <1>1, <2>3 DEF On
<1>5. ASSUME NEW w \in Workers
      PROVE  portAlloc'[w] \subseteq {gateway[j].port : j \in On(w)}'
  <2>1. \A x \in portAlloc[w] : \E j \in Gateways : gateway[j].worker = w /\ gateway[j].port = x
    BY DEF EInv, AllocatedWhileUsed, On
  <2>2. \A x \in portAlloc'[w] : /\ x \in portAlloc[w]
                                 /\ gateway[i].worker = w => x # gateway[i].port
    BY <1>2 DEF TInv, PoolsInv
  <2>3. \A x \in portAlloc'[w] : \E j \in Gateways \ {i} :
           gateway[j].worker = w /\ gateway[j].port = x
    BY <2>1, <2>2
  <2>. QED  BY <1>1, <2>3 DEF On
<1>. QED  BY <1>3, <1>4, <1>5 DEF EInv, AllocatedWhileUsed

LEMMA SameKeepsEndpoints ==
    ASSUME EInv, SameEndpoints
    PROVE  EInv'
<1>1. Distinct'
  BY DEF EInv, Distinct, SameEndpoints
<1>2. \A w \in Workers : On(w)' = On(w)
  BY DEF On, SameEndpoints
<1>3. \A w \in Workers : /\ {gateway[i].ip : i \in On(w)}' = {gateway[i].ip : i \in On(w)}
                         /\ {gateway[i].port : i \in On(w)}' = {gateway[i].port : i \in On(w)}
  BY <1>2 DEF On, SameEndpoints
<1>. QED  BY <1>1, <1>3 DEF EInv, AllocatedWhileUsed, SameEndpoints, pools

LEMMA NoPortEndpoints ==
    ASSUME TInv, EInv, NEW r \in Requests, NoPort(r)
    PROVE  EInv'
<1>1. gateway' = gateway /\ portAlloc' = portAlloc
  BY DEF NoPort
<1>2. \A w \in Workers : ipAlloc[w] \subseteq ipAlloc'[w]
  BY DEF NoPort, TInv, PoolsInv
<1>. QED  BY <1>1, <1>2 DEF EInv, Distinct, AllocatedWhileUsed, On, Gateways

LEMMA EInvInit == Init => EInv
BY DEF Init, EInv, Distinct, AllocatedWhileUsed, On, Gateways, NoGateway

LEMMA EInvStep == TInv /\ EInv /\ [Next]_vars => EInv'
BY OthersKeepEndpoints, SameKeepsEndpoints, InsertEndpoints, NoPortEndpoints, DeleteEndpoints

LEMMA EInvHolds == Spec => []EInv
BY TInvHolds, EInvInit, EInvStep, PTL DEF Spec

\* However stale what they have read, requests never give two gateways of a worker the
\* same VM address or UDP port, nor two gateways one name.
THEOREM EndpointsNotShared == Spec => []NoSharedEndpoint
<1>1. EInv => NoSharedEndpoint
  <2>. SUFFICES ASSUME EInv, NEW p \in Pairs
                PROVE  /\ gateway[p[1]].name # gateway[p[2]].name
                       /\ OnOneWorker(p) => /\ gateway[p[1]].ip # gateway[p[2]].ip
                                            /\ gateway[p[1]].port # gateway[p[2]].port
    BY DEF NoSharedEndpoint
  <2>1. p[1] \in Gateways /\ p[2] \in Gateways /\ p[1] \in Int /\ p[2] \in Int /\ p[1] < p[2]
    BY DEF Pairs, Gateways, Ids
  <2>2. p[1] # p[2]
    BY <2>1
  <2>. QED  BY <2>1, <2>2 DEF EInv, Distinct, OnOneWorker
<1>. QED  BY <1>1, EInvHolds, PTL

\* The address of every gateway is allocated to its worker, and every allocated port is
\* a gateway's: execute_delete_gateway releases nothing that another one uses.
THEOREM AllocatedStays == Spec => []AllocatedWhileUsed
<1>1. EInv => AllocatedWhileUsed
  BY DEF EInv
<1>. QED  BY <1>1, EInvHolds, PTL

-----------------------------------------------------------------------------
(* Addresses in a LAN.  Nothing but the count of the hosts when a batch begins *)
(* keeps it from the broadcast address, which FreeLan would hand out last.     *)

HostsOf(g) == {a \in 1..(LanTop - 1) : a >= group[g].start}

\* The gateways that a batch has still to create fit into what is left of the LAN,
\* the start it has read is still the group's, and the address it has read is free.
FitsIn(q) ==
    /\ q.group \in Groups
    /\ q.start \in {-1, group[q.group].start}
    /\ Cardinality(Members(q.group)) + q.left <= Cardinality(HostsOf(q.group))
    /\ q.pc # "lan" => q.lan # LanTop /\ \A i \in Members(q.group) : gateway[i].lan # q.lan

OwnAddresses ==
    /\ \A i \in Gateways : gateway[i].group # 0 =>
         gateway[i].group \in Groups /\ gateway[i].lan # LanTop
    /\ \A i, k \in Gateways : i # k /\ gateway[i].group # 0 /\ gateway[i].group = gateway[k].group =>
         gateway[i].lan # gateway[k].lan

BatchesFit ==
    /\ \A r \in Requests : IsBatch(r) => FitsIn(req[r])
    /\ \A r, s \in Requests : IsBatch(r) /\ IsBatch(s) /\ req[r].group = req[s].group => r = s

LInv == orderly => OwnAddresses /\ BatchesFit

\* The gateways of a group, and the hosts of its network, can be counted.
LEMMA GroupIsFinite ==
    ASSUME NEW g
    PROVE  /\ IsFiniteSet(Members(g)) /\ Cardinality(Members(g)) \in Nat
           /\ IsFiniteSet(HostsOf(g)) /\ Cardinality(HostsOf(g)) \in Nat
<1>1. MaxGateways \in Int /\ LanTop - 1 \in Int
  BY PoolsAssumption, BoundsAssumption
<1>2. IsFiniteSet(1..MaxGateways) /\ IsFiniteSet(1..(LanTop - 1))
  BY <1>1, FS_Interval
<1>3. Members(g) \in SUBSET (1..MaxGateways) /\ HostsOf(g) \in SUBSET (1..(LanTop - 1))
  BY DEF Members, Gateways, Ids, HostsOf
<1>4. IsFiniteSet(Members(g)) /\ IsFiniteSet(HostsOf(g))
  BY <1>2, <1>3, FS_Subset
<1>. QED  BY <1>4, FS_CardinalityType

\* The lesser of two numbers is no greater than the greater.
LEMMA MaxWithZero ==
    ASSUME NEW x \in Int, NEW n \in Nat \ {0}, n <= Max({0, x})
    PROVE  n <= x
<1>1. \E m \in {0, x} : \A y \in {0, x} : m >= y
  BY DEF Max
<1>2. Max({0, x}) \in {0, x}
  BY <1>1 DEF Max
<1>. QED  BY <1>2

\* As long as a group has fewer gateways than hosts, there is a free address for
\* the next, and it is not the broadcast address.
LEMMA SpareAddress ==
    ASSUME TInv, NEW g \in Groups, Cardinality(Members(g)) < Cardinality(HostsOf(g))
    PROVE  /\ FreeLan(g, group[g].start) # -1 /\ FreeLan(g, group[g].start) # LanTop
           /\ \A i \in Members(g) : gateway[i].lan # FreeLan(g, group[g].start)
<1>. DEFINE M == Members(g)
            lan == [i \in M |-> gateway[i].lan]
            used == {lan[i] : i \in M}
            free == {a \in group[g].start..LanTop : \A i \in M : gateway[i].lan # a}
<1>1. PICK a \in HostsOf(g) : a \notin used
  <2>1. SUFFICES ASSUME HostsOf(g) \subseteq used PROVE FALSE
    OBVIOUS
  <2>2. lan \in Surjection(M, used)
    BY DEF Surjection
  <2>3. IsFiniteSet(used) /\ Cardinality(used) <= Cardinality(M)
    <3>. HIDE DEF lan, used
    <3>. QED  BY <2>2, GroupIsFinite, FS_Surjection
  <2>4. Cardinality(HostsOf(g)) <= Cardinality(used) /\ Cardinality(used) \in Nat
    <3>. HIDE DEF used
    <3>. QED  BY <2>1, <2>3, FS_Subset, FS_CardinalityType
  <2>. HIDE DEF used
  <2>. QED  BY <2>3, <2>4, GroupIsFinite
<1>2. group[g].start \in 0..LanTop
  BY LiveRows, PoolsAssumption DEF GroupRow, TInv
<1>3. a \in 1..(LanTop - 1) /\ a >= group[g].start /\ \A i \in M : gateway[i].lan # a
  BY <1>1 DEF HostsOf
<1>4. a \in free /\ a < LanTop /\ free \in SUBSET Nat
  BY <1>2, <1>3, PoolsAssumption
<1>. HIDE DEF free
<1>5. Min(free) \in free /\ Min(free) <= a /\ FreeLan(g, group[g].start) = Min(free)
  <2>1. Min(free) \in free /\ \A x \in free : Min(free) <= x
    BY <1>4, MinIsLeast
  <2>. QED  BY <1>4, <2>1 DEF FreeLan, First, free
<1>6. FreeLan(g, group[g].start) \in Nat /\ FreeLan(g, group[g].start) < LanTop
  <2>1. FreeLan(g, group[g].start) \in Nat /\ FreeLan(g, group[g].start) <= a
    BY <1>4, <1>5
  <2>2. a \in Int /\ a < LanTop
    BY <1>3, <1>4
  <2>. QED  BY <2>1, <2>2, PoolsAssumption
<1>7. \A i \in M : gateway[i].lan # FreeLan(g, group[g].start)
  BY <1>5 DEF free
<1>. QED  BY <1>6, <1>7, PoolsAssumption

\* A step that leaves the creations alone: a gateway goes or leaves its group, and a
\* group with gateways or a batch stays what it is.
LEMMA FewerFit ==
    ASSUME TInv, LInv, UNCHANGED <<req, orderly>>,
           \A i \in Gateways' : /\ i \in Gateways /\ gateway'[i].lan = gateway[i].lan
                                /\ gateway'[i].group \in {gateway[i].group, 0},
           orderly => \A g \in Groups :
             \/ g \in Groups' /\ group'[g].start = group[g].start
             \/ /\ \A r \in Requests : IsBatch(r) => req[r].group # g
                /\ \A i \in Gateways' : gateway'[i].group # g
    PROVE  LInv'
<1>. SUFFICES ASSUME orderly PROVE OwnAddresses' /\ BatchesFit'
  BY DEF LInv
<1>1. OwnAddresses'
  BY DEF LInv, OwnAddresses
<1>2. ASSUME NEW r \in Requests, IsBatch(r)
      PROVE  FitsIn(req[r])'
  <2>. DEFINE g == req[r].group
  <2>1. FitsIn(req[r]) /\ g # 0
    BY <1>2 DEF LInv, BatchesFit, IsBatch
  <2>2. g \in Groups' /\ group'[g].start = group[g].start
    BY <1>2, <2>1 DEF FitsIn
  <2>3. Members(g)' \in SUBSET Members(g) /\ HostsOf(g)' = HostsOf(g)
    BY <2>1, <2>2 DEF Members, HostsOf
  <2>4. Cardinality(Members(g)') <= Cardinality(Members(g)) /\ Cardinality(Members(g)') \in Nat
    BY <2>3, GroupIsFinite, FS_Subset, FS_CardinalityType
  <2>5. req[r].left \in Nat /\ Cardinality(Members(g)) \in Nat /\ Cardinality(HostsOf(g)) \in Nat
    BY GroupIsFinite, BoundsAssumption DEF TInv, RequestsInv, RequestRow
  <2>6. Cardinality(Members(g)') + req[r].left <= Cardinality(HostsOf(g))
    BY <2>1, <2>4, <2>5 DEF FitsIn
  <2>7. \A i \in Members(g)' : i \in Members(g) /\ gateway'[i].lan = gateway[i].lan
    BY <2>3 DEF Members
  <2>. QED  BY <2>1, <2>2, <2>3, <2>6, <2>7 DEF FitsIn
<1>3. BatchesFit'
  BY <1>2 DEF LInv, BatchesFit, IsBatch
<1>. QED  BY <1>1, <1>3

\* The request of a batch that begins or goes on takes a place of its own.
TakesPlace(r, q) ==
    q.pc # "idle" /\ q.group # 0 =>
        FitsIn(q) /\ \A s \in Requests \ {r} : IsBatch(s) => req[s].group # q.group

\* A step that changes one creation and leaves the rows alone.
LEMMA OneRequestFits ==
    ASSUME TInv, LInv, NEW r \in Requests, NEW q, req' = [req EXCEPT ![r] = q],
           UNCHANGED <<gateway, group, orderly>>, orderly => TakesPlace(r, q)
    PROVE  LInv'
<1>. SUFFICES ASSUME orderly PROVE OwnAddresses' /\ BatchesFit'
  BY DEF LInv
<1>1. \A g : Members(g)' = Members(g) /\ HostsOf(g)' = HostsOf(g)
  BY DEF Members, HostsOf, Gateways
<1>2. Groups' = Groups /\ Gateways' = Gateways
  BY DEF Groups, Gateways
<1>3. OwnAddresses'
  BY <1>2 DEF LInv, OwnAddresses
<1>4. req'[r] = q /\ \A s \in Requests \ {r} : req'[s] = req[s]
  BY DEF TInv, RequestsInv
<1>5. \A s \in Requests : /\ IsBatch(s)' => FitsIn(req'[s])
                          /\ s # r /\ IsBatch(s)' => IsBatch(s)
  BY <1>4 DEF LInv, BatchesFit, IsBatch, TakesPlace
<1>6. \A s \in Requests : FitsIn(req'[s]) => FitsIn(req[s])'
  BY <1>1, <1>2 DEF FitsIn
<1>7. \A s, t \in Requests : IsBatch(s)' /\ IsBatch(t)' /\ req'[s].group = req'[t].group => s = t
  <2>1. \A s, t \in Requests \ {r} :
          IsBatch(s)' /\ IsBatch(t)' /\ req'[s].group = req'[t].group => s = t
    BY <1>4, <1>5 DEF LInv, BatchesFit
  <2>2. \A s \in Requests \ {r} : IsBatch(s)' /\ IsBatch(r)' => req'[s].group # req'[r].group
    BY <1>4, <1>5 DEF IsBatch, TakesPlace
  <2>. QED  BY <2>1, <2>2
<1>. QED  BY <1>3, <1>5, <1>6, <1>7 DEF BatchesFit

\* The groups are created, renamed and deleted.
LEMMA GroupFits == TInv /\ LInv /\ GroupStep => LInv'
<1>. SUFFICES ASSUME TInv, LInv, GroupStep PROVE LInv'
  OBVIOUS
<1>0. group \in [GroupIds -> GroupRow \cup {NoGroup}]
  BY DEF TInv, RowsInv
<1>1. ASSUME NEW n \in GroupNames, NEW w \in Workers, NEW s \in Starts, CreateGroup(n, w, s)
      PROVE  LInv'
  <2>1. NextId(Groups) \notin Groups
    <3>1. Groups \in SUBSET (1..MaxGroups)
      BY DEF Groups, GroupIds
    <3>. QED  BY <3>1, NextIdIsFree, BoundsAssumption
  <2>2. \A g \in Groups : group'[g] = group[g] /\ g \in Groups'
    BY <1>0, <1>1, <2>1 DEF CreateGroup, Groups
  <2>. QED  BY <1>1, <2>2, FewerFit DEF CreateGroup, Gateways
<1>2. ASSUME NEW g \in GroupIds, NEW n \in GroupNames, RenameGroup(g, n)
      PROVE  LInv'
  <2>1. group[g] \in GroupRow
    BY <1>2, LiveRows DEF RenameGroup, TInv
  <2>2. \A h \in Groups : group'[h].start = group[h].start /\ h \in Groups'
    BY <1>0, <1>2, <2>1 DEF RenameGroup, Groups, GroupRow
  <2>. QED  BY <1>2, <2>2, FewerFit DEF RenameGroup, Gateways
<1>3. ASSUME NEW g \in GroupIds, DeleteGroup(g)
      PROVE  LInv'
  <2>1. \A i \in Ids : gateway'[i] = IF i \in Members(g) THEN [gateway[i] EXCEPT !.group = 0]
                                     ELSE gateway[i]
    BY <1>3 DEF DeleteGroup
  <2>2. \A i \in Gateways : gateway[i] \in GatewayRow
    BY LiveRows DEF TInv
  <2>3. \A i \in Gateways' : i \in Ids /\ gateway'[i].live
    BY DEF Gateways
  <2>4. \A i \in Members(g) : i \in Gateways /\ gateway'[i].lan = gateway[i].lan
                              /\ gateway'[i].group = 0
    BY <2>1, <2>2 DEF Members, Gateways, GatewayRow
  <2>5. \A i \in Gateways' : i \notin Members(g) => i \in Gateways /\ gateway'[i] = gateway[i]
    BY <2>1, <2>3 DEF Gateways
  <2>6. g # 0
    BY DEF GroupIds
  <2>7. \A i \in Gateways' : /\ i \in Gateways /\ gateway'[i].lan = gateway[i].lan
                             /\ gateway'[i].group \in {gateway[i].group, 0}
                             /\ gateway'[i].group # g
    BY <2>4, <2>5, <2>6 DEF Members
  <2>8. \A h \in Groups \ {g} : group'[h] = group[h] /\ h \in Groups'
    BY <1>0, <1>3 DEF DeleteGroup, Groups
  <2>9. orderly => \A r \in Requests : IsBatch(r) => req[r].group # g
    BY <1>3 DEF DeleteGroup, IsUndisturbed
  <2>. QED  BY <1>3, <2>7, <2>8, <2>9, FewerFit DEF DeleteGroup
<1>. QED  BY <1>1, <1>2, <1>3 DEF GroupStep

\* A creation begins: a batch has its group to itself, and fits.
LEMMA BeginFits ==
    ASSUME TInv, LInv, NEW r \in Requests,
           \/ \E w \in Workers, ui \in BOOLEAN, p \in {0, MaxPort} : BeginSingle(r, w, ui, p)
           \/ \E g \in GroupIds, ui \in BOOLEAN, n \in 1..MaxCount : BeginBatch(r, g, ui, n)
    PROVE  LInv'
<1>1. ASSUME NEW w \in Workers, NEW ui \in BOOLEAN, NEW p \in {0, MaxPort}, BeginSingle(r, w, ui, p)
      PROVE  LInv'
  <2>. DEFINE q == [Idle EXCEPT !.pc = "name", !.ui = ui, !.worker = w, !.left = 1, !.port = p]
  <2>1. q.group = 0
    BY DEF Idle
  <2>2. TakesPlace(r, q)
    BY <2>1 DEF TakesPlace
  <2>. HIDE DEF q
  <2>3. Begin(r, q)
    BY <1>1 DEF BeginSingle, q
  <2>. QED  BY <2>2, <2>3, OneRequestFits DEF Begin
<1>2. ASSUME NEW g \in GroupIds, NEW ui \in BOOLEAN, NEW n \in 1..MaxCount, BeginBatch(r, g, ui, n)
      PROVE  LInv'
  <2>. DEFINE q == [Idle EXCEPT !.pc = "lan", !.ui = ui, !.group = g, !.start = group[g].start,
                                !.worker = group[g].worker, !.left = n]
  <2>1. q.group = g /\ q.start = group[g].start /\ q.left = n /\ q.pc = "lan"
    BY DEF Idle
  <2>2. Begin(r, q) /\ g \in Groups /\ n <= Capacity(g) /\ IsUndisturbed(g)
    BY <1>2 DEF BeginBatch
  <2>. HIDE DEF q
  <2>3. n <= Cardinality(HostsOf(g)) - Cardinality(Members(g))
    <3>1. Cardinality(HostsOf(g)) - Cardinality(Members(g)) \in Int
      BY GroupIsFinite
    <3>2. n \in Nat \ {0}
      BY BoundsAssumption
    <3>3. n <= Max({0, Cardinality(HostsOf(g)) - Cardinality(Members(g))})
      BY <2>2 DEF Capacity, HostsOf
    <3>. QED  BY <3>1, <3>2, <3>3, MaxWithZero
  <2>4. Cardinality(Members(g)) + n <= Cardinality(HostsOf(g))
    BY <2>3, GroupIsFinite
  <2>5. FitsIn(q)
    BY <2>1, <2>2, <2>4 DEF FitsIn
  <2>6. orderly => TakesPlace(r, q)
    BY <2>1, <2>2, <2>5 DEF TakesPlace, IsUndisturbed
  <2>. QED  BY <2>2, <2>6, OneRequestFits DEF Begin
<1>. QED  BY <1>1, <1>2

\* A creation reads what is free, or ends.
LEMMA ReadFits ==
    ASSUME TInv, LInv, NEW r \in Requests,
           PickFirstLan(r) \/ PickLan(r) \/ PickName(r) \/ Preauth(r) \/ InsertRefused(r) \/ NoPort(r)
    PROVE  LInv'
<1>0. req[r] \in RequestRow /\ req \in [Requests -> RequestRow] /\ HasRead(req[r])
  BY DEF TInv, RequestsInv
<1>1. TakesPlace(r, Idle)
  BY DEF TakesPlace, Idle
<1>2. UNCHANGED <<gateway, group, orderly>>
  BY DEF PickFirstLan, PickLan, PickName, Preauth, InsertRefused, NoPort
<1>3. CASE Ends(r)
  BY <1>1, <1>2, <1>3, OneRequestFits DEF Ends
<1>4. ASSUME NEW q, req' = [req EXCEPT ![r] = q], req[r].pc \notin {"idle", "lan"},
             q.group = req[r].group, q.start = req[r].start, q.left = req[r].left,
             q.lan = req[r].lan
      PROVE  LInv'
  <2>1. orderly => TakesPlace(r, q)
    BY <1>4 DEF TakesPlace, FitsIn, LInv, BatchesFit, IsBatch
  <2>. QED  BY <1>2, <1>4, <2>1, OneRequestFits
<1>5. ASSUME req[r].pc = "lan", req[r].group \in Groups,
             NEW q, req' = [req EXCEPT ![r] = q], q.pc = "name", q.group = req[r].group,
             q.start = -1, q.left = req[r].left, q.lan = FreeLan(q.group, group[q.group].start)
      PROVE  LInv'
  <2>1. ASSUME orderly
        PROVE  TakesPlace(r, q)
    <3>1. IsBatch(r) /\ FitsIn(req[r])
      BY <1>5, <2>1 DEF LInv, BatchesFit, IsBatch, Groups, GroupIds
    <3>2. req[r].left \in Nat \ {0}
      BY <1>0, <1>5, BoundsAssumption DEF RequestRow, HasRead
    <3>3. Cardinality(Members(req[r].group)) < Cardinality(HostsOf(req[r].group))
      BY <3>1, <3>2, GroupIsFinite DEF FitsIn
    <3>4. FitsIn(q)
      BY <1>5, <3>1, <3>3, SpareAddress DEF FitsIn
    <3>. QED  BY <1>5, <2>1, <3>1, <3>4 DEF TakesPlace, LInv, BatchesFit
  <2>. QED  BY <1>2, <1>5, <2>1, OneRequestFits
<1>8. CASE PickFirstLan(r)
  <2>. DEFINE lan == FreeLan(req[r].group, req[r].start)
  <2>1. req[r].group \in GroupIds /\ req[r].pc = "lan" /\ req[r].start # -1
    BY <1>0, <1>8 DEF PickFirstLan, HasRead
  <2>2. CASE lan = -1
    BY <1>3, <1>8, <2>2 DEF PickFirstLan, Ends
  <2>3. CASE lan # -1 /\ orderly
    <3>. DEFINE q == [req[r] EXCEPT !.pc = "name", !.start = -1, !.lan = lan]
    <3>1. req[r].group \in Groups /\ req[r].start = group[req[r].group].start
      BY <2>1, <2>3 DEF LInv, BatchesFit, FitsIn, IsBatch, GroupIds
    <3>2. /\ q.pc = "name" /\ q.group = req[r].group /\ q.start = -1 /\ q.left = req[r].left
          /\ q.lan = FreeLan(req[r].group, group[req[r].group].start)
      BY <1>0, <3>1 DEF RequestRow
    <3>3. req' = [req EXCEPT ![r] = q]
      BY <1>8, <2>3 DEF PickFirstLan
    <3>. HIDE DEF q
    <3>. QED  BY <1>5, <2>1, <3>1, <3>2, <3>3
  <2>4. CASE ~orderly
    BY <1>2, <2>4 DEF LInv
  <2>. QED  BY <2>2, <2>3, <2>4
<1>9. CASE PickLan(r)
  <2>. DEFINE lan == FreeLan(req[r].group, group[req[r].group].start)
  <2>1. CASE req[r].group \notin Groups \/ lan = -1
    BY <1>3, <1>9, <2>1 DEF PickLan, Ends
  <2>2. CASE req[r].group \in Groups /\ lan # -1
    <3>. DEFINE q == [req[r] EXCEPT !.pc = "name", !.worker = group[req[r].group].worker, !.lan = lan]
    <3>1. /\ q.pc = "name" /\ q.group = req[r].group /\ q.start = -1 /\ q.left = req[r].left
          /\ q.lan = FreeLan(req[r].group, group[req[r].group].start)
      BY <1>0, <1>9 DEF RequestRow, PickLan
    <3>2. req' = [req EXCEPT ![r] = q] /\ req[r].pc = "lan"
      BY <1>9, <2>2 DEF PickLan
    <3>. HIDE DEF q
    <3>. QED  BY <1>5, <2>2, <3>1, <3>2
  <2>. QED  BY <2>1, <2>2
<1>6. CASE PickName(r)
  <2>1. PICK n : req' = [req EXCEPT ![r].pc = "preauth", ![r].name = n]
    BY <1>6 DEF PickName
  <2>. DEFINE q == [req[r] EXCEPT !.pc = "preauth", !.name = n]
  <2>2. req' = [req EXCEPT ![r] = q]
    BY <1>0, <2>1 DEF RequestRow
  <2>3. q.group = req[r].group /\ q.start = req[r].start /\ q.left = req[r].left /\ q.lan = req[r].lan
    BY <1>0 DEF RequestRow
  <2>. HIDE DEF q
  <2>. QED  BY <1>4, <1>6, <2>2, <2>3 DEF PickName
<1>7. CASE Preauth(r)
  <2>1. CASE ~Ends(r)
    <3>. DEFINE ip == FreeIp(req[r].worker)
                q == [req[r] EXCEPT !.pc = "insert", !.ip = ip]
    <3>1. req' = [req EXCEPT ![r].pc = "insert", ![r].ip = ip]
      BY <1>7, <2>1 DEF Preauth
    <3>. HIDE DEF ip
    <3>2. req' = [req EXCEPT ![r] = q]
      BY <1>0, <3>1 DEF RequestRow
    <3>3. q.group = req[r].group /\ q.start = req[r].start /\ q.left = req[r].left /\ q.lan = req[r].lan
      BY <1>0 DEF RequestRow
    <3>. HIDE DEF q
    <3>. QED  BY <1>4, <1>7, <3>2, <3>3 DEF Preauth
  <2>. QED  BY <1>3, <2>1
<1>. QED  BY <1>3, <1>6, <1>7, <1>8, <1>9 DEF InsertRefused, NoPort

\* An insertion takes the address that was read, and leaves a place less.
LEMMA InsertFits ==
    ASSUME TInv, LInv, NEW r \in Requests, Insert(r)
    PROVE  LInv'
<1>. SUFFICES ASSUME orderly, orderly' = orderly PROVE OwnAddresses' /\ BatchesFit'
  BY DEF LInv, Insert
<1>. DEFINE n == NextId(Gateways)
            g == req[r].group
            after == After(r)
<1>1. /\ n \notin Gateways /\ Gateways' = Gateways \cup {n}
      /\ gateway'[n] = NewRow(r) /\ \A i \in Gateways : gateway'[i] = gateway[i]
  BY InsertAdds
<1>. HIDE DEF n
<1>2. NewRow(r).group = g /\ NewRow(r).lan = req[r].lan
  BY DEF NewRow
<1>3. /\ req[r].pc = "insert" /\ UNCHANGED group
      /\ req' = [req EXCEPT ![r] = after]
  BY DEF Insert
<1>4. req[r] \in RequestRow /\ HasRead(req[r]) /\ req \in [Requests -> RequestRow]
  BY DEF TInv, RequestsInv
<1>5. req'[r] = after /\ \A s \in Requests \ {r} : req'[s] = req[s]
  BY <1>3, <1>4
<1>6. \/ after = Idle
      \/ /\ after.pc = "lan" /\ after.group = g /\ after.start = req[r].start
         /\ after.left = req[r].left - 1
  BY <1>4 DEF After, RequestRow
<1>. HIDE DEF after
<1>7. g # 0 => /\ IsBatch(r) /\ g \in Groups /\ req[r].lan # LanTop
               /\ req[r].start \in {-1, group[g].start}
               /\ \A i \in Members(g) : gateway[i].lan # req[r].lan
               /\ Cardinality(Members(g)) + req[r].left <= Cardinality(HostsOf(g))
               /\ \A s \in Requests \ {r} : IsBatch(s) => req[s].group # g
  BY <1>3 DEF LInv, BatchesFit, FitsIn, IsBatch
<1>8. Groups' = Groups /\ \A h : HostsOf(h)' = HostsOf(h)
  BY <1>3 DEF Groups, HostsOf
<1>9. OwnAddresses'
  <2>1. \A i \in Gateways : /\ gateway[i].group # 0 =>
                                 gateway[i].group \in Groups /\ gateway[i].lan # LanTop
                            /\ \A k \in Gateways :
                                 i # k /\ gateway[i].group # 0 /\ gateway[i].group = gateway[k].group =>
                                   gateway[i].lan # gateway[k].lan
    BY DEF LInv, OwnAddresses
  <2>2. \A i \in Gateways : g # 0 /\ gateway[i].group = g => gateway[i].lan # req[r].lan
    BY <1>7 DEF Members
  <2>3. \A i \in Gateways' : gateway'[i].group # 0 =>
          gateway'[i].group \in Groups' /\ gateway'[i].lan # LanTop
    BY <1>1, <1>2, <1>7, <1>8, <2>1
  <2>4. \A i, k \in Gateways' :
          i # k /\ gateway'[i].group # 0 /\ gateway'[i].group = gateway'[k].group =>
            gateway'[i].lan # gateway'[k].lan
    BY <1>1, <1>2, <2>1, <2>2
  <2>. QED  BY <2>3, <2>4 DEF OwnAddresses
<1>10. ASSUME NEW s \in Requests, IsBatch(s)'
       PROVE  /\ FitsIn(req[s])' /\ IsBatch(s) /\ req'[s].group = req[s].group
  <2>1. CASE s # r
    <3>1. req'[s] = req[s] /\ IsBatch(s) /\ FitsIn(req[s])
      BY <1>5, <1>10, <2>1 DEF LInv, BatchesFit, IsBatch
    <3>2. req[s].group # g
      BY <1>7, <2>1, <3>1 DEF IsBatch
    <3>3. Members(req[s].group)' = {i \in Gateways' : gateway'[i].group = req[s].group}
      BY <1>5, <2>1 DEF Members
    <3>4. {i \in Gateways' : gateway'[i].group = req[s].group} = Members(req[s].group)
      BY <1>1, <1>2, <3>2 DEF Members
    <3>5. \A i \in Members(req[s].group) : gateway'[i] = gateway[i]
      BY <1>1 DEF Members
    <3>6. HostsOf(req[s].group)' = HostsOf(req[s].group)
      BY <1>3, <3>1 DEF HostsOf
    <3>7. req[s].group \in Groups' /\ req[s].start \in {-1, group'[req[s].group].start}
      BY <1>3, <1>8, <3>1 DEF FitsIn
    <3>8. Members(req[s].group)' = Members(req[s].group)
      BY <3>3, <3>4
    <3>. QED  BY <3>1, <3>5, <3>6, <3>7, <3>8 DEF FitsIn
  <2>2. CASE s = r
    <3>1. /\ after.pc = "lan" /\ after.group = g /\ after.start = req[r].start
          /\ after.left = req[r].left - 1 /\ g # 0
      BY <1>5, <1>6, <1>10, <2>2 DEF IsBatch, Idle
    <3>2. Cardinality(Members(g) \cup {n}) <= Cardinality(Members(g)) + 1
      <4>1. Cardinality(Members(g) \cup {n})
              \in {Cardinality(Members(g)), Cardinality(Members(g)) + 1}
        BY GroupIsFinite, FS_AddElement, Zenon
      <4>. QED  BY <4>1, GroupIsFinite
    <3>3. IsFiniteSet(Members(g) \cup {n}) /\ Cardinality(Members(g) \cup {n}) \in Nat
      BY GroupIsFinite, FS_AddElement, FS_CardinalityType
    <3>4. req[r].left \in Nat /\ Cardinality(Members(g)) \in Nat /\ Cardinality(HostsOf(g)) \in Nat
      BY <1>4, GroupIsFinite, BoundsAssumption DEF RequestRow
    <3>5. Cardinality(Members(g) \cup {n}) + after.left <= Cardinality(HostsOf(g))
      BY <1>7, <3>1, <3>2, <3>3, <3>4
    <3>6. Members(req[r].group)' = Members(g) \cup {n}
      <4>1. Members(req[r].group)' = {i \in Gateways' : gateway'[i].group = after.group}
        BY <1>5 DEF Members
      <4>. QED  BY <1>1, <1>2, <3>1, <4>1 DEF Members
    <3>7. HostsOf(req[r].group)' = HostsOf(g)
      BY <1>3, <1>5, <3>1 DEF HostsOf
    <3>8. g \in Groups' /\ after.start \in {-1, group'[g].start}
      BY <1>3, <1>7, <1>8, <3>1
    <3>9. req'[r].group = g /\ req'[r].start = after.start /\ req'[r].left = after.left /\ req'[r].pc = "lan"
      BY <1>5, <3>1
    <3>10. Members(req[r].group)' = Members(g) \cup {n} /\ HostsOf(req[r].group)' = HostsOf(g)
      BY <3>6, <3>7
    <3>11. req'[r].group \in Groups' /\ req'[r].start \in {-1, group'[req'[r].group].start}
      BY <3>8, <3>9
    <3>12. Cardinality(Members(req[r].group)') + req'[r].left <= Cardinality(HostsOf(req[r].group)')
      BY <3>5, <3>9, <3>10
    <3>. QED  BY <1>7, <2>2, <3>1, <3>9, <3>11, <3>12 DEF FitsIn
  <2>. QED  BY <2>1, <2>2
<1>11. BatchesFit'
  BY <1>10 DEF LInv, BatchesFit
<1>. QED  BY <1>9, <1>11

\* A gateway is about to be deleted, or is.
LEMMA DeleteFits ==
    ASSUME TInv, LInv, NEW i \in Ids, RequestDelete(i) \/ ExecuteDelete(i)
    PROVE  LInv'
<1>1. CASE RequestDelete(i)
  <2>1. gateway[i] \in GatewayRow
    BY <1>1, LiveRows DEF TInv, RequestDelete
  <2>2. \A k \in Gateways' : k \in Gateways /\ gateway'[k].lan = gateway[k].lan
                             /\ gateway'[k].group = gateway[k].group
    BY <1>1, <2>1 DEF RequestDelete, TInv, RowsInv, Gateways, GatewayRow
  <2>. QED  BY <1>1, <2>2, FewerFit DEF RequestDelete, Groups
<1>2. CASE ExecuteDelete(i)
  <2>1. \A k \in Gateways' : k \in Gateways /\ gateway'[k] = gateway[k]
    BY <1>2, DeleteRemoves
  <2>. QED  BY <1>2, <2>1, FewerFit DEF ExecuteDelete, Groups
<1>. QED  BY <1>1, <1>2

LEMMA LInvStep == TInv /\ LInv /\ [Next]_vars => LInv'
<1>. SUFFICES ASSUME TInv, LInv, [Next]_vars PROVE LInv'
  OBVIOUS
<1>1. CASE GroupStep
  BY <1>1, GroupFits
<1>2. ASSUME NEW r \in Requests, CreateStep(r) PROVE LInv'
  BY <1>2, BeginFits, ReadFits, InsertFits DEF CreateStep
<1>3. ASSUME NEW i \in Ids, RequestDelete(i) \/ ExecuteDelete(i) PROVE LInv'
  BY <1>3, DeleteFits
<1>4. CASE UNCHANGED vars
  BY <1>4, FewerFit DEF vars, Gateways, Groups
<1>. QED  BY <1>1, <1>2, <1>3, <1>4 DEF Next

\* Where nobody interferes with a batch, the gateways of a group have addresses of
\* their own in its LAN, none of them the broadcast address, whatever the size of the
\* LAN and its start, and however many batches run in other groups.
THEOREM LanAddresses == Spec => []LanAddressesFit
<1>1. Init => LInv
  BY DEF Init, LInv, OwnAddresses, BatchesFit, IsBatch, Gateways, NoGateway, Idle
<1>2. LInv => LanAddressesFit
  BY DEF LInv, OwnAddresses, LanAddressesFit, Members
<1>. QED  BY <1>1, <1>2, LInvStep, TInvHolds, PTL DEF Spec

=============================================================================
