------------------------ MODULE BackhaulPeers_proofs ------------------------
(***************************************************************************)
(* Proofs about BackhaulPeers, for every value of its constants:            *)
(*   TypeCorrect      Spec => []TypeOK                                     *)
(*   UniqueAddresses  Spec => []AddressesHeld,                            *)
(*                    when no peer is deleted, no address is left over     *)
(*   KeysKept         Spec => []PeersKnown                                *)
(* for any number of racing requests and of runs of the routing script.     *)
(*                                                                         *)
(* TypeOK needs that a handler about to use a key or an address has one.    *)
(* UniqueAddresses needs the discipline of the write lock: between the flush *)
(* and the commit of create_peer nobody else allocates, so that the address *)
(* which was free at the flush is free at the commit.  KeysKept needs that a *)
(* generated key is its request's alone until it is in a row, and that a key *)
(* which is taken away is still to be replaced in, or deleted with, its row. *)
(***************************************************************************)
EXTENDS BackhaulPeers, SequenceTheorems, TLAPS

\* Places in the code where a handler has a key, or an address, to use.
KeyPc == {"insert", "add", "uplink", "commit", "remove", "delete", "drop", "suspend",
          "undrop", "resume", "revoke", "renew", "rekey", "resync", "relink"}
IpPc == {"insert", "add", "uplink", "commit", "remove", "delete", "drop", "suspend",
         "undrop", "resume", "revoke"}

HandlerOK(q) ==
    /\ q \in RequestState
    /\ q.pc \in KeyPc => q.key \in Key
    /\ q.pc \in IpPc => q.ip \in Address

RowsInv ==
    /\ peer \in [PeerId -> PeerRow]
    /\ allocated \subseteq Address

\* A run that restores a peer has its key; one that sets peers has some left.
ScriptOK(c) ==
    /\ c \in ScriptState
    /\ c.pc = "restore" => c.uplink \in Key
    /\ c.pc = "set" => c.todo # <<>>

VmInv ==
    /\ wg \in Seq(Key)
    /\ route \in Key \cup {NoKey}
    /\ dropped \subseteq Address
    /\ uplink \in Key \cup {NoKey}
    /\ script \in [Scripts -> ScriptState]
    /\ \A s \in Scripts : ScriptOK(script[s])

HandlersInv ==
    /\ request \in [Handlers -> RequestState]
    /\ \A r \in Handlers : HandlerOK(request[r])

BoundsInv ==
    /\ lock \in Handlers \cup {NoRequest}
    /\ generated \in 0..MaxKeys
    /\ faults \in 0..MaxFaults
    /\ failed \in BOOLEAN
    /\ reboots \in 0..MaxReboots

IInv == RowsInv /\ VmInv /\ HandlersInv /\ BoundsInv

-----------------------------------------------------------------------------
(* The VM *)

\* Removing a peer from the interface leaves a list of keys (wg_handler's
\* remove_peer).
LEMMA RemoveAtType ==
    ASSUME NEW S, NEW s \in Seq(S), NEW i \in DOMAIN s
    PROVE  RemoveAt(s, i) \in Seq(S)
<1>1. i \in 1..Len(s) /\ Len(s) \in Nat
  OBVIOUS
<1>2. SubSeq(s, 1, i-1) \in Seq(S)
  BY <1>1
<1>3. SubSeq(s, i+1, Len(s)) \in Seq(S)
  BY <1>1
<1>. QED  BY <1>2, <1>3 DEF RemoveAt

\* The keys of the interface are keys.
LEMMA RangeType ==
    ASSUME NEW S, NEW s \in Seq(S)
    PROVE  Range(s) \subseteq S
  BY DEF Range

\* wg set ... peer ... allowed-ips, with a generated key.
LEMMA WgAddType ==
    ASSUME VmInv, NEW k \in Key, WgAdd(k), UNCHANGED <<dropped, uplink, script>>
    PROVE  VmInv'
  BY DEF VmInv, WgAdd

\* wg set ... peer ... remove.
LEMMA WgRemoveType ==
    ASSUME VmInv, NEW k, WgRemove(k), UNCHANGED <<dropped, uplink, script>>
    PROVE  VmInv'
  BY RemoveAtType DEF VmInv, WgRemove

\* A run of the routing script that goes on to a state of its type leaves the
\* others alone.
LEMMA ScriptUpdateType ==
    ASSUME VmInv, NEW s \in Scripts, NEW c, ScriptOK(c), script' = [script EXCEPT ![s] = c]
    PROVE  /\ script' \in [Scripts -> ScriptState]
           /\ \A d \in Scripts : ScriptOK(script'[d])
  BY DEF VmInv, ScriptOK

\* A run that starts, and one that has ended.
LEMMA ScriptType ==
    ASSUME VmInv, NEW s
    PROVE  ScriptOK(Script("check", uplink, <<>>)) /\ ScriptOK(Ended(s)) /\ ScriptOK(ScriptIdle)
  BY DEF VmInv, ScriptOK, Script, Ended, ScriptIdle, ScriptState, NoKey

\* A step of the routing script.
LEMMA ScriptStepType ==
    ASSUME VmInv, NEW s \in Scripts, ScriptStep(s)
    PROVE  VmInv'
<1>. DEFINE c == script[s]
<1>0. ScriptOK(c) /\ wg \in Seq(Key) /\ UNCHANGED <<dropped, uplink>>
  BY DEF VmInv, ScriptStep
<1>1. CASE ScriptCheck(s)
  <2>. DEFINE pc == IF wg = <<>> /\ c.uplink # NoKey THEN "restore" ELSE "list"
              d == [c EXCEPT !.pc = pc]
  <2>1. ScriptOK(d)
    BY <1>0 DEF ScriptOK, ScriptState
  <2>2. script' = [script EXCEPT ![s] = d]
    BY <1>1 DEF ScriptCheck
  <2>3. UNCHANGED <<wg, route>>
    BY <1>1 DEF ScriptCheck
  <2>. HIDE DEF d
  <2>4. script' \in [Scripts -> ScriptState] /\ \A e \in Scripts : ScriptOK(script'[e])
    BY <2>1, <2>2, ScriptUpdateType
  <2>. QED  BY <1>0, <2>3, <2>4 DEF VmInv
<1>2. CASE ScriptRestore(s)
  <2>. DEFINE d == [c EXCEPT !.pc = "list"]
  <2>1. ScriptOK(d)
    BY <1>0 DEF ScriptOK, ScriptState
  <2>2. script' = [script EXCEPT ![s] = d]
    BY <1>2 DEF ScriptRestore
  <2>3. c.uplink \in Key /\ WgAdd(c.uplink)
    BY <1>0, <1>2 DEF ScriptRestore, ScriptOK
  <2>. HIDE DEF d
  <2>4. script' \in [Scripts -> ScriptState] /\ \A e \in Scripts : ScriptOK(script'[e])
    BY <2>1, <2>2, ScriptUpdateType
  <2>. QED  BY <1>0, <2>3, <2>4 DEF VmInv, WgAdd
<1>3. CASE ScriptList(s)
  <2>1. ScriptOK(Script("set", NoKey, wg)) \/ wg = <<>>
    BY <1>0 DEF ScriptOK, Script, ScriptState, NoKey
  <2>2. ScriptOK(IF wg = <<>> THEN Ended(s) ELSE Script("set", NoKey, wg))
    BY <2>1, ScriptType
  <2>3. script' \in [Scripts -> ScriptState] /\ \A e \in Scripts : ScriptOK(script'[e])
    BY <1>3, <2>2, ScriptUpdateType DEF ScriptList
  <2>. QED  BY <1>0, <1>3, <2>3 DEF VmInv, ScriptList
<1>4. CASE ScriptSet(s)
  <2>1. c.todo \in Seq(Key) /\ c.todo # <<>>
    BY <1>0, <1>4 DEF ScriptSet, ScriptOK, ScriptState
  <2>2. Head(c.todo) \in Key /\ Tail(c.todo) \in Seq(Key)
    BY <2>1
  <2>3. Len(c.todo) # 1 => Tail(c.todo) # <<>>
    <3>1. Len(c.todo) \in Nat \ {0} /\ Len(Tail(c.todo)) = Len(c.todo) - 1
      BY <2>1, HeadTailProperties, EmptySeq
    <3>2. Tail(c.todo) = <<>> <=> Len(Tail(c.todo)) = 0
      BY <2>2, EmptySeq
    <3>. QED  BY <3>1, <3>2
  <2>4. ScriptOK(Script("set", NoKey, Tail(c.todo))) \/ Len(c.todo) = 1
    BY <2>2, <2>3 DEF ScriptOK, Script, ScriptState, NoKey
  <2>5. ScriptOK(IF Len(c.todo) = 1 THEN Ended(s) ELSE Script("set", NoKey, Tail(c.todo)))
    BY <2>4, ScriptType
  <2>6. /\ script' = [script EXCEPT ![s] = IF Len(c.todo) = 1 THEN Ended(s)
                                           ELSE Script("set", NoKey, Tail(c.todo))]
        /\ WgAdd(Head(c.todo))
    BY <1>4 DEF ScriptSet
  <2>7. script' \in [Scripts -> ScriptState] /\ \A e \in Scripts : ScriptOK(script'[e])
    BY <2>5, <2>6, ScriptUpdateType
  <2>. QED  BY <1>0, <2>2, <2>6, <2>7 DEF VmInv, WgAdd
<1>. QED  BY <1>1, <1>2, <1>3, <1>4 DEF ScriptStep

\* Whatever call a handler makes, the VM's state keeps its type.
LEMMA CallType ==
    ASSUME IInv, NEW r \in Handlers, Call(r)
    PROVE  VmInv'
<1>. DEFINE q == request[r]
<1>0. UNCHANGED script
  BY DEF Call
<1>1. HandlerOK(q) /\ VmInv
  BY DEF IInv, HandlersInv
<1>2. CASE q.pc \in {"add", "renew", "resync"} /\ WgAdd(q.key) /\ UNCHANGED <<dropped, uplink>>
  BY <1>0, <1>1, <1>2, WgAddType DEF HandlerOK, KeyPc
<1>3. CASE q.pc \in {"remove", "revoke"} /\ WgRemove(q.key) /\ UNCHANGED <<dropped, uplink>>
  BY <1>0, <1>1, <1>3, WgRemoveType
<1>4. CASE q.pc = "drop" /\ dropped' = dropped \cup {q.ip} /\ UNCHANGED <<wg, route, uplink>>
  BY <1>0, <1>1, <1>4 DEF HandlerOK, IpPc, VmInv
<1>5. CASE q.pc = "undrop" /\ dropped' = dropped \ Matching(q.ip) /\ UNCHANGED <<wg, route, uplink>>
  BY <1>0, <1>1, <1>5 DEF VmInv
<1>6. CASE q.pc \in {"uplink", "relink"} /\ uplink' = q.key /\ UNCHANGED <<wg, route, dropped>>
  BY <1>0, <1>1, <1>6 DEF HandlerOK, KeyPc, VmInv
<1>7. CASE q.pc \in {"boot", "apply", "stats"} /\ UNCHANGED <<wg, route, dropped, uplink>>
  BY <1>0, <1>1, <1>7 DEF VmInv
<1>. QED  BY <1>0, <1>2, <1>3, <1>4, <1>5, <1>6, <1>7 DEF Call
-----------------------------------------------------------------------------
(* Handlers *)

\* A handler that moves to a state of its type leaves the others alone.
LEMMA UpdateType ==
    ASSUME IInv, NEW r \in Handlers, NEW q, HandlerOK(q),
           request' = [request EXCEPT ![r] = q]
    PROVE  HandlersInv'
  BY DEF IInv, HandlersInv, HandlerOK

\* What a request holds when it begins, or when it has chosen key and address.
LEMMA RequestType ==
    ASSUME NEW pc \in RequestPc, NEW p \in PeerId \cup {0}, NEW k \in Key \cup {NoKey},
           NEW ip \in Address \cup {NoAddress}, NEW flag \in BOOLEAN,
           pc \in KeyPc => k \in Key, pc \in IpPc => ip \in Address
    PROVE  HandlerOK(Request(pc, p, k, ip, flag))
<1>1. NoKeys \in [PeerId -> Key \cup {NoKey}]
  BY DEF NoKeys
<1>. QED  BY <1>1 DEF HandlerOK, Request, RequestState

\* The request is over.
LEMMA FinishType ==
    ASSUME IInv, NEW r \in Handlers, Finish(r)
    PROVE  HandlersInv'
<1>1. HandlerOK(IdleRequest)
  BY RequestType DEF IdleRequest, NewRequest, RequestPc, KeyPc, IpPc
<1>. QED  BY <1>1, UpdateType DEF Finish

\* The handler goes on to a place where it needs no more than it has.
LEMMA GotoType ==
    ASSUME IInv, NEW r \in Handlers, NEW pc \in RequestPc, Goto(r, pc),
           pc \in KeyPc => request[r].pc \in KeyPc,
           pc \in IpPc => request[r].pc \in IpPc
    PROVE  HandlersInv'
<1>. DEFINE q == [request[r] EXCEPT !.pc = pc]
<1>1. HandlerOK(request[r])
  BY DEF IInv, HandlersInv
<1>2. HandlerOK(q)
  BY <1>1 DEF HandlerOK, RequestState
<1>3. request' = [request EXCEPT ![r] = q]
  BY DEF Goto
<1>. QED  BY <1>2, <1>3, UpdateType

\* A transaction that is rolled back.
LEMMA AbortType ==
    ASSUME IInv, NEW r \in Handlers, Abort(r)
    PROVE  RowsInv' /\ HandlersInv' /\ lock' \in Handlers \cup {NoRequest}
  BY FinishType DEF Abort, rows, IInv, RowsInv, BoundsInv

\* A new request that has read the row it is about (get_by_id).
LEMMA BeginType ==
    ASSUME IInv, NEW r \in Handlers, NEW op, NEW p \in PeerId,
           NEW pc \in {"remove", "drop", "undrop", "revoke"}, Begin(r, op, p, pc)
    PROVE  HandlersInv'
<1>. DEFINE q == Request(pc, p, peer[p].key, peer[p].ip, peer[p].suspended)
<1>1. peer[p] \in [key : Key, ip : Address, suspended : BOOLEAN]
  BY DEF Begin, Peers, IInv, RowsInv, PeerRow
<1>2. HandlerOK(q)
  BY <1>1, RequestType DEF AgentPc, RequestPc
<1>. QED  BY <1>2, UpdateType DEF Begin

\* A resynchronisation goes on to the first of its keys.
LEMMA AddFirstType ==
    ASSUME IInv, NEW r \in Handlers, NEW keys \in [PeerId -> Key \cup {NoKey}], AddFirst(r, keys)
    PROVE  HandlersInv'
<1>1. PICK p \in PeerId :
        /\ First(p, {q \in PeerId : keys[q] # NoKey})
        /\ request' = [request EXCEPT ![r].pc = "resync", ![r].key = keys[p],
                                      ![r].todo = [keys EXCEPT ![p] = NoKey]]
  BY DEF AddFirst
<1>. DEFINE q == [request[r] EXCEPT !.pc = "resync", !.key = keys[p],
                                    !.todo = [keys EXCEPT ![p] = NoKey]]
<1>2. keys[p] \in Key
  BY <1>1 DEF First
<1>3. request[r] \in RequestState
  BY DEF IInv, HandlersInv
<1>4. [keys EXCEPT ![p] = NoKey] \in [PeerId -> Key \cup {NoKey}]
  OBVIOUS
<1>5. HandlerOK(q)
  BY <1>2, <1>3, <1>4 DEF HandlerOK, RequestState, RequestPc, AgentPc, IpPc
<1>. QED  BY <1>1, <1>5, UpdateType

\* A resynchronisation begins with the active peers' keys.
LEMMA ResyncType ==
    ASSUME IInv, NEW r \in Handlers, Resync(r)
    PROVE  HandlersInv'
<1>. DEFINE keys == [p \in PeerId |-> IF p \in Active THEN peer[p].key ELSE NoKey]
<1>1. \A p \in Active : p \in PeerId /\ peer[p].key \in Key
  BY DEF Active, Peers, IInv, RowsInv, PeerRow
<1>2. keys \in [PeerId -> Key \cup {NoKey}]
  BY <1>1
<1>. QED  BY <1>2, AddFirstType DEF Resync
-----------------------------------------------------------------------------
(* Types *)

\* The initial state: no peer, no request, the addresses left over.
LEMMA InitType == Init => IInv
<1>1. HandlerOK(IdleRequest)
  BY RequestType DEF IdleRequest, NewRequest, RequestPc, KeyPc, IpPc
<1>2. ScriptOK(ScriptIdle)
  BY DEF ScriptOK, ScriptIdle, Script, ScriptState, NoKey
<1>3. Init => VmInv
  BY <1>2 DEF Init, VmInv, ScriptOK
<1>4. Init => HandlersInv
  BY <1>1 DEF Init, HandlersInv, HandlerOK
<1>5. Init => BoundsInv
  <2>1. Init => failed \in BOOLEAN
    BY Zenon DEF Init
  <2>2. Init => lock = NoRequest /\ generated = 0 /\ faults = 0 /\ reboots = 0
    BY DEF Init
  <2>. QED  BY <2>1, <2>2, BoundsAssumption DEF BoundsInv
<1>6. Init => RowsInv
  BY SubsetAssumption DEF Init, RowsInv, PeerRow
<1>. QED  BY <1>3, <1>4, <1>5, <1>6 DEF IInv

\* A row that is rewritten with a key or a flag keeps its type.
LEMMA RowType ==
    ASSUME RowsInv, NEW p \in Peers
    PROVE  peer[p] \in [key : Key, ip : Address, suspended : BOOLEAN]
  BY DEF RowsInv, Peers, PeerRow

\* Every step of a request keeps the types.
LEMMA RequestStepType ==
    ASSUME IInv, NEW r \in Handlers, RequestStep(r)
    PROVE  IInv'
<1>. USE DEF rows, vm
<1>0. HandlerOK(request[r]) /\ RowsInv /\ VmInv /\ HandlersInv /\ BoundsInv
  BY DEF IInv, HandlersInv
<1>1. CASE CreateChoose(r)
  <2>1. generated' \in 1..MaxKeys
    BY <1>0, <1>1, BoundsAssumption DEF CreateChoose, BoundsInv
  <2>2. HandlersInv'
    <3>1. CASE \E ip \in Reusable :
                 request' = [request EXCEPT ![r] = Request("insert", 0, generated', ip, FALSE)]
      <4>1. PICK ip \in Reusable :
                 request' = [request EXCEPT ![r] = Request("insert", 0, generated', ip, FALSE)]
        BY <3>1
      <4>2. HandlerOK(Request("insert", 0, generated', ip, FALSE))
        BY <1>0, <2>1, RequestType DEF Reusable, RowsInv, Key, RequestPc, WritePc
      <4>. QED  BY <4>1, <4>2, UpdateType
    <3>2. CASE \E ip \in Free :
                 request' = [request EXCEPT ![r] = Request("insert", 0, generated', ip, TRUE)]
      <4>1. PICK ip \in Free :
                 request' = [request EXCEPT ![r] = Request("insert", 0, generated', ip, TRUE)]
        BY <3>2
      <4>2. HandlerOK(Request("insert", 0, generated', ip, TRUE))
        BY <2>1, RequestType DEF Free, Key, RequestPc, WritePc
      <4>. QED  BY <4>1, <4>2, UpdateType
    <3>3. CASE Finish(r)
      BY <3>3, FinishType
    <3>. QED  BY <1>1, <3>1, <3>2, <3>3 DEF CreateChoose
  <2>. QED  BY <1>0, <1>1, <2>1, <2>2 DEF CreateChoose, IInv, RowsInv, VmInv, BoundsInv
<1>2. CASE CreateInsert(r)
  <2>1. HandlersInv'
    BY <1>2, GotoType, FinishType DEF CreateInsert, RequestPc, AgentPc, KeyPc, IpPc
  <2>. QED  BY <1>0, <1>2, <2>1 DEF CreateInsert, IInv, RowsInv, VmInv, BoundsInv
<1>3. CASE CreateAdd(r)
  <2>1. HandlersInv'
    BY <1>3, GotoType DEF CreateAdd, Answers, RequestPc, AgentPc, WritePc, KeyPc, IpPc
  <2>2. VmInv'
    BY <1>3, CallType DEF CreateAdd, Answers
  <2>. QED  BY <1>0, <1>3, <2>1, <2>2 DEF CreateAdd, IInv, RowsInv, BoundsInv
<1>4. CASE CreateUplink(r)
  <2>1. HandlersInv'
    BY <1>4, GotoType DEF CreateUplink, Answers, RequestPc, AgentPc, WritePc, KeyPc, IpPc
  <2>2. VmInv'
    BY <1>4, CallType DEF CreateUplink, Answers
  <2>. QED  BY <1>0, <1>4, <2>1, <2>2 DEF CreateUplink, IInv, RowsInv, BoundsInv
<1>5. CASE CreateCommit(r)
  <2>1. request[r].key \in Key /\ request[r].ip \in Address
    BY <1>0, <1>5 DEF CreateCommit, HandlerOK, KeyPc, IpPc
  <2>2. RowsInv'
    BY <1>0, <1>5, <2>1 DEF CreateCommit, RowsInv, PeerRow
  <2>3. HandlersInv'
    BY <1>5, FinishType DEF CreateCommit
  <2>. QED  BY <1>0, <1>5, <2>2, <2>3 DEF CreateCommit, IInv, VmInv, BoundsInv
<1>6. CASE DeleteRemove(r)
  <2>1. HandlersInv'
    BY <1>6, GotoType DEF DeleteRemove, Answers, RequestPc, AgentPc, WritePc, KeyPc, IpPc
  <2>2. VmInv'
    BY <1>6, CallType DEF DeleteRemove, Answers
  <2>. QED  BY <1>0, <1>6, <2>1, <2>2 DEF DeleteRemove, IInv, RowsInv, BoundsInv
<1>7. CASE DeleteCommit(r)
  <2>1. RowsInv'
    BY <1>0, <1>7 DEF DeleteCommit, RowsInv, PeerRow
  <2>2. HandlersInv'
    BY <1>7, FinishType DEF DeleteCommit
  <2>. QED  BY <1>0, <1>7, <2>1, <2>2 DEF DeleteCommit, IInv, VmInv, BoundsInv
<1>8. CASE SuspendDrop(r)
  <2>1. HandlersInv'
    BY <1>8, GotoType DEF SuspendDrop, Answers, RequestPc, AgentPc, WritePc, KeyPc, IpPc
  <2>2. VmInv'
    BY <1>8, CallType DEF SuspendDrop, Answers
  <2>. QED  BY <1>0, <1>8, <2>1, <2>2 DEF SuspendDrop, IInv, RowsInv, BoundsInv
<1>10. CASE ResumeUndrop(r)
  <2>1. HandlersInv'
    BY <1>10, GotoType DEF ResumeUndrop, Answers, RequestPc, AgentPc, WritePc, KeyPc, IpPc
  <2>2. VmInv'
    BY <1>10, CallType DEF ResumeUndrop, Answers
  <2>. QED  BY <1>0, <1>10, <2>1, <2>2 DEF ResumeUndrop, IInv, RowsInv, BoundsInv
<1>9. CASE SuspendCommit(r)
  <2>1. WriteSuspended(r, "suspend", TRUE)
    BY <1>9 DEF SuspendCommit
  <2>2. RowsInv'
    BY <1>0, <2>1, RowType DEF WriteSuspended, RowsInv, PeerRow, Peers
  <2>3. HandlersInv'
    BY <2>1, FinishType DEF WriteSuspended
  <2>. QED  BY <1>0, <2>1, <2>2, <2>3 DEF WriteSuspended, IInv, VmInv, BoundsInv
<1>11. CASE ResumeCommit(r)
  <2>1. WriteSuspended(r, "resume", FALSE)
    BY <1>11 DEF ResumeCommit
  <2>2. RowsInv'
    BY <1>0, <2>1, RowType DEF WriteSuspended, RowsInv, PeerRow, Peers
  <2>3. HandlersInv'
    BY <2>1, FinishType DEF WriteSuspended
  <2>. QED  BY <1>0, <2>1, <2>2, <2>3 DEF WriteSuspended, IInv, VmInv, BoundsInv
<1>12. CASE RegenerateRevoke(r)
  <2>. DEFINE q == [request[r] EXCEPT !.pc = "renew", !.key = generated']
  <2>1. generated' \in 1..MaxKeys
    BY <1>0, <1>12, BoundsAssumption DEF RegenerateRevoke, BoundsInv
  <2>2. HandlerOK(q)
    BY <1>0, <2>1 DEF HandlerOK, RequestState, RequestPc, AgentPc, IpPc, Key
  <2>3. HandlersInv'
    BY <1>12, <2>2, UpdateType DEF RegenerateRevoke
  <2>4. VmInv'
    BY <1>12, CallType DEF RegenerateRevoke, Answers
  <2>. QED  BY <1>0, <1>12, <2>1, <2>3, <2>4 DEF RegenerateRevoke, IInv, RowsInv, BoundsInv
<1>13. CASE RegenerateRenew(r)
  <2>1. HandlersInv'
    BY <1>13, GotoType DEF RegenerateRenew, Answers, RequestPc, AgentPc, WritePc, KeyPc, IpPc
  <2>2. VmInv'
    BY <1>13, CallType DEF RegenerateRenew, Answers
  <2>. QED  BY <1>0, <1>13, <2>1, <2>2 DEF RegenerateRenew, IInv, RowsInv, BoundsInv
<1>14. CASE RegenerateCommit(r)
  <2>1. request[r].key \in Key
    BY <1>0, <1>14 DEF RegenerateCommit, HandlerOK, KeyPc
  <2>2. RowsInv'
    BY <1>0, <1>14, <2>1, RowType DEF RegenerateCommit, RowsInv, PeerRow, Peers
  <2>3. HandlersInv'
    BY <1>14, FinishType DEF RegenerateCommit
  <2>. QED  BY <1>0, <1>14, <2>2, <2>3 DEF RegenerateCommit, IInv, VmInv, BoundsInv
<1>15. CASE RestartBoot(r)
  <2>1. HandlersInv'
    BY <1>15, GotoType DEF RestartBoot, Answers, RequestPc, AgentPc, WritePc, KeyPc, IpPc
  <2>2. VmInv'
    BY <1>15, CallType DEF RestartBoot, Answers
  <2>. QED  BY <1>0, <1>15, <2>1, <2>2 DEF RestartBoot, IInv, RowsInv, BoundsInv
<1>23. CASE RestartApply(r)
  <2>1. HandlersInv'
    BY <1>23, GotoType DEF RestartApply, RequestPc, AgentPc, KeyPc, IpPc
  <2>2. r \in Scripts \/ script' = script
    BY <1>0, <1>23 DEF RestartApply, Starts, VmInv
  <2>3. VmInv'
    BY <1>0, <1>23, <2>2, ScriptType, ScriptUpdateType DEF RestartApply, Starts, VmInv
  <2>. QED  BY <1>0, <1>23, <2>1, <2>3 DEF RestartApply, IInv, RowsInv, BoundsInv
<1>24. CASE BootKilled(r)
  BY <1>0, <1>24, AbortType DEF BootKilled, IInv, VmInv, BoundsInv
<1>25. CASE RuleSkipped(r)
  <2>1. HandlersInv'
    BY <1>25, GotoType DEF RuleSkipped, RequestPc, WritePc, KeyPc, IpPc
  <2>. QED  BY <1>0, <1>25, <2>1, BoundsAssumption DEF RuleSkipped, IInv, RowsInv, VmInv, BoundsInv
<1>16. CASE ResyncList(r)
  <2>1. HandlersInv'
    BY <1>16, FinishType, ResyncType DEF ResyncList
  <2>. QED  BY <1>0, <1>16, <2>1 DEF ResyncList, IInv, RowsInv, VmInv, BoundsInv
<1>17. CASE ResyncAdd(r)
  <2>1. request[r].todo \in [PeerId -> Key \cup {NoKey}]
    BY <1>0 DEF HandlerOK, RequestState
  <2>2. HandlersInv'
    BY <1>17, <2>1, GotoType, AddFirstType DEF ResyncAdd, Answers, RequestPc, AgentPc, KeyPc, IpPc
  <2>3. VmInv'
    BY <1>17, CallType DEF ResyncAdd, Answers
  <2>. QED  BY <1>0, <1>17, <2>2, <2>3 DEF ResyncAdd, IInv, RowsInv, BoundsInv
<1>18. CASE ResyncRelink(r)
  <2>1. HandlersInv'
    BY <1>18, FinishType, GotoType DEF ResyncRelink, Resynced, RequestPc, WritePc, KeyPc, IpPc
  <2>2. VmInv'
    BY <1>18, CallType DEF ResyncRelink, Answers
  <2>. QED  BY <1>0, <1>18, <2>1, <2>2 DEF ResyncRelink, IInv, RowsInv, BoundsInv
<1>19. CASE AgentRefuses(r)
  BY <1>0, <1>19, AbortType DEF AgentRefuses, IInv, VmInv, BoundsInv
<1>20. CASE AgentFails(r)
  <2>1. RowsInv' /\ HandlersInv' /\ lock' \in Handlers \cup {NoRequest}
    BY <1>0, <1>20, AbortType, GotoType
       DEF AgentFails, RequestPc, WritePc, KeyPc, IpPc, RowsInv, BoundsInv
  <2>2. VmInv'
    BY <1>0, <1>20, CallType DEF AgentFails, VmInv
  <2>. QED  BY <1>0, <1>20, <2>1, <2>2, BoundsAssumption DEF AgentFails, IInv, BoundsInv
<1>21. CASE UplinkSkipped(r)
  <2>1. HandlersInv'
    BY <1>21, FinishType, GotoType
       DEF UplinkSkipped, Resynced, RequestPc, WritePc, KeyPc, IpPc
  <2>. QED  BY <1>0, <1>21, <2>1, BoundsAssumption
            DEF UplinkSkipped, IInv, RowsInv, VmInv, BoundsInv
<1>22. CASE LockTimeout(r)
  BY <1>0, <1>22, AbortType DEF LockTimeout, IInv, VmInv, BoundsInv
<1>. QED  BY <1>1, <1>2, <1>3, <1>4, <1>5, <1>6, <1>7, <1>8, <1>9, <1>10, <1>11, <1>12,
             <1>13, <1>14, <1>15, <1>16, <1>17, <1>18, <1>19, <1>20, <1>21, <1>22,
             <1>23, <1>24, <1>25
          DEF RequestStep

\* Every step of the specification keeps the types.
LEMMA StepType == IInv /\ [Next]_vars => IInv'
<1>. SUFFICES ASSUME IInv, [Next]_vars
              PROVE  IInv'
  OBVIOUS
<1>. USE DEF rows, vm
<1>0. RowsInv /\ VmInv /\ HandlersInv /\ BoundsInv
  BY DEF IInv
<1>1. ASSUME NEW r \in Requests, RequestBegins(r)
      PROVE  IInv'
  <2>. r \in Handlers
    BY DEF Handlers
  <2>1. CASE CreateRead(r)
    <3>1. HandlerOK(NewRequest("choose"))
      BY RequestType DEF NewRequest, RequestPc, KeyPc, IpPc
    <3>2. HandlersInv'
      BY <2>1, <3>1, UpdateType DEF CreateRead
    <3>. QED  BY <1>0, <2>1, <3>2 DEF CreateRead, IInv, RowsInv, VmInv, BoundsInv
  <2>2. CASE RestartBegin(r)
    <3>1. HandlerOK(NewRequest("boot"))
      BY RequestType DEF NewRequest, RequestPc, AgentPc, KeyPc, IpPc
    <3>2. HandlersInv'
      BY <2>2, <3>1, UpdateType DEF RestartBegin
    <3>3. ScriptOK(ScriptIdle)
      BY <1>0, ScriptType
    <3>4. VmInv'
      BY <1>0, <2>2, <3>3 DEF RestartBegin, VmInv, ScriptOK
    <3>. QED  BY <1>0, <2>2, <3>2, <3>4, BoundsAssumption
              DEF RestartBegin, IInv, RowsInv, BoundsInv
  <2>3. ASSUME NEW p \in PeerId, NEW op, NEW pc \in {"remove", "drop", "undrop", "revoke"},
               Begin(r, op, p, pc)
        PROVE  IInv'
    <3>1. HandlersInv'
      BY <2>3, BeginType
    <3>. QED  BY <1>0, <2>3, <3>1 DEF Begin, IInv, RowsInv, VmInv, BoundsInv
  <2>. QED  BY <1>1, <2>1, <2>2, <2>3
            DEF RequestBegins, DeleteBegin, SuspendBegin, ResumeBegin, RegenerateBegin
<1>2. ASSUME NEW r \in Handlers, RequestStep(r)
      PROVE  IInv'
  BY <1>2, RequestStepType
<1>3. Collector \in Handlers
  BY DEF Handlers
<1>4. CASE CollectBegin
  <2>1. HandlersInv'
    BY <1>3, <1>4, GotoType DEF CollectBegin, RequestPc, AgentPc, KeyPc, IpPc
  <2>. QED  BY <1>0, <1>3, <1>4, <2>1 DEF CollectBegin, IInv, RowsInv, VmInv, BoundsInv
<1>5. CASE CollectStats
  <2>. DEFINE q == [request[Collector] EXCEPT !.pc = "compare", !.listed = Range(wg)]
  <2>1. Range(wg) \subseteq Key
    BY <1>0, RangeType DEF VmInv
  <2>2. HandlerOK(q)
    BY <1>0, <1>3, <2>1 DEF HandlersInv, HandlerOK, RequestState, RequestPc, KeyPc, IpPc
  <2>3. HandlersInv'
    BY <1>3, <1>5, <2>2, UpdateType DEF CollectStats
  <2>4. VmInv'
    BY <1>3, <1>5, CallType DEF CollectStats, Answers
  <2>. QED  BY <1>0, <1>5, <2>3, <2>4 DEF CollectStats, IInv, RowsInv, BoundsInv
<1>6. CASE CollectCompare
  <2>1. HandlersInv'
    BY <1>3, <1>6, ResyncType, GotoType DEF CollectCompare, RequestPc, WritePc, KeyPc, IpPc
  <2>. QED  BY <1>0, <1>6, <2>1 DEF CollectCompare, IInv, RowsInv, VmInv, BoundsInv
<1>7. CASE CollectRecord
  <2>1. HandlersInv'
    BY <1>3, <1>7, GotoType DEF CollectRecord, RequestPc, KeyPc, IpPc
  <2>. QED  BY <1>0, <1>3, <1>7, <2>1 DEF CollectRecord, IInv, RowsInv, VmInv, BoundsInv
<1>8. CASE CollectCommit
  <2>1. HandlersInv'
    BY <1>3, <1>8, FinishType DEF CollectCommit
  <2>. QED  BY <1>0, <1>8, <2>1 DEF CollectCommit, IInv, RowsInv, VmInv, BoundsInv
<1>9. ASSUME NEW d \in Daemons, ScriptStart(d)
      PROVE  IInv'
  <2>1. VmInv'
    BY <1>0, <1>9, ScriptType, ScriptUpdateType DEF ScriptStart, Starts, Scripts, VmInv
  <2>. QED  BY <1>0, <1>9, <2>1 DEF ScriptStart, IInv, RowsInv, HandlersInv, BoundsInv
<1>12. ASSUME NEW s \in Scripts, ScriptStep(s)
       PROVE  IInv'
  <2>1. VmInv'
    BY <1>0, <1>12, ScriptStepType
  <2>. QED  BY <1>0, <1>12, <2>1 DEF ScriptStep, IInv, RowsInv, HandlersInv, BoundsInv
<1>10. CASE Crash
  <2>1. HandlerOK(IdleRequest)
    BY RequestType DEF IdleRequest, NewRequest, RequestPc, KeyPc, IpPc
  <2>2. HandlersInv'
    BY <1>10, <2>1 DEF Crash, HandlersInv, HandlerOK
  <2>. QED  BY <1>0, <1>10, <2>2, BoundsAssumption DEF Crash, IInv, RowsInv, VmInv, BoundsInv
<1>11. CASE UNCHANGED vars
  BY <1>0, <1>11 DEF vars, IInv, RowsInv, VmInv, HandlersInv, BoundsInv
<1>. QED  BY <1>1, <1>2, <1>4, <1>5, <1>6, <1>7, <1>8, <1>9, <1>10, <1>11,
             <1>12
          DEF Next, CollectStep

\* The inductive invariant holds in every behaviour of the model.
LEMMA Inductive == Spec => []IInv
  BY InitType, StepType, PTL DEF Spec

\* No step changes what is asked of the gateway.
LEMMA OpsStay ==
    ASSUME [Next]_vars
    PROVE  ops' = ops
<1>1. ASSUME NEW r, RequestBegins(r)
      PROVE  ops' = ops
  BY <1>1 DEF RequestBegins, CreateRead, RestartBegin, DeleteBegin, SuspendBegin, ResumeBegin,
              RegenerateBegin, Begin
<1>2. ASSUME NEW r, RequestStep(r)
      PROVE  ops' = ops
  BY <1>2 DEF RequestStep, CreateChoose, CreateInsert, CreateAdd, CreateUplink, CreateCommit,
              DeleteRemove, DeleteCommit, SuspendDrop, SuspendCommit, ResumeUndrop, ResumeCommit,
              WriteSuspended, RegenerateRevoke, RegenerateRenew, RegenerateCommit,
              RestartApply, RestartBoot, BootKilled, RuleSkipped,
              ResyncList, ResyncAdd, ResyncRelink, AgentRefuses, AgentFails, UplinkSkipped,
              LockTimeout
<1>3. ASSUME CollectBegin \/ CollectStep \/ Crash
      PROVE  ops' = ops
  BY <1>3 DEF CollectBegin, CollectStep, CollectStats, CollectCompare, CollectRecord,
              CollectCommit, Crash
<1>4. ASSUME NEW s, ScriptStart(s) \/ ScriptStep(s)
      PROVE  ops' = ops
  BY <1>4 DEF ScriptStart, ScriptStep
<1>. QED  BY <1>1, <1>2, <1>3, <1>4 DEF Next, vars

\* A gateway is asked the operations of one set.
LEMMA OpsKept == Spec => [](ops \in OpSets)
<1>1. Init => ops \in OpSets
  BY DEF Init
<1>2. ops \in OpSets /\ [Next]_vars => (ops \in OpSets)'
  BY OpsStay
<1>. QED  BY <1>1, <1>2, PTL DEF Spec

\* Tables, VM, handlers and lock keep their types, for any number of requests,
\* keys and addresses: no handler writes a row, or calls the agent, with a key or
\* an address it does not have.
THEOREM TypeCorrect == Spec => []TypeOK
<1>1. IInv /\ ops \in OpSets => TypeOK
  BY DEF IInv, RowsInv, VmInv, HandlersInv, BoundsInv, TypeOK
<1>. QED  BY <1>1, Inductive, OpsKept, PTL
-----------------------------------------------------------------------------
(* Addresses *)

\* Between its flush and its commit, create_peer holds the lock and a free
\* address; an address that was chosen was chosen free, and is checked again.
Reserving(r) ==
    /\ request[r].pc \in {"add", "uplink", "commit"} =>
         lock = r /\ request[r].ip \notin allocated
    /\ request[r].pc = "measure" => lock = r
    /\ request[r].pc = "insert" => request[r].flag
    /\ request[r].pc \notin {"remove", "delete"}

AInv ==
    /\ allocated = PeerIps
    /\ DistinctAddresses
    /\ \A r \in Handlers : Reserving(r)

\* A step that leaves addresses and lock alone, and moves one handler.
LEMMA MoveReserves ==
    ASSUME IInv, AInv, NEW r \in Handlers, NEW q, request' = [request EXCEPT ![r] = q],
           UNCHANGED rows, lock' = lock \/ lock = r \/ lock = NoRequest,
           q.pc \in {"add", "uplink", "commit"} => lock' = r /\ q.ip \notin allocated,
           q.pc = "measure" => lock' = r,
           q.pc = "insert" => q.flag,
           q.pc \notin {"remove", "delete"}
    PROVE  AInv'
<1>1. UNCHANGED <<peer, allocated>>
  BY DEF rows
<1>2. (allocated = PeerIps /\ DistinctAddresses)'
  BY <1>1 DEF AInv, PeerIps, Peers, DistinctAddresses
<1>3. request'[r] = q /\ \A s \in Handlers \ {r} : request'[s] = request[s]
  BY DEF IInv, HandlersInv
<1>4. Reserving(r)'
  BY <1>1, <1>3 DEF Reserving
<1>5. ASSUME NEW s \in Handlers \ {r}
      PROVE  Reserving(s)'
  BY <1>1, <1>3, <1>5, RequestAssumption DEF AInv, Reserving
<1>. QED  BY <1>2, <1>4, <1>5 DEF AInv

\* A handler that is over reserves nothing.
LEMMA FinishReserves ==
    ASSUME IInv, AInv, NEW r \in Handlers, Finish(r), UNCHANGED rows,
           lock' = lock \/ lock = r \/ lock = NoRequest
    PROVE  AInv'
<1>1. IdleRequest.pc = "idle"
  BY DEF IdleRequest, NewRequest, Request
<1>. QED  BY <1>1, MoveReserves DEF Finish

\* A rolled-back transaction gives the lock back with its reservation.
LEMMA AbortReserves ==
    ASSUME IInv, AInv, NEW r \in Handlers, Abort(r)
    PROVE  AInv'
  BY FinishReserves DEF Abort

\* A handler that goes on without an address of its own.
LEMMA GotoReserves ==
    ASSUME IInv, AInv, NEW r \in Handlers, NEW pc, Goto(r, pc), UNCHANGED rows,
           lock' = lock \/ lock = r \/ lock = NoRequest,
           pc \in {"add", "uplink", "commit"} => lock' = r /\ request[r].ip \notin allocated,
           pc = "measure" => lock' = r,
           pc \notin {"insert", "remove", "delete"}
    PROVE  AInv'
<1>. DEFINE q == [request[r] EXCEPT !.pc = pc]
<1>1. request[r] \in RequestState
  BY DEF IInv, HandlersInv
<1>2. q.pc = pc /\ q.ip = request[r].ip
  BY <1>1 DEF RequestState
<1>3. request' = [request EXCEPT ![r] = q]
  BY DEF Goto
<1>. QED  BY <1>2, <1>3, MoveReserves

\* A resynchronisation goes on.
LEMMA AddFirstReserves ==
    ASSUME IInv, AInv, NEW r \in Handlers, NEW keys, AddFirst(r, keys), UNCHANGED <<rows, lock>>
    PROVE  AInv'
<1>1. PICK p \in PeerId :
        request' = [request EXCEPT ![r].pc = "resync", ![r].key = keys[p],
                                   ![r].todo = [keys EXCEPT ![p] = NoKey]]
  BY DEF AddFirst
<1>. DEFINE q == [request[r] EXCEPT !.pc = "resync", !.key = keys[p],
                                    !.todo = [keys EXCEPT ![p] = NoKey]]
<1>2. request[r] \in RequestState
  BY DEF IInv, HandlersInv
<1>3. q.pc = "resync"
  BY <1>2 DEF RequestState
<1>4. request' = [request EXCEPT ![r] = q]
  BY <1>1
<1>5. UNCHANGED rows /\ lock' = lock
  OBVIOUS
<1>. HIDE DEF q
<1>. QED  BY <1>3, <1>4, <1>5, MoveReserves

LiveRow == [key : Key, ip : Address, suspended : BOOLEAN]

\* A row with a key is a row of the table.
LEMMA LiveRowThere ==
    ASSUME NEW row \in LiveRow
    PROVE  row # NoPeer
<1>1. row.key \in Key /\ NoPeer.key = NoKey
  BY DEF LiveRow, NoPeer
<1>2. NoKey \notin Key
  BY BoundsAssumption DEF NoKey, Key
<1>. QED  BY <1>1, <1>2

\* set_suspended and regenerate_peer_keys change a row but not its address.
LEMMA KeepsAddresses ==
    ASSUME IInv, AInv, NEW r \in Handlers, Finish(r), UNCHANGED <<allocated, lock>>,
           peer' \in [PeerId -> PeerRow],
           \A p \in PeerId : (p \in Peers <=> p \in Peers') /\ peer'[p].ip = peer[p].ip
    PROVE  AInv'
<1>1. Peers' = Peers
  BY DEF Peers
<1>2. Peers \subseteq PeerId
  BY DEF Peers
<1>3. PeerIps' = PeerIps
  BY <1>1, <1>2 DEF PeerIps
<1>4. DistinctAddresses'
  BY <1>1, <1>2 DEF AInv, DistinctAddresses
<1>5. request'[r].pc = "idle" /\ \A s \in Handlers \ {r} : request'[s] = request[s]
  BY DEF IInv, HandlersInv, Finish, IdleRequest, NewRequest, Request
<1>6. \A s \in Handlers : Reserving(s)'
  BY <1>5 DEF AInv, Reserving
<1>. QED  BY <1>3, <1>4, <1>6 DEF AInv

\* A step of a request keeps the reservations.
LEMMA RequestStepReserves ==
    ASSUME IInv, AInv, NEW r \in Handlers, RequestStep(r)
    PROVE  AInv'
<1>. USE DEF rows
<1>0. /\ Reserving(r) /\ request[r] \in RequestState
      /\ allocated = PeerIps /\ peer \in [PeerId -> PeerRow]
  BY DEF AInv, IInv, HandlersInv, RowsInv
<1>1. CASE CreateChoose(r)
  <2>1. CASE Finish(r)
    BY <1>1, <2>1, FinishReserves DEF CreateChoose
  <2>2. CASE \E ip \in Free :
               request' = [request EXCEPT ![r] = Request("insert", 0, generated', ip, TRUE)]
    <3>1. PICK ip \in Free :
               request' = [request EXCEPT ![r] = Request("insert", 0, generated', ip, TRUE)]
      BY <2>2
    <3>. DEFINE q == Request("insert", 0, generated', ip, TRUE)
    <3>2. q.pc = "insert" /\ q.flag
      BY DEF Request
    <3>3. UNCHANGED rows /\ lock' = lock
      BY <1>1 DEF CreateChoose
    <3>. HIDE DEF q
    <3>. QED  BY <3>1, <3>2, <3>3, MoveReserves DEF q
  <2>3. Reusable = {}
    BY <1>0 DEF Reusable
  <2>. QED  BY <1>1, <2>1, <2>2, <2>3 DEF CreateChoose
<1>2. CASE CreateInsert(r)
  <2>1. CASE Finish(r) /\ UNCHANGED lock
    BY <1>2, <2>1, FinishReserves DEF CreateInsert
  <2>2. CASE Goto(r, "add") /\ lock' = r /\ ~(request[r].flag /\ request[r].ip \in allocated)
    <3>1. request[r].ip \notin allocated
      BY <1>0, <1>2, <2>2 DEF CreateInsert, Reserving
    <3>. QED  BY <1>2, <2>2, <3>1, GotoReserves DEF CreateInsert
  <2>. QED  BY <1>2, <2>1, <2>2 DEF CreateInsert
<1>3. CASE CreateAdd(r)
  BY <1>0, <1>3, GotoReserves DEF CreateAdd, Answers, Reserving, rows
<1>4. CASE CreateUplink(r)
  BY <1>0, <1>4, GotoReserves DEF CreateUplink, Answers, Reserving, rows
<1>5. CASE CreateCommit(r)
  <2>. DEFINE q == request[r]
  <2>1. lock = r /\ q.ip \notin allocated
    BY <1>0, <1>5 DEF CreateCommit, Reserving
  <2>2. PICK p \in PeerId :
          /\ IsNextPeer(p)
          /\ peer' = [peer EXCEPT ![p] = [key |-> q.key, ip |-> q.ip, suspended |-> FALSE]]
    BY <1>5 DEF CreateCommit
  <2>3. q.key \in Key /\ q.ip \in Address
    BY <1>5 DEF CreateCommit, IInv, HandlersInv, HandlerOK, KeyPc, IpPc
  <2>4. p \notin Peers
    BY <2>2, BoundsAssumption DEF IsNextPeer, Peers, PeerId
  <2>5. peer'[p] # NoPeer /\ peer'[p].ip = q.ip
    BY <1>0, <2>2, <2>3 DEF NoPeer, NoKey, Key
  <2>6. \A s \in PeerId \ {p} : peer'[s] = peer[s]
    BY <1>0, <2>2
  <2>7. Peers' = Peers \cup {p}
    BY <2>5, <2>6 DEF Peers
  <2>8. PeerIps' = PeerIps \cup {q.ip}
    BY <2>4, <2>5, <2>6, <2>7 DEF PeerIps, Peers
  <2>9. allocated' = PeerIps'
    BY <1>0, <1>5, <2>8 DEF CreateCommit
  <2>10. DistinctAddresses'
    <3>1. \A s \in Peers : s \in PeerId /\ s # p /\ peer[s].ip # q.ip
      BY <1>0, <2>1, <2>4 DEF PeerIps, Peers
    <3>. QED  BY <2>5, <2>6, <2>7, <3>1 DEF DistinctAddresses, AInv
  <2>11. request'[r].pc = "idle" /\ \A s \in Handlers \ {r} : request'[s] = request[s]
    BY <1>5 DEF CreateCommit, IInv, HandlersInv, Finish, IdleRequest, NewRequest, Request
  <2>12. \A s \in Handlers : Reserving(s)'
    BY <2>1, <2>11 DEF AInv, Reserving
  <2>. QED  BY <2>9, <2>10, <2>12 DEF AInv
<1>6. CASE DeleteRemove(r)
  BY <1>0, <1>6 DEF DeleteRemove, Answers, Reserving
<1>7. CASE DeleteCommit(r)
  BY <1>0, <1>7 DEF DeleteCommit, Reserving
<1>8. CASE SuspendDrop(r)
  BY <1>0, <1>8, GotoReserves DEF SuspendDrop, Answers, Reserving, rows
<1>10. CASE ResumeUndrop(r)
  BY <1>0, <1>10, GotoReserves DEF ResumeUndrop, Answers, Reserving, rows
<1>9. CASE SuspendCommit(r)
  <2>1. WriteSuspended(r, "suspend", TRUE)
    BY <1>9 DEF SuspendCommit
  <2>2. peer' \in [PeerId -> PeerRow]
    BY <1>0, <1>9, RequestStepType DEF RequestStep, IInv, RowsInv
  <2>3. \A p \in PeerId : (p \in Peers <=> p \in Peers') /\ peer'[p].ip = peer[p].ip
    <3>1. CASE UNCHANGED peer
      BY <3>1 DEF Peers
    <3>2. CASE /\ request[r].peer \in Peers
               /\ peer' = [peer EXCEPT ![request[r].peer].suspended = TRUE]
      <4>1. peer[request[r].peer] \in LiveRow
        BY <3>2, RowType DEF IInv, LiveRow
      <4>2. /\ peer'[request[r].peer] \in LiveRow
            /\ peer'[request[r].peer].ip = peer[request[r].peer].ip
        BY <1>0, <3>2, <4>1 DEF LiveRow, Peers
      <4>. QED  BY <1>0, <3>2, <4>2, LiveRowThere DEF Peers
    <3>. QED  BY <2>1, <3>1, <3>2 DEF WriteSuspended
  <2>. QED  BY <2>1, <2>2, <2>3, KeepsAddresses DEF WriteSuspended
<1>11. CASE ResumeCommit(r)
  <2>1. WriteSuspended(r, "resume", FALSE)
    BY <1>11 DEF ResumeCommit
  <2>2. peer' \in [PeerId -> PeerRow]
    BY <1>0, <1>11, RequestStepType DEF RequestStep, IInv, RowsInv
  <2>3. \A p \in PeerId : (p \in Peers <=> p \in Peers') /\ peer'[p].ip = peer[p].ip
    <3>1. CASE UNCHANGED peer
      BY <3>1 DEF Peers
    <3>2. CASE /\ request[r].peer \in Peers
               /\ peer' = [peer EXCEPT ![request[r].peer].suspended = FALSE]
      <4>1. peer[request[r].peer] \in LiveRow
        BY <3>2, RowType DEF IInv, LiveRow
      <4>2. /\ peer'[request[r].peer] \in LiveRow
            /\ peer'[request[r].peer].ip = peer[request[r].peer].ip
        BY <1>0, <3>2, <4>1 DEF LiveRow, Peers
      <4>. QED  BY <1>0, <3>2, <4>2, LiveRowThere DEF Peers
    <3>. QED  BY <2>1, <3>1, <3>2 DEF WriteSuspended
  <2>. QED  BY <2>1, <2>2, <2>3, KeepsAddresses DEF WriteSuspended
<1>12. CASE RegenerateRevoke(r)
  <2>. DEFINE q == [request[r] EXCEPT !.pc = "renew", !.key = generated']
  <2>1. q.pc = "renew"
    BY <1>0 DEF RequestState
  <2>2. request' = [request EXCEPT ![r] = q] /\ UNCHANGED rows /\ lock' = lock
    BY <1>12 DEF RegenerateRevoke
  <2>. HIDE DEF q
  <2>. QED  BY <2>1, <2>2, MoveReserves
<1>13. CASE RegenerateRenew(r)
  BY <1>0, <1>13, GotoReserves DEF RegenerateRenew, Answers, Reserving, rows
<1>14. CASE RegenerateCommit(r)
  <2>1. request[r].key \in Key
    BY <1>14 DEF RegenerateCommit, IInv, HandlersInv, HandlerOK, KeyPc
  <2>2. peer' \in [PeerId -> PeerRow]
    BY <1>14, RequestStepType DEF RequestStep, IInv, RowsInv
  <2>3. \A p \in PeerId : (p \in Peers <=> p \in Peers') /\ peer'[p].ip = peer[p].ip
    <3>1. CASE UNCHANGED peer
      BY <3>1 DEF Peers
    <3>2. CASE /\ request[r].peer \in Peers
               /\ peer' = [peer EXCEPT ![request[r].peer].key = request[r].key]
      <4>1. peer[request[r].peer] \in LiveRow
        BY <3>2, RowType DEF IInv, LiveRow
      <4>2. /\ peer'[request[r].peer] \in LiveRow
            /\ peer'[request[r].peer].ip = peer[request[r].peer].ip
        BY <1>0, <2>1, <3>2, <4>1 DEF LiveRow, Peers
      <4>. QED  BY <1>0, <3>2, <4>2, LiveRowThere DEF Peers
    <3>. QED  BY <1>14, <3>1, <3>2 DEF RegenerateCommit
  <2>. QED  BY <1>14, <2>2, <2>3, KeepsAddresses DEF RegenerateCommit
<1>15. CASE RestartBoot(r)
  BY <1>0, <1>15, GotoReserves DEF RestartBoot, Answers, Reserving, rows
<1>23. CASE RestartApply(r)
  BY <1>23, GotoReserves DEF RestartApply
<1>24. CASE BootKilled(r)
  BY <1>24, AbortReserves DEF BootKilled
<1>25. CASE RuleSkipped(r)
  BY <1>25, GotoReserves DEF RuleSkipped
<1>16. CASE ResyncList(r)
  BY <1>16, FinishReserves, AddFirstReserves DEF ResyncList, Resync
<1>17. CASE ResyncAdd(r)
  <2>1. CASE Goto(r, "relink")
    BY <1>17, <2>1, GotoReserves DEF ResyncAdd
  <2>2. CASE AddFirst(r, request[r].todo)
    BY <1>17, <2>2, AddFirstReserves DEF ResyncAdd
  <2>. QED  BY <1>17, <2>1, <2>2 DEF ResyncAdd
<1>18. CASE ResyncRelink(r)
  BY <1>18, FinishReserves, GotoReserves DEF ResyncRelink, Resynced
<1>19. CASE AgentRefuses(r)
  BY <1>19, AbortReserves DEF AgentRefuses
<1>20. CASE AgentFails(r)
  BY <1>20, AbortReserves, GotoReserves DEF AgentFails
<1>21. CASE UplinkSkipped(r)
  <2>1. CASE request[r].pc = "uplink" /\ Goto(r, "commit")
    BY <1>0, <1>21, <2>1, GotoReserves DEF UplinkSkipped, Reserving
  <2>2. CASE Resynced(r)
    BY <1>21, <2>2, FinishReserves, GotoReserves DEF UplinkSkipped, Resynced
  <2>. QED  BY <1>21, <2>1, <2>2 DEF UplinkSkipped
<1>22. CASE LockTimeout(r)
  BY <1>22, AbortReserves DEF LockTimeout
<1>. QED  BY <1>1, <1>2, <1>3, <1>4, <1>5, <1>6, <1>7, <1>8, <1>9, <1>10, <1>11, <1>12,
             <1>13, <1>14, <1>15, <1>16, <1>17, <1>18, <1>19, <1>20, <1>21, <1>22,
             <1>23, <1>24, <1>25
          DEF RequestStep

\* Every step keeps the reservations, when no peer is deleted.
LEMMA StepReserves ==
    IInv /\ AInv /\ "delete" \notin ops /\ [Next]_vars => AInv'
<1>. SUFFICES ASSUME IInv, AInv, "delete" \notin ops, [Next]_vars
              PROVE  AInv'
  OBVIOUS
<1>. USE DEF rows
<1>1. ASSUME NEW r \in Requests, RequestBegins(r)
      PROVE  AInv'
  <2>. r \in Handlers
    BY DEF Handlers
  <2>2. CASE CreateRead(r)
    <3>. DEFINE q == NewRequest("choose")
    <3>1. q.pc = "choose"
      BY DEF NewRequest, Request
    <3>2. request' = [request EXCEPT ![r] = q] /\ UNCHANGED rows /\ lock' = lock
      BY <2>2 DEF CreateRead
    <3>. HIDE DEF q
    <3>. QED  BY <3>1, <3>2, MoveReserves
  <2>3. CASE RestartBegin(r)
    <3>. DEFINE q == NewRequest("boot")
    <3>1. q.pc = "boot"
      BY DEF NewRequest, Request
    <3>2. request' = [request EXCEPT ![r] = q] /\ UNCHANGED rows /\ lock' = lock
      BY <2>3 DEF RestartBegin
    <3>. HIDE DEF q
    <3>. QED  BY <3>1, <3>2, MoveReserves
  <2>4. ASSUME NEW p \in PeerId, NEW op, NEW pc \in {"drop", "undrop", "revoke"},
               Begin(r, op, p, pc)
        PROVE  AInv'
    <3>. DEFINE q == Request(pc, p, peer[p].key, peer[p].ip, peer[p].suspended)
    <3>1. q.pc = pc
      BY DEF Request
    <3>2. request' = [request EXCEPT ![r] = q] /\ UNCHANGED rows /\ lock' = lock
      BY <2>4 DEF Begin
    <3>. HIDE DEF q
    <3>. QED  BY <2>4, <3>1, <3>2, MoveReserves
  <2>5. \A p \in PeerId : ~DeleteBegin(r, p)
    BY DEF DeleteBegin, Begin
  <2>. QED  BY <1>1, <2>2, <2>3, <2>4, <2>5
            DEF RequestBegins, SuspendBegin, ResumeBegin, RegenerateBegin
<1>2. ASSUME NEW r \in Handlers, RequestStep(r)
      PROVE  AInv'
  BY <1>2, RequestStepReserves
<1>3. Collector \in Handlers
  BY DEF Handlers
<1>4. CASE CollectBegin
  BY <1>3, <1>4, GotoReserves DEF CollectBegin
<1>5. CASE CollectStats
  <2>. DEFINE q == [request[Collector] EXCEPT !.pc = "compare", !.listed = Range(wg)]
  <2>1. q.pc = "compare"
    BY <1>3 DEF IInv, HandlersInv, RequestState
  <2>2. request' = [request EXCEPT ![Collector] = q] /\ UNCHANGED rows /\ lock' = lock
    BY <1>5 DEF CollectStats
  <2>. HIDE DEF q
  <2>. QED  BY <1>3, <2>1, <2>2, MoveReserves
<1>6. CASE CollectCompare
  <2>1. CASE Resync(Collector)
    BY <1>3, <1>6, <2>1, AddFirstReserves DEF CollectCompare, Resync
  <2>2. CASE Goto(Collector, "record")
    BY <1>3, <1>6, <2>2, GotoReserves DEF CollectCompare
  <2>. QED  BY <1>6, <2>1, <2>2 DEF CollectCompare
<1>7. CASE CollectRecord
  BY <1>3, <1>7, GotoReserves DEF CollectRecord, MayWrite
<1>8. CASE CollectCommit
  <2>1. lock = Collector
    BY <1>3, <1>8 DEF CollectCommit, AInv, Reserving
  <2>. QED  BY <1>3, <1>8, <2>1, FinishReserves DEF CollectCommit
<1>9. ASSUME NEW d, ScriptStart(d) \/ ScriptStep(d)
      PROVE  AInv'
  BY <1>9 DEF ScriptStart, ScriptStep, AInv, PeerIps, Peers, DistinctAddresses, Reserving
<1>10. CASE Crash
  <2>1. \A r \in Handlers : request'[r].pc = "idle"
    BY <1>10 DEF Crash, IdleRequest, NewRequest, Request
  <2>. QED  BY <1>10, <2>1 DEF Crash, AInv, PeerIps, Peers, DistinctAddresses, Reserving
<1>11. CASE UNCHANGED vars
  BY <1>11 DEF vars, AInv, PeerIps, Peers, DistinctAddresses, Reserving
<1>. QED  BY <1>1, <1>2, <1>4, <1>5, <1>6, <1>7, <1>8, <1>9, <1>10, <1>11
          DEF Next, CollectStep

\* However many requests create peers at once, allocate_peer_ip never gives two
\* peers one address and every peer's address stays allocated.  Both conditions
\* are needed: an address left over is handed out again without an insertion that
\* the unique constraint could refuse, and a deletion that acts on a row it read
\* earlier may release the address of another peer.
THEOREM UniqueAddresses ==
    ASSUME \A o \in OpSets : "delete" \notin o, Leftover = {}
    PROVE  Spec => []AddressesHeld
<1>1. Init => AInv
  <2>. SUFFICES ASSUME Init PROVE AInv
    OBVIOUS
  <2>1. Peers = {}
    BY DEF Init, Peers
  <2>2. \A r \in Handlers : request[r].pc = "idle"
    BY DEF Init, IdleRequest, NewRequest, Request
  <2>. QED  BY <2>1, <2>2 DEF Init, AInv, PeerIps, DistinctAddresses, Reserving
<1>2. IInv /\ AInv /\ ops \in OpSets /\ [Next]_vars => AInv'
  BY StepReserves
<1>3. AInv => AddressesHeld
  BY DEF AInv, AddressAllocated, AddressesHeld
<1>. QED  BY <1>1, <1>2, <1>3, Inductive, OpsKept, PTL DEF Spec
-----------------------------------------------------------------------------
(* Keys *)

MakingPc == {"insert", "add", "uplink", "commit", "renew", "rekey"}  \* has made its key
TakingPc == {"remove", "revoke"}                                     \* will take its key away
AddedPc == {"uplink", "commit", "rekey"}                             \* has added its key
TakenPc == {"delete", "renew", "rekey"}                              \* has taken its row's key away
ResyncPc == {"boot", "apply", "list", "resync", "relink", "stats", "compare", "record", "measure"}

\* Keys in use have been generated.
KeysMade ==
    /\ \A p \in Peers : peer[p].key <= generated
    /\ \A r \in Handlers : request[r].pc \in MakingPc \cup TakingPc => request[r].key <= generated

\* A key that a request has made is nobody else's, and no two rows have one key.
KeysOwn ==
    /\ \A r \in Handlers : request[r].pc \in MakingPc =>
         /\ \A p \in Peers : peer[p].key # request[r].key
         /\ \A s \in Handlers \ {r} :
              request[s].pc \in MakingPc \cup TakingPc => request[s].key # request[r].key
    /\ \A p, q \in Peers : peer[p].key = peer[q].key => p = q

\* A request that takes a key away takes it from no row but the one it has read.
TakesOwn ==
    \A r \in Handlers : request[r].pc \in TakingPc =>
        \A p \in Peers : peer[p].key = request[r].key => p = request[r].peer

Taken(r, p) == request[r].pc \in TakenPc /\ request[r].peer = p

\* A key that is in a row, or about to be, is in the VM, unless the request that has
\* taken it away is still to write the row.
KeysThere ==
    /\ \A r \in Handlers : request[r].pc \in AddedPc => request[r].key \in Range(wg)
    /\ \A p \in Peers : peer[p].key \in Range(wg) \/ \E r \in Handlers : Taken(r, p)

NoResync == \A r \in Handlers : request[r].pc \notin ResyncPc

KInv == KeysMade /\ KeysOwn /\ TakesOwn /\ KeysThere /\ NoResync

\* wg set ... remove takes away no other key.
LEMMA RemoveAtKeeps ==
    ASSUME NEW S, NEW s \in Seq(S), NEW i \in DOMAIN s
    PROVE  \A x \in Range(s) : x # s[i] => x \in Range(RemoveAt(s, i))
<1>. SUFFICES ASSUME NEW j \in DOMAIN s, j # i
              PROVE  s[j] \in Range(RemoveAt(s, i))
  BY DEF Range
<1>. DEFINE t == RemoveAt(s, i)
            front == SubSeq(s, 1, i - 1)
            back == SubSeq(s, i + 1, Len(s))
<1>1. Len(s) \in Nat /\ i \in 1..Len(s) /\ j \in 1..Len(s)
  OBVIOUS
<1>2. front \in Seq(S) /\ Len(front) = i - 1 /\ \A k \in 1..(i - 1) : front[k] = s[k]
  BY <1>1
<1>3. back \in Seq(S) /\ Len(back) = Len(s) - i /\ \A k \in 1..(Len(s) - i) : back[k] = s[i + k]
  BY <1>1
<1>4. t = front \o back
  BY DEF RemoveAt
<1>. HIDE DEF front, back
<1>5. Len(t) = Len(s) - 1 /\ DOMAIN t = 1..(Len(s) - 1)
  BY <1>1, <1>2, <1>3, <1>4
<1>6. CASE j < i
  <2>1. j \in 1..Len(front) /\ t[j] = front[j]
    BY <1>1, <1>2, <1>3, <1>4, <1>6
  <2>2. t[j] = s[j] /\ j \in DOMAIN t
    BY <1>1, <1>2, <1>5, <1>6, <2>1
  <2>. QED  BY <2>2 DEF Range
<1>7. CASE j > i
  <2>1. /\ i \in Nat /\ j \in Nat /\ Len(s) \in Nat /\ 1 <= i /\ i < j /\ j <= Len(s)
        /\ Len(front) = i - 1 /\ Len(back) = Len(s) - i
    BY <1>1, <1>2, <1>3, <1>7
  <2>2. j - 1 \in 1..(Len(front) + Len(back)) /\ ~(j - 1 <= Len(front)) /\ j - 1 - Len(front) = j - i
    BY <2>1
  <2>3. t[j - 1] = back[j - i] /\ j - i \in 1..(Len(s) - i) /\ i + (j - i) = j
    <3>1. (front \o back)[j - 1] = back[j - 1 - Len(front)]
      BY <1>2, <1>3, <2>2, ConcatProperties
    <3>2. t[j - 1] = back[j - i]
      BY <1>4, <2>2, <3>1
    <3>3. j - i \in 1..(Len(s) - i) /\ i + (j - i) = j
      BY <2>1
    <3>. QED  BY <3>2, <3>3
  <2>4. t[j - 1] = s[j] /\ j - 1 \in DOMAIN t
    BY <1>1, <1>3, <1>5, <1>7, <2>3
  <2>. QED  BY <2>4 DEF Range
<1>. QED  BY <1>1, <1>6, <1>7

\* What a call does to the keys of the VM.
LEMMA WgKeys ==
    ASSUME VmInv, NEW k
    PROVE  /\ k \in Key /\ WgAdd(k) => Range(wg) \cup {k} \subseteq Range(wg')
           /\ WgRemove(k) => Range(wg) \ {k} \subseteq Range(wg')
<1>1. wg \in Seq(Key)
  BY DEF VmInv
<1>2. ASSUME k \in Key, WgAdd(k)
      PROVE  Range(wg) \cup {k} \subseteq Range(wg')
  <2>1. CASE k \in Range(wg)
    BY <1>2, <2>1 DEF WgAdd
  <2>2. CASE k \notin Range(wg)
    <3>1. wg' = Append(wg, k)
      BY <1>2, <2>2 DEF WgAdd
    <3>2. /\ Len(wg') = Len(wg) + 1 /\ wg'[Len(wg) + 1] = k /\ \A i \in 1..Len(wg) : wg'[i] = wg[i]
          /\ wg' \in Seq(Key)
      BY <1>1, <1>2, <3>1, AppendProperties
    <3>3. DOMAIN wg' = 1..(Len(wg) + 1) /\ DOMAIN wg = 1..Len(wg) /\ Len(wg) \in Nat
      BY <1>1, <3>2
    <3>. QED  BY <3>2, <3>3 DEF Range
  <2>. QED  BY <2>1, <2>2
<1>3. ASSUME WgRemove(k)
      PROVE  Range(wg) \ {k} \subseteq Range(wg')
  <2>1. CASE k \in Range(wg)
    <3>1. PICK i \in DOMAIN wg : wg[i] = k /\ wg' = RemoveAt(wg, i)
      BY <1>3, <2>1 DEF WgRemove
    <3>. QED  BY <1>1, <3>1, RemoveAtKeeps
  <2>2. CASE k \notin Range(wg)
    BY <1>3, <2>2 DEF WgRemove
  <2>. QED  BY <2>1, <2>2
<1>. QED  BY <1>2, <1>3

\* A handler moves on, and the rows keep their keys.  It makes a key by generating
\* it; it takes away the one it has read, and still has to write that row.
LEMMA MoveKnown ==
    ASSUME IInv, KInv, NEW r \in Handlers, NEW q, request' = [request EXCEPT ![r] = q],
           Peers' = Peers, \A p \in Peers : peer'[p].key = peer[p].key,
           generated' \in Nat, generated <= generated',
           q.pc \notin ResyncPc,
           q.pc \in MakingPc => \/ request[r].pc \in MakingPc /\ q.key = request[r].key
                                \/ q.key = generated' /\ generated < generated',
           q.pc \in TakingPc => q.peer \in Peers /\ q.key = peer[q.peer].key,
           q.pc \in AddedPc => q.key \in Range(wg'),
           request[r].pc \in TakenPc => q.pc \in TakenPc /\ q.peer = request[r].peer,
           \A k \in Range(wg) \ Range(wg') :
             /\ request[r].pc \in TakingPc /\ k = request[r].key
             /\ q.pc \in TakenPc /\ q.peer = request[r].peer
    PROVE  KInv'
<1>. DEFINE old == request[r]
<1>0. request'[r] = q /\ \A s \in Handlers \ {r} : request'[s] = request[s]
  BY DEF IInv, HandlersInv
<1>1. generated \in Nat /\ \A p \in Peers : peer[p].key \in Nat /\ peer[p].key <= generated
  BY RowType DEF IInv, BoundsInv, KInv, KeysMade, Key
<1>2. \A s \in Handlers : request[s].pc \in MakingPc \cup TakingPc =>
        request[s].key \in Nat /\ request[s].key <= generated
  BY DEF KInv, KeysMade, IInv, HandlersInv, HandlerOK, KeyPc, MakingPc, TakingPc, Key
<1>3. KeysMade'
  <2>1. q.pc \in MakingPc \cup TakingPc => q.key <= generated'
    BY <1>1, <1>2
  <2>2. \A s \in Handlers : request'[s].pc \in MakingPc \cup TakingPc => request'[s].key <= generated'
    BY <1>0, <1>1, <1>2, <2>1
  <2>3. \A p \in Peers' : peer'[p].key <= generated'
    BY <1>1
  <2>. QED  BY <2>2, <2>3 DEF KeysMade
<1>4. KeysOwn'
  <2>1. ASSUME q.pc \in MakingPc
        PROVE  /\ \A p \in Peers : peer[p].key # q.key
               /\ \A s \in Handlers \ {r} :
                    request[s].pc \in MakingPc \cup TakingPc => request[s].key # q.key
    <3>1. CASE old.pc \in MakingPc /\ q.key = old.key
      BY <3>1 DEF KInv, KeysOwn
    <3>2. CASE q.key = generated' /\ generated < generated'
      BY <1>1, <1>2, <3>2
    <3>. QED  BY <2>1, <3>1, <3>2
  <2>2. ASSUME NEW s \in Handlers \ {r}, request[s].pc \in MakingPc, q.pc \in MakingPc \cup TakingPc
        PROVE  q.key # request[s].key
    BY <2>1, <2>2 DEF KInv, KeysOwn, MakingPc, TakingPc
  <2>3. \A s \in Handlers : request'[s].pc \in MakingPc =>
          /\ \A p \in Peers : peer[p].key # request'[s].key
          /\ \A t \in Handlers \ {s} :
               request'[t].pc \in MakingPc \cup TakingPc => request'[t].key # request'[s].key
    BY <1>0, <2>1, <2>2 DEF KInv, KeysOwn
  <2>. QED  BY <2>3 DEF KInv, KeysOwn
<1>5. TakesOwn'
  <2>1. q.pc \in TakingPc => \A p \in Peers : peer[p].key = q.key => p = q.peer
    BY DEF KInv, KeysOwn
  <2>. QED  BY <1>0, <2>1 DEF KInv, TakesOwn
<1>6. KeysThere'
  <2>1. \A s \in Handlers : request'[s].pc \in AddedPc => request'[s].key \in Range(wg)'
    <3>1. ASSUME NEW s \in Handlers \ {r}, request[s].pc \in AddedPc
          PROVE  request[s].key \in Range(wg)'
      <4>1. request[s].key \in Range(wg) /\ request[s].pc \in MakingPc
        BY <3>1 DEF KInv, KeysThere, AddedPc, MakingPc
      <4>2. old.pc \in TakingPc => old.key # request[s].key
        BY <3>1, <4>1 DEF KInv, KeysOwn
      <4>. QED  BY <4>1, <4>2
    <3>. QED  BY <1>0, <3>1
  <2>2. ASSUME NEW p \in Peers
        PROVE  peer'[p].key \in Range(wg)' \/ \E s \in Handlers : Taken(s, p)'
    <3>1. CASE peer[p].key \in Range(wg)
      <4>1. CASE peer[p].key \in Range(wg)'
        BY <4>1
      <4>2. CASE peer[p].key \notin Range(wg)'
        <5>1. old.pc \in TakingPc /\ peer[p].key = old.key /\ q.pc \in TakenPc /\ q.peer = old.peer
          BY <3>1, <4>2
        <5>2. Taken(r, p)'
          BY <1>0, <5>1 DEF KInv, TakesOwn, Taken
        <5>. QED  BY <5>2
      <4>. QED  BY <4>1, <4>2
    <3>2. CASE \E s \in Handlers : Taken(s, p)
      <4>1. PICK s \in Handlers : Taken(s, p)
        BY <3>2
      <4>2. Taken(s, p)'
        BY <1>0, <4>1 DEF Taken
      <4>. QED  BY <4>2
    <3>. QED  BY <3>1, <3>2 DEF KInv, KeysThere
  <2>. QED  BY <2>1, <2>2 DEF KeysThere
<1>7. NoResync'
  BY <1>0 DEF KInv, NoResync
<1>. QED  BY <1>3, <1>4, <1>5, <1>6, <1>7 DEF KInv

\* A request's record, after it has moved on in the code.
LEMMA At ==
    ASSUME IInv, NEW r \in Handlers, NEW pc
    PROVE  LET q == [request[r] EXCEPT !.pc = pc]
           IN  q.pc = pc /\ q.key = request[r].key /\ q.peer = request[r].peer
<1>1. request[r] \in RequestState
  BY DEF IInv, HandlersInv
<1>. QED  BY <1>1 DEF RequestState

\* A request that goes on without a key of its own, or with the one it has.
LEMMA GotoKnown ==
    ASSUME IInv, KInv, NEW r \in Handlers, NEW pc, Goto(r, pc), UNCHANGED <<peer, generated>>,
           pc \notin ResyncPc \cup TakingPc,
           pc \in MakingPc => request[r].pc \in MakingPc,
           pc \in AddedPc => request[r].key \in Range(wg'),
           request[r].pc \in TakenPc => pc \in TakenPc,
           \A k \in Range(wg) \ Range(wg') :
             request[r].pc \in TakingPc /\ k = request[r].key /\ pc \in TakenPc
    PROVE  KInv'
<1>. DEFINE q == [request[r] EXCEPT !.pc = pc]
<1>1. q.pc = pc /\ q.key = request[r].key /\ q.peer = request[r].peer
  BY At
<1>2. request' = [request EXCEPT ![r] = q]
  BY DEF Goto
<1>3. Peers' = Peers /\ peer' = peer /\ generated' = generated /\ generated \in Nat
  BY DEF Peers, IInv, BoundsInv
<1>. HIDE DEF q
<1>4. q.pc \notin ResyncPc /\ q.pc \notin TakingPc
  BY <1>1
<1>5. generated' \in Nat /\ generated <= generated'
  BY <1>3
<1>. QED  BY <1>1, <1>2, <1>3, <1>4, <1>5, MoveKnown

\* A request that ends without having taken a key away.
LEMMA FinishKnown ==
    ASSUME IInv, KInv, NEW r \in Handlers, Finish(r), request[r].pc \notin TakenPc,
           Peers' = Peers, \A p \in Peers : peer'[p].key = peer[p].key,
           generated' \in Nat, generated <= generated', wg' = wg
    PROVE  KInv'
<1>1. IdleRequest.pc = "idle"
  BY DEF IdleRequest, NewRequest, Request
<1>2. IdleRequest.pc \notin ResyncPc \cup MakingPc \cup TakingPc \cup AddedPc
  BY <1>1 DEF ResyncPc, MakingPc, TakingPc, AddedPc
<1>. QED  BY <1>2, MoveKnown DEF Finish

\* A request that suspends or resumes a peer writes no key.
LEMMA SuspensionKnown ==
    ASSUME IInv, KInv, NEW r \in Handlers, NEW pc \in {"suspend", "resume"},
           NEW suspended \in BOOLEAN, WriteSuspended(r, pc, suspended)
    PROVE  KInv'
<1>. DEFINE p == request[r].peer
<1>1. UNCHANGED <<wg, generated>> /\ generated \in Nat /\ request[r].pc \notin TakenPc /\ Finish(r)
  BY DEF WriteSuspended, vm, IInv, BoundsInv, TakenPc
<1>2. peer \in [PeerId -> PeerRow]
  BY DEF IInv, RowsInv
<1>3. Peers' = Peers /\ \A q \in Peers : peer'[q].key = peer[q].key
  <2>1. CASE UNCHANGED peer
    BY <2>1 DEF Peers
  <2>2. CASE p \in Peers /\ peer' = [peer EXCEPT ![p].suspended = suspended]
    <3>1. peer[p] \in LiveRow /\ p \in PeerId
      BY <2>2, RowType DEF IInv, LiveRow, Peers
    <3>2. peer'[p] \in LiveRow /\ peer'[p].key = peer[p].key /\ \A q \in PeerId \ {p} : peer'[q] = peer[q]
      BY <1>2, <2>2, <3>1 DEF LiveRow
    <3>3. peer'[p] # NoPeer
      BY <3>2, LiveRowThere
    <3>. QED  BY <2>2, <3>2, <3>3 DEF Peers
  <2>. QED  BY <2>1, <2>2 DEF WriteSuspended
<1>. QED  BY <1>1, <1>3, FinishKnown

\* A commit that leaves the VM alone and ends its request.
LEMMA EndsAt ==
    ASSUME IInv, NEW r \in Handlers, Finish(r)
    PROVE  /\ request'[r].pc = "idle" /\ \A s \in Handlers \ {r} : request'[s] = request[s]
           /\ \A s \in Handlers : request'[s].pc \in MakingPc \cup TakingPc \cup AddedPc \cup TakenPc
                                    => s # r
  BY DEF IInv, HandlersInv, Finish, IdleRequest, NewRequest, Request, MakingPc, TakingPc, AddedPc,
         TakenPc

\* delete_peer's row goes; what it still had to write is written.
LEMMA DeletionKnown ==
    ASSUME IInv, KInv, NEW r \in Handlers, DeleteCommit(r)
    PROVE  KInv'
<1>. DEFINE p == request[r].peer
<1>1. /\ Finish(r) /\ UNCHANGED <<wg, generated>> /\ peer' = [peer EXCEPT ![p] = NoPeer]
  BY DEF DeleteCommit, vm
<1>2. Peers' = Peers \ {p} /\ \A q \in Peers' : peer'[q] = peer[q]
  BY <1>1 DEF Peers, IInv, RowsInv
<1>3. /\ request'[r].pc = "idle" /\ \A s \in Handlers \ {r} : request'[s] = request[s]
      /\ \A s \in Handlers : request'[s].pc \in MakingPc \cup TakingPc \cup AddedPc \cup TakenPc
                               => s # r
  BY <1>1, EndsAt
<1>4. KeysMade'
  BY <1>1, <1>2, <1>3 DEF KInv, KeysMade
<1>5. KeysOwn'
  BY <1>2, <1>3 DEF KInv, KeysOwn
<1>6. TakesOwn'
  BY <1>2, <1>3 DEF KInv, TakesOwn
<1>7. KeysThere'
  <2>1. ASSUME NEW q \in Peers'
        PROVE  peer'[q].key \in Range(wg)' \/ \E s \in Handlers : Taken(s, q)'
    <3>1. q \in Peers /\ q # p /\ peer'[q] = peer[q]
      BY <1>2
    <3>2. ASSUME NEW s \in Handlers, Taken(s, q)
          PROVE  Taken(s, q)'
      BY <1>3, <3>1, <3>2 DEF Taken
    <3>. QED  BY <1>1, <3>1, <3>2 DEF KInv, KeysThere
  <2>. QED  BY <1>1, <1>3, <2>1 DEF KInv, KeysThere
<1>8. NoResync'
  BY <1>3 DEF KInv, NoResync, ResyncPc
<1>. QED  BY <1>4, <1>5, <1>6, <1>7, <1>8 DEF KInv

\* A row gets the key that the request has made and added: create_peer, and
\* regenerate_peer_keys where the row is still there.
LEMMA WriteKnown ==
    ASSUME IInv, KInv, NEW r \in Handlers, request[r].pc \in {"commit", "rekey"}, Finish(r),
           UNCHANGED <<wg, generated>>, NEW p \in PeerId,
           Peers' = Peers \cup {p}, peer'[p].key = request[r].key,
           \A q \in Peers \ {p} : peer'[q].key = peer[q].key,
           request[r].pc = "rekey" => request[r].peer = p
    PROVE  KInv'
<1>. DEFINE k == request[r].key
<1>1. /\ request'[r].pc = "idle" /\ \A s \in Handlers \ {r} : request'[s] = request[s]
      /\ \A s \in Handlers : request'[s].pc \in MakingPc \cup TakingPc \cup AddedPc \cup TakenPc
                               => s # r
  BY EndsAt
<1>2. request[r].pc \in MakingPc /\ request[r].pc \in AddedPc
  BY DEF MakingPc, AddedPc
<1>3. /\ k <= generated /\ \A q \in Peers : peer[q].key # k
      /\ \A s \in Handlers \ {r} : request[s].pc \in MakingPc \cup TakingPc => request[s].key # k
  BY <1>2 DEF KInv, KeysMade, KeysOwn
<1>4. KeysMade'
  BY <1>1, <1>3 DEF KInv, KeysMade
<1>5. KeysOwn'
  <2>1. ASSUME NEW s \in Handlers, request'[s].pc \in MakingPc
        PROVE  \A q \in Peers' : peer'[q].key # request'[s].key
    BY <1>1, <1>3, <2>1 DEF KInv, KeysOwn
  <2>2. ASSUME NEW s \in Handlers, request'[s].pc \in MakingPc, NEW t \in Handlers \ {s},
               request'[t].pc \in MakingPc \cup TakingPc
        PROVE  request'[t].key # request'[s].key
    BY <1>1, <2>2 DEF KInv, KeysOwn
  <2>3. \A q, o \in Peers' : peer'[q].key = peer'[o].key => q = o
    BY <1>3 DEF KInv, KeysOwn
  <2>. QED  BY <2>1, <2>2, <2>3 DEF KeysOwn
<1>6. TakesOwn'
  BY <1>1, <1>3 DEF KInv, TakesOwn
<1>7. KeysThere'
  <2>1. ASSUME NEW q \in Peers'
        PROVE  peer'[q].key \in Range(wg)' \/ \E s \in Handlers : Taken(s, q)'
    <3>1. CASE q = p
      BY <1>2, <3>1 DEF KInv, KeysThere
    <3>2. CASE q # p
      <4>1. q \in Peers /\ peer'[q].key = peer[q].key
        BY <3>2
      <4>2. ASSUME NEW s \in Handlers, Taken(s, q)
            PROVE  Taken(s, q)'
        BY <1>1, <3>2, <4>2 DEF Taken, TakenPc
      <4>. QED  BY <4>1, <4>2 DEF KInv, KeysThere
    <3>. QED  BY <3>1, <3>2
  <2>. QED  BY <1>1, <2>1 DEF KInv, KeysThere
<1>8. NoResync'
  BY <1>1 DEF KInv, NoResync, ResyncPc
<1>. QED  BY <1>4, <1>5, <1>6, <1>7, <1>8 DEF KInv

\* regenerate_peer_keys finds its row deleted, and ends.
LEMMA RowGoneKnown ==
    ASSUME IInv, KInv, NEW r \in Handlers, Finish(r), UNCHANGED <<peer, wg, generated>>,
           request[r].peer \notin Peers
    PROVE  KInv'
<1>1. /\ request'[r].pc = "idle" /\ \A s \in Handlers \ {r} : request'[s] = request[s]
      /\ \A s \in Handlers : request'[s].pc \in MakingPc \cup TakingPc \cup AddedPc \cup TakenPc
                               => s # r
  BY EndsAt
<1>2. Peers' = Peers
  BY DEF Peers
<1>3. KeysMade' /\ KeysOwn'
  BY <1>1, <1>2 DEF KInv, KeysMade, KeysOwn
<1>4. TakesOwn' /\ NoResync'
  BY <1>1, <1>2 DEF KInv, TakesOwn, NoResync, ResyncPc
<1>5. KeysThere'
  <2>1. ASSUME NEW p \in Peers, NEW s \in Handlers, Taken(s, p)
        PROVE  Taken(s, p)'
    BY <1>1, <2>1 DEF Taken
  <2>2. \A p \in Peers : peer[p].key \in Range(wg) \/ \E s \in Handlers : Taken(s, p)'
    BY <2>1 DEF KInv, KeysThere
  <2>3. \A s \in Handlers : request'[s].pc \in AddedPc => request'[s].key \in Range(wg)
    BY <1>1 DEF KInv, KeysThere
  <2>. QED  BY <1>2, <2>2, <2>3 DEF KeysThere
<1>. QED  BY <1>3, <1>4, <1>5 DEF KInv

\* A step of a request that does not fail.
LEMMA RequestStepKnown ==
    ASSUME IInv, KInv, NEW r \in Handlers, RequestStep(r), ~failed'
    PROVE  KInv'
<1>. DEFINE q == request[r]
            k == request[r].key
<1>0. /\ q.pc \notin ResyncPc /\ HandlerOK(q) /\ VmInv /\ generated \in Nat
      /\ q.pc \in {"add", "renew", "remove", "revoke"} => k \in Key
  BY DEF KInv, NoResync, IInv, HandlersInv, BoundsInv, HandlerOK, KeyPc
<1>. USE DEF ResyncPc, MakingPc, TakingPc, AddedPc, TakenPc
<1>1. CASE CreateChoose(r)
  <2>1. generated' = generated + 1 /\ UNCHANGED <<peer, wg>>
    BY <1>1 DEF CreateChoose, rows, vm
  <2>2. Peers' = Peers
    BY <2>1 DEF Peers
  <2>3. ASSUME NEW ip, NEW flag, request' = [request EXCEPT ![r] = Request("insert", 0, generated', ip, flag)]
        PROVE  KInv'
    <3>. DEFINE c == Request("insert", 0, generated', ip, flag)
    <3>1. c.pc = "insert" /\ c.key = generated'
      BY DEF Request
    <3>2. request[r].pc = "choose"
      BY <1>1 DEF CreateChoose
    <3>3. generated' \in Nat /\ generated < generated' /\ generated <= generated'
      BY <1>0, <2>1
    <3>. HIDE DEF c
    <3>. QED  BY <2>1, <2>2, <2>3, <3>1, <3>2, <3>3, MoveKnown DEF c
  <2>4. CASE Finish(r)
    <3>1. request[r].pc \notin TakenPc /\ generated' \in Nat /\ generated <= generated'
      BY <1>0, <1>1, <2>1 DEF CreateChoose
    <3>. QED  BY <2>1, <2>2, <2>4, <3>1, FinishKnown
  <2>. QED  BY <1>1, <2>3, <2>4 DEF CreateChoose
<1>2. CASE CreateInsert(r)
  <2>1. UNCHANGED <<peer, generated, wg>> /\ Peers' = Peers /\ q.pc = "insert"
    BY <1>2 DEF CreateInsert, rows, vm, Peers
  <2>2. CASE Finish(r)
    BY <1>0, <2>1, <2>2, FinishKnown
  <2>3. CASE Goto(r, "add")
    BY <2>1, <2>3, GotoKnown
  <2>. QED  BY <1>2, <2>2, <2>3 DEF CreateInsert
<1>3. CASE CreateAdd(r)
  <2>1. /\ UNCHANGED <<peer, generated>> /\ q.pc = "add" /\ Goto(r, "uplink") /\ WgAdd(k)
    BY <1>3 DEF CreateAdd, Answers, Call, rows
  <2>2. Range(wg) \cup {k} \subseteq Range(wg')
    BY <1>0, <2>1, WgKeys
  <2>. QED  BY <2>1, <2>2, GotoKnown
<1>4. CASE CreateUplink(r)
  <2>1. /\ UNCHANGED <<peer, generated, wg>> /\ q.pc = "uplink" /\ Goto(r, "commit")
    BY <1>4 DEF CreateUplink, Answers, Call, rows
  <2>2. k \in Range(wg)
    BY <2>1 DEF KInv, KeysThere
  <2>. QED  BY <2>1, <2>2, GotoKnown
<1>5. CASE CreateCommit(r)
  <2>1. PICK p \in PeerId :
          peer' = [peer EXCEPT ![p] = [key |-> k, ip |-> q.ip, suspended |-> FALSE]]
    BY <1>5 DEF CreateCommit
  <2>2. /\ q.pc = "commit" /\ UNCHANGED <<wg, generated>> /\ Finish(r)
        /\ k \in Key /\ q.ip \in Address
    BY <1>0, <1>5 DEF CreateCommit, vm, HandlerOK, KeyPc, IpPc
  <2>3. /\ peer'[p] = [key |-> k, ip |-> q.ip, suspended |-> FALSE]
        /\ \A o \in PeerId \ {p} : peer'[o] = peer[o]
    BY <2>1 DEF IInv, RowsInv
  <2>4. peer'[p] # NoPeer
    BY <2>2, <2>3, LiveRowThere DEF LiveRow
  <2>5. Peers' = Peers \cup {p} /\ \A o \in Peers \ {p} : peer'[o].key = peer[o].key
    BY <2>3, <2>4 DEF Peers
  <2>. QED  BY <2>2, <2>3, <2>5, WriteKnown
<1>6. CASE DeleteRemove(r)
  <2>1. /\ UNCHANGED <<peer, generated>> /\ q.pc = "remove" /\ Goto(r, "delete") /\ WgRemove(k)
    BY <1>6 DEF DeleteRemove, Answers, Call, rows
  <2>2. Range(wg) \ {k} \subseteq Range(wg')
    BY <1>0, WgKeys, <2>1
  <2>. QED  BY <2>1, <2>2, GotoKnown
<1>7. CASE DeleteCommit(r)
  BY <1>7, DeletionKnown
<1>8. CASE SuspendDrop(r)
  <2>1. UNCHANGED <<peer, generated, wg>> /\ q.pc = "drop" /\ Goto(r, "suspend")
    BY <1>8 DEF SuspendDrop, Answers, Call, rows
  <2>. QED  BY <2>1, GotoKnown
<1>9. CASE SuspendCommit(r)
  BY <1>9, SuspensionKnown DEF SuspendCommit
<1>10. CASE ResumeUndrop(r)
  <2>1. UNCHANGED <<peer, generated, wg>> /\ q.pc = "undrop" /\ Goto(r, "resume")
    BY <1>10 DEF ResumeUndrop, Answers, Call, rows
  <2>. QED  BY <2>1, GotoKnown
<1>11. CASE ResumeCommit(r)
  BY <1>11, SuspensionKnown DEF ResumeCommit
<1>12. CASE RegenerateRevoke(r)
  <2>. DEFINE c == [request[r] EXCEPT !.pc = "renew", !.key = generated']
  <2>1. /\ q.pc = "revoke" /\ WgRemove(k) /\ UNCHANGED peer /\ generated' = generated + 1
        /\ request' = [request EXCEPT ![r] = c]
    BY <1>12 DEF RegenerateRevoke, Answers, Call, rows
  <2>2. c.pc = "renew" /\ c.key = generated' /\ c.peer = q.peer
    BY <1>0 DEF HandlerOK, RequestState
  <2>3. Range(wg) \ {k} \subseteq Range(wg')
    BY <1>0, <2>1, WgKeys
  <2>4. generated' \in Nat /\ generated < generated' /\ generated <= generated' /\ Peers' = Peers
    BY <1>0, <2>1 DEF Peers
  <2>. HIDE DEF c
  <2>. QED  BY <2>1, <2>2, <2>3, <2>4, MoveKnown
<1>13. CASE RegenerateRenew(r)
  <2>1. UNCHANGED <<peer, generated>> /\ q.pc = "renew" /\ Goto(r, "rekey") /\ WgAdd(k)
    BY <1>13 DEF RegenerateRenew, Answers, Call, rows
  <2>2. Range(wg) \cup {k} \subseteq Range(wg')
    BY <1>0, <2>1, WgKeys
  <2>. QED  BY <2>1, <2>2, GotoKnown
<1>14. CASE RegenerateCommit(r)
  <2>. DEFINE p == q.peer
  <2>1. /\ q.pc = "rekey" /\ UNCHANGED <<wg, generated>> /\ Finish(r)
        /\ peer' = IF p \in Peers THEN [peer EXCEPT ![p].key = k] ELSE peer
        /\ k \in Key
    BY <1>0, <1>14 DEF RegenerateCommit, vm, HandlerOK, KeyPc
  <2>2. CASE p \in Peers
    <3>1. peer[p] \in LiveRow /\ p \in PeerId
      BY <2>2, RowType DEF IInv, LiveRow, Peers
    <3>2. peer'[p] \in LiveRow /\ peer'[p].key = k /\ \A o \in PeerId \ {p} : peer'[o] = peer[o]
      BY <2>1, <2>2, <3>1 DEF LiveRow, IInv, RowsInv
    <3>3. Peers' = Peers \cup {p} /\ \A o \in Peers \ {p} : peer'[o].key = peer[o].key
      BY <2>2, <3>2, LiveRowThere DEF Peers
    <3>. QED  BY <2>1, <3>1, <3>2, <3>3, WriteKnown
  <2>3. CASE p \notin Peers
    BY <1>0, <2>1, <2>3, RowGoneKnown DEF Peers
  <2>. QED  BY <2>2, <2>3
<1>15. CASE AgentRefuses(r)
  <2>1. UNCHANGED <<peer, generated, wg>> /\ Peers' = Peers /\ Finish(r) /\ q.pc \in KeyInPathPc
    BY <1>15 DEF AgentRefuses, Abort, Refused, rows, vm, Peers
  <2>. QED  BY <1>0, <2>1, FinishKnown DEF KeyInPathPc
<1>16. CASE \/ RestartApply(r) \/ RestartBoot(r) \/ BootKilled(r) \/ ResyncList(r) \/ ResyncAdd(r)
            \/ ResyncRelink(r)
  BY <1>0, <1>16 DEF RestartApply, RestartBoot, BootKilled, ResyncList, ResyncAdd, ResyncRelink, Answers
<1>17. CASE AgentFails(r) \/ RuleSkipped(r) \/ UplinkSkipped(r) \/ LockTimeout(r)
  BY <1>17 DEF AgentFails, RuleSkipped, UplinkSkipped, LockTimeout
<1>. QED  BY <1>1, <1>2, <1>3, <1>4, <1>5, <1>6, <1>7, <1>8, <1>9, <1>10, <1>11, <1>12,
             <1>13, <1>14, <1>15, <1>16, <1>17
          DEF RequestStep

\* Nothing makes a failure undone.
LEMMA FailureStays ==
    ASSUME [Next]_vars, ~failed'
    PROVE  ~failed
<1>1. ASSUME NEW r, RequestBegins(r)
      PROVE  ~failed
  BY <1>1 DEF RequestBegins, CreateRead, RestartBegin, DeleteBegin, SuspendBegin, ResumeBegin,
              RegenerateBegin, Begin
<1>2. ASSUME NEW r, RequestStep(r)
      PROVE  ~failed
  BY <1>2 DEF RequestStep, CreateChoose, CreateInsert, CreateAdd, CreateUplink, CreateCommit,
              DeleteRemove, DeleteCommit, SuspendDrop, SuspendCommit, ResumeUndrop, ResumeCommit,
              WriteSuspended, RegenerateRevoke, RegenerateRenew, RegenerateCommit,
              RestartApply, RestartBoot, BootKilled, RuleSkipped,
              ResyncList, ResyncAdd, ResyncRelink, AgentRefuses, AgentFails, UplinkSkipped,
              LockTimeout
<1>3. ASSUME CollectBegin \/ CollectStep \/ Crash
      PROVE  ~failed
  BY <1>3 DEF CollectBegin, CollectStep, CollectStats, CollectCompare, CollectRecord,
              CollectCommit, Crash
<1>4. ASSUME NEW s, ScriptStart(s) \/ ScriptStep(s)
      PROVE  ~failed
  BY <1>4 DEF ScriptStart, ScriptStep
<1>. QED  BY <1>1, <1>2, <1>3, <1>4 DEF Next, vars

\* The routing script takes no key away: a listed peer that it sets is added if it
\* has gone meanwhile.
LEMMA ScriptKnown ==
    ASSUME IInv, KInv, NEW s \in Scripts, ScriptStep(s)
    PROVE  KInv'
<1>1. UNCHANGED <<peer, request, generated>> /\ VmInv
  BY DEF ScriptStep, rows, IInv
<1>2. Range(wg) \subseteq Range(wg')
  <2>1. CASE ScriptCheck(s) \/ ScriptList(s)
    BY <2>1 DEF ScriptCheck, ScriptList
  <2>2. CASE ScriptRestore(s)
    <3>1. script[s].uplink \in Key /\ WgAdd(script[s].uplink)
      BY <1>1, <2>2 DEF ScriptRestore, VmInv, ScriptOK
    <3>. QED  BY <1>1, <3>1, WgKeys
  <2>3. CASE ScriptSet(s)
    <3>1. script[s].todo \in Seq(Key) /\ script[s].todo # <<>> /\ WgAdd(Head(script[s].todo))
      BY <1>1, <2>3 DEF ScriptSet, VmInv, ScriptOK, ScriptState
    <3>2. Head(script[s].todo) \in Key
      BY <3>1
    <3>. QED  BY <1>1, <3>1, <3>2, WgKeys
  <2>. QED  BY <2>1, <2>2, <2>3 DEF ScriptStep
<1>3. Peers' = Peers
  BY <1>1 DEF Peers
<1>4. KeysMade' /\ KeysOwn' /\ TakesOwn' /\ NoResync'
  BY <1>1, <1>3 DEF KInv, KeysMade, KeysOwn, TakesOwn, NoResync
<1>5. KeysThere'
  <2>1. \A p, r : Taken(r, p)' <=> Taken(r, p)
    BY <1>1 DEF Taken
  <2>. QED  BY <1>1, <1>2, <1>3, <2>1 DEF KInv, KeysThere
<1>. QED  BY <1>4, <1>5 DEF KInv

\* A step that does not fail keeps the keys, of a gateway that is not restarted and
\* that the collector does not look at.
LEMMA StepKnown ==
    ASSUME IInv, KInv, [Next]_vars, ~failed', "restart" \notin ops, "collect" \notin ops
    PROVE  KInv'
<1>. USE DEF ResyncPc, MakingPc, TakingPc, AddedPc, TakenPc
<1>1. ASSUME NEW r \in Requests, RequestBegins(r)
      PROVE  KInv'
  <2>. r \in Handlers
    BY DEF Handlers
  <2>0. generated \in Nat
    BY DEF IInv, BoundsInv
  <2>1. CASE CreateRead(r)
    <3>. DEFINE q == NewRequest("choose")
    <3>1. q.pc = "choose"
      BY DEF NewRequest, Request
    <3>2. /\ request' = [request EXCEPT ![r] = q] /\ UNCHANGED <<peer, wg, generated>>
          /\ request[r].pc = "idle" /\ Peers' = Peers
      BY <2>1 DEF CreateRead, rows, vm, Peers
    <3>3. \A k \in Range(wg) \ Range(wg') : FALSE
      BY <3>2
    <3>4. generated' \in Nat /\ generated <= generated' /\ \A p \in Peers : peer'[p].key = peer[p].key
      BY <2>0, <3>2
    <3>. HIDE DEF q
    <3>5. request[r].pc \notin TakenPc /\ q.pc \notin ResyncPc \cup MakingPc \cup TakingPc \cup AddedPc
      BY <3>1, <3>2
    <3>. QED  BY <3>2, <3>3, <3>4, <3>5, MoveKnown
  <2>2. ASSUME NEW p \in PeerId, NEW op, NEW pc \in {"remove", "drop", "undrop", "revoke"},
               Begin(r, op, p, pc)
        PROVE  KInv'
    <3>. DEFINE q == Request(pc, p, peer[p].key, peer[p].ip, peer[p].suspended)
    <3>1. q.pc = pc /\ q.peer = p /\ q.key = peer[p].key
      BY DEF Request
    <3>2. /\ request' = [request EXCEPT ![r] = q] /\ UNCHANGED <<peer, wg, generated>>
          /\ request[r].pc = "idle" /\ p \in Peers /\ Peers' = Peers
      BY <2>2 DEF Begin, rows, vm, Peers
    <3>3. \A k \in Range(wg) \ Range(wg') : FALSE
      BY <3>2
    <3>4. generated' \in Nat /\ generated <= generated' /\ \A o \in Peers : peer'[o].key = peer[o].key
      BY <2>0, <3>2
    <3>. HIDE DEF q
    <3>5. request[r].pc \notin TakenPc /\ q.pc \notin ResyncPc \cup MakingPc \cup AddedPc
      BY <2>2, <3>1, <3>2
    <3>6. q.peer \in Peers /\ q.key = peer[q.peer].key
      BY <3>1, <3>2
    <3>. QED  BY <3>2, <3>3, <3>4, <3>5, <3>6, MoveKnown
  <2>3. ~RestartBegin(r)
    BY DEF RestartBegin
  <2>. QED  BY <1>1, <2>1, <2>2, <2>3
            DEF RequestBegins, DeleteBegin, SuspendBegin, ResumeBegin, RegenerateBegin
<1>2. ASSUME NEW r \in Handlers, RequestStep(r)
      PROVE  KInv'
  BY <1>2, RequestStepKnown
<1>3. ~CollectBegin /\ ~CollectStep /\ ~Crash
  BY DEF CollectBegin, CollectStep, CollectStats, CollectCompare, CollectRecord, CollectCommit,
         Answers, KInv, NoResync, Handlers, Crash
<1>4. ASSUME NEW d, ScriptStart(d)
      PROVE  KInv'
  BY <1>4 DEF ScriptStart, rows, KInv, KeysMade, KeysOwn, TakesOwn, KeysThere, NoResync, Taken, Peers
<1>5. ASSUME NEW s \in Scripts, ScriptStep(s)
      PROVE  KInv'
  BY <1>5, ScriptKnown
<1>6. CASE UNCHANGED vars
  BY <1>6 DEF vars, KInv, KeysMade, KeysOwn, TakesOwn, KeysThere, NoResync, Taken, Peers
<1>. QED  BY <1>1, <1>2, <1>3, <1>4, <1>5, <1>6 DEF Next

\* However many requests create, delete, suspend, resume and regenerate peers at
\* once, and however the routing script's runs overlap with them: a key that the
\* table has is in the VM once the requests are over, if none has failed.  A
\* regeneration or a deletion takes away the key it has read, never the one that
\* another request has put in its place meanwhile.
THEOREM KeysKept == Spec => []PeersKnown
<1>. DEFINE J == "restart" \notin ops /\ "collect" \notin ops /\ ~failed => KInv
<1>1. Init => J
  <2>. SUFFICES ASSUME Init PROVE KInv
    OBVIOUS
  <2>1. Peers = {}
    BY DEF Init, Peers
  <2>2. \A r \in Handlers : request[r].pc = "idle"
    BY DEF Init, IdleRequest, NewRequest, Request
  <2>. QED  BY <2>1, <2>2 DEF KInv, KeysMade, KeysOwn, TakesOwn, KeysThere, NoResync,
                              MakingPc, TakingPc, AddedPc, ResyncPc
<1>2. IInv /\ J /\ [Next]_vars => J'
  BY StepKnown, FailureStays, OpsStay
<1>3. J => PeersKnown
  <2>. SUFFICES ASSUME J, Quiet, "restart" \notin ops, NEW p \in Peers
                PROVE  peer[p].key \in Range(wg)
    BY DEF PeersKnown
  <2>1. KInv
    BY DEF Quiet
  <2>. QED  BY <2>1 DEF KInv, KeysThere, Quiet, Taken, TakenPc
<1>. QED  BY <1>1, <1>2, <1>3, Inductive, PTL DEF Spec
=============================================================================
