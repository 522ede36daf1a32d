------------------------ MODULE WorkerEnrollment_proofs ------------------------
(***************************************************************************)
(* Proofs about WorkerEnrollment: however many VPSes, completions, tokens  *)
(* and faults there are, the tables keep their types, an enrollment makes  *)
(* one worker, and gateways go to workers whose VPS holds their token.     *)
(* If operators enroll one VPS at a time, every open offer can be          *)
(* completed and every worker's remote leads to its own VPS.               *)
(***************************************************************************)
EXTENDS WorkerEnrollment, FiniteSetTheorems, TLAPS

-----------------------------------------------------------------------------
(* Types *)

\* What a host's number stands for, and what a completion in flight holds.
InFlight ==
    /\ \A h \in Hosts :
         /\ host[h].pc \in {"create", "remote", "register"} => host[h].num \in Names
         /\ host[h].pc = "refresh" => host[h].num \in EnrollmentId
    /\ \A s \in Slots :
         /\ request[s].pc # "idle" => /\ request[s].host \in Hosts
                                      /\ request[s].enrollment \in EnrollmentId
         /\ request[s].awaited => request[s].pc # "idle"

TInv == TypeOK /\ InFlight

\* A row that NextRow finds is one that is free.
LEMMA NextRowIsFree ==
    ASSUME NEW ids, NEW free, NextRow(ids, free) # 0
    PROVE  NextRow(ids, free) \in ids /\ free[NextRow(ids, free)]
<1>. DEFINE P(i) == free[i] /\ \A k \in ids : k < i => ~free[k]
<1>1. \E i \in ids : P(i)
  BY DEF NextRow
<1>2. NextRow(ids, free) = CHOOSE i \in ids : P(i)
  BY <1>1 DEF NextRow
<1>. QED  BY <1>1, <1>2

\* The next worker id is free.
LEMMA NextWorkerIsFree ==
    ASSUME NextWorker # 0
    PROVE  NextWorker \in WorkerId /\ worker[NextWorker].name = -1
<1>. DEFINE free == [w \in WorkerId |-> worker[w].name = -1]
<1>1. NextWorker \in WorkerId /\ free[NextWorker]
  BY NextRowIsFree DEF NextWorker
<1>. QED  BY <1>1

\* The next enrollment id is free.
LEMMA NextEnrollmentIsFree ==
    ASSUME NextEnrollment # 0
    PROVE  NextEnrollment \in EnrollmentId /\ enrollment[NextEnrollment].state = "absent"
<1>. DEFINE free == [e \in EnrollmentId |-> enrollment[e].state = "absent"]
<1>1. NextEnrollment \in EnrollmentId /\ free[NextEnrollment]
  BY NextRowIsFree DEF NextEnrollment
<1>. QED  BY <1>1

\* The end of a completion leaves hosts and slots of their types.
LEMMA FinishType ==
    ASSUME TInv, NEW s \in Slots, request[s].pc # "idle",
           NEW answer \in [pc : {"out", "joined"}, num : {0}, id : {0} \cup WorkerId],
           Finish(s, answer)
    PROVE  /\ host' \in [Hosts -> [pc : HostPc, num : Nat, id : {0} \cup WorkerId]]
           /\ request' \in [Slots -> [pc : {"idle", "remove", "add", "insert"},
                                      host : Hosts \cup {NoHost},
                                      enrollment : {0} \cup EnrollmentId, awaited : BOOLEAN]]
           /\ InFlight'
<1>1. /\ request' = [request EXCEPT ![s] = NoRequest]
      /\ host' = host \/ host' = [host EXCEPT ![request[s].host] = answer]
  BY DEF Finish
<1>2. request[s].host \in Hosts
  BY DEF TInv, InFlight
<1>3. answer \in [pc : HostPc, num : Nat, id : {0} \cup WorkerId]
  BY DEF HostPc
<1>4. answer.pc \notin {"create", "remote", "register", "refresh"}
  OBVIOUS
<1>5. NoRequest \in [pc : {"idle", "remove", "add", "insert"}, host : Hosts \cup {NoHost},
                     enrollment : {0} \cup EnrollmentId, awaited : BOOLEAN]
  BY DEF NoRequest
<1>6. NoRequest.pc = "idle" /\ NoRequest.awaited = FALSE
  BY DEF NoRequest
<1>7. host' \in [Hosts -> [pc : HostPc, num : Nat, id : {0} \cup WorkerId]]
  BY <1>1, <1>2, <1>3 DEF TInv, TypeOK
<1>8. request' \in [Slots -> [pc : {"idle", "remove", "add", "insert"},
                              host : Hosts \cup {NoHost},
                              enrollment : {0} \cup EnrollmentId, awaited : BOOLEAN]]
  BY <1>1, <1>5 DEF TInv, TypeOK
<1>9. InFlight'
  BY <1>1, <1>2, <1>4, <1>6 DEF TInv, TypeOK, InFlight
<1>. QED  BY <1>7, <1>8, <1>9

\* Initially everything has its type.
LEMMA InitType == Init => TInv
<1>. SUFFICES ASSUME Init
              PROVE  TInv
  OBVIOUS
<1>1. enrollment \in [EnrollmentId -> [state : EnrollmentState, name : {Local} \cup Names,
                                       token : 0..MaxToken, stored : BOOLEAN]]
  <2>. DEFINE Row == [state : EnrollmentState, name : {Local} \cup Names,
                      token : 0..MaxToken, stored : BOOLEAN]
  <2>1. 0 \in 0..MaxToken
    BY BoundsAssumption DEF MaxToken
  <2>2. NoEnrollment \in Row
    BY <2>1 DEF NoEnrollment, EnrollmentState
  <2>3. [state |-> "active", name |-> 1, token |-> 0, stored |-> FALSE] \in Row
    BY <2>1, BoundsAssumption DEF EnrollmentState, Names
  <2>. QED  BY <2>2, <2>3 DEF Init
<1>2. worker \in [WorkerId -> [name : {-1, Local} \cup Names, host : Hosts \cup {NoHost},
                               enabled : BOOLEAN, seen : Seen]]
  BY DEF Init, NoWorker, Seen
<1>3. host \in [Hosts -> [pc : HostPc, num : Nat, id : {0} \cup WorkerId]]
  BY DEF Init, Out, HostPc
<1>4. request \in [Slots -> [pc : {"idle", "remove", "add", "insert"}, host : Hosts \cup {NoHost},
                             enrollment : {0} \cup EnrollmentId, awaited : BOOLEAN]]
  BY DEF Init, NoRequest
<1>5. InFlight
  BY DEF Init, InFlight, NoRequest, Out
<1>6. 0 \in 0..MaxToken /\ 0 \in 0..MaxFaults
  BY BoundsAssumption DEF MaxToken
<1>. QED  BY <1>1, <1>2, <1>3, <1>4, <1>5, <1>6 DEF Init, TInv, TypeOK

\* A worker that is heard of, or not heard of, keeps the type of its row.
LEMMA SeenType ==
    ASSUME TypeOK, NEW w, NEW seen \in Seen
    PROVE  [worker EXCEPT ![w].seen = seen]
             \in [WorkerId -> [name : {-1, Local} \cup Names, host : Hosts \cup {NoHost},
                               enabled : BOOLEAN, seen : Seen]]
<1>. DEFINE Row == [name : {-1, Local} \cup Names, host : Hosts \cup {NoHost},
                    enabled : BOOLEAN, seen : Seen]
            row == [worker[w] EXCEPT !.seen = seen]
<1>1. worker \in [WorkerId -> Row]
  BY DEF TypeOK
<1>2. w \in WorkerId => row \in Row
  BY <1>1
<1>3. [worker EXCEPT ![w].seen = seen] = [worker EXCEPT ![w] = row]
  OBVIOUS
<1>. HIDE DEF Row, row
<1>4. [worker EXCEPT ![w] = row] \in [WorkerId -> Row]
  BY <1>1, <1>2
<1>. QED  BY <1>3, <1>4 DEF Row

\* An enrollment that is used up, or expires, keeps the type of its row.
LEMMA StateType ==
    ASSUME TypeOK, NEW e, NEW state \in EnrollmentState
    PROVE  [enrollment EXCEPT ![e].state = state]
             \in [EnrollmentId -> [state : EnrollmentState, name : {Local} \cup Names,
                                   token : 0..MaxToken, stored : BOOLEAN]]
<1>. DEFINE Row == [state : EnrollmentState, name : {Local} \cup Names,
                    token : 0..MaxToken, stored : BOOLEAN]
            row == [enrollment[e] EXCEPT !.state = state]
<1>1. enrollment \in [EnrollmentId -> Row]
  BY DEF TypeOK
<1>2. e \in EnrollmentId => row \in Row
  BY <1>1
<1>3. [enrollment EXCEPT ![e].state = state] = [enrollment EXCEPT ![e] = row]
  OBVIOUS
<1>. HIDE DEF Row, row
<1>4. [enrollment EXCEPT ![e] = row] \in [EnrollmentId -> Row]
  BY <1>1, <1>2
<1>. QED  BY <1>3, <1>4 DEF Row

\* The steps of a VPS and of the operator who enrolls it.
LEMMA HostStepType ==
    ASSUME TInv, NEW h \in Hosts, HostStep(h)
    PROVE  TInv'
<1>. USE DEF TInv
<1>0. 1 \in Nat /\ \A n \in Names \cup EnrollmentId \cup (0..MaxToken) : n \in Nat
  BY BoundsAssumption DEF Names, EnrollmentId, MaxToken
<1>1. CASE Click(h)
  <2>1. \A e \in EnrollmentId : enrollment[e].token \in 0..MaxToken
    BY DEF TypeOK
  <2>2. ASSUME NEW q, q \in [pc : HostPc, num : Nat, id : {0} \cup WorkerId],
               host' = [host EXCEPT ![h] = q],
               q.pc \in {"create", "remote", "register"} => q.num \in Names,
               q.pc = "refresh" => q.num \in EnrollmentId
        PROVE  TInv'
    BY <1>1, <2>2 DEF Click, TypeOK, InFlight
  <2>3. ASSUME NEW e \in Active,
               host' = [host EXCEPT ![h] =
                 IF enrollment[e].stored
                 THEN [pc |-> "command", num |-> enrollment[e].token, id |-> 0]
                 ELSE [pc |-> "refresh", num |-> e, id |-> 0]]
        PROVE  TInv'
    <3>1. e \in EnrollmentId
      BY DEF Active
    <3>2. CASE enrollment[e].stored
      BY <1>0, <2>1, <2>2, <2>3, <3>1, <3>2 DEF HostPc
    <3>3. CASE ~enrollment[e].stored
      BY <1>0, <2>2, <2>3, <3>1, <3>3 DEF HostPc
    <3>. QED  BY <3>2, <3>3
  <2>4. ASSUME NEW n \in Names, host' = [host EXCEPT ![h] = [pc |-> "create", num |-> n, id |-> 0]]
        PROVE  TInv'
    BY <1>0, <2>2, <2>4 DEF HostPc
  <2>. QED  BY <1>1, <2>3, <2>4 DEF Click
<1>2. CASE PreauthFails(h)
  BY <1>2, BoundsAssumption DEF PreauthFails, Fault, Out, TypeOK, InFlight, HostPc
<1>3. CASE WriteEnrollment(h)
  <2>1. minted + 1 \in 0..MaxToken /\ minted + 1 \in Nat
    BY <1>3, BoundsAssumption DEF WriteEnrollment, TypeOK, MaxToken
  <2>2. enrollment' \in [EnrollmentId -> [state : EnrollmentState, name : {Local} \cup Names,
                                          token : 0..MaxToken, stored : BOOLEAN]]
    <3>1. CASE host[h].pc = "create"
      <4>1. [state |-> "active", name |-> host[h].num, token |-> minted + 1, stored |-> TRUE]
              \in [state : EnrollmentState, name : {Local} \cup Names,
                   token : 0..MaxToken, stored : BOOLEAN]
        BY <2>1, <3>1 DEF InFlight, EnrollmentState
      <4>. QED  BY <1>3, <3>1, <4>1, NextEnrollmentIsFree DEF WriteEnrollment, TypeOK
    <3>2. CASE host[h].pc = "refresh"
      <4>1. host[h].num \in EnrollmentId
        BY <3>2 DEF InFlight
      <4>2. enrollment' = [enrollment EXCEPT ![host[h].num].token = minted + 1,
                                             ![host[h].num].stored = TRUE]
        BY <1>3, <3>2 DEF WriteEnrollment
      <4>3. enrollment[host[h].num] \in [state : EnrollmentState, name : {Local} \cup Names,
                                         token : 0..MaxToken, stored : BOOLEAN]
        BY <4>1 DEF TypeOK
      <4>. QED  BY <2>1, <4>1, <4>2, <4>3 DEF TypeOK
    <3>. QED  BY <1>3, <3>1, <3>2 DEF WriteEnrollment
  <2>3. host' \in [Hosts -> [pc : HostPc, num : Nat, id : {0} \cup WorkerId]] /\ InFlight'
    BY <1>3, <2>1 DEF WriteEnrollment, TypeOK, InFlight, HostPc
  <2>. QED  BY <1>3, <2>1, <2>2, <2>3 DEF WriteEnrollment, TypeOK
<1>4. CASE PostRefused(h)
  BY <1>4 DEF PostRefused, Out, TypeOK, InFlight, HostPc
<1>5. CASE GiveUp(h)
  <2>1. host' \in [Hosts -> [pc : HostPc, num : Nat, id : {0} \cup WorkerId]]
    BY <1>5 DEF GiveUp, TypeOK, HostPc
  <2>2. \A s \in Slots : /\ request'[s].pc = request[s].pc /\ request'[s].host = request[s].host
                         /\ request'[s].enrollment = request[s].enrollment
                         /\ request'[s].awaited => request[s].awaited
    BY <1>5 DEF GiveUp, TypeOK
  <2>3. request' \in [Slots -> [pc : {"idle", "remove", "add", "insert"}, host : Hosts \cup {NoHost},
                                enrollment : {0} \cup EnrollmentId, awaited : BOOLEAN]]
    BY <1>5 DEF GiveUp, TypeOK
  <2>4. InFlight'
    BY <1>5, <2>2 DEF GiveUp, TypeOK, InFlight
  <2>5. faults' \in 0..MaxFaults
    BY <1>5, BoundsAssumption DEF GiveUp, Fault, TypeOK
  <2>. QED  BY <1>5, <2>1, <2>3, <2>4, <2>5 DEF GiveUp, TypeOK
<1>6. CASE RegisterWorker(h)
  <2>1. ASSUME UNCHANGED worker, host' = [host EXCEPT ![h] = Out]
        PROVE  TInv'
    BY <1>6, <2>1 DEF RegisterWorker, Out, TypeOK, InFlight, HostPc
  <2>2. ASSUME NextWorker # 0, worker' = [worker EXCEPT ![NextWorker] = NewWorker(host[h].num, h)],
               host' = [host EXCEPT ![h] = [pc |-> "joined", num |-> 0, id |-> NextWorker]]
        PROVE  TInv'
    <3>1. NewWorker(host[h].num, h) \in [name : {-1, Local} \cup Names, host : Hosts \cup {NoHost},
                                         enabled : BOOLEAN, seen : Seen]
      BY <1>6 DEF RegisterWorker, InFlight, NewWorker, Seen
    <3>2. NextWorker \in WorkerId
      BY <2>2, NextWorkerIsFree
    <3>3. worker' \in [WorkerId -> [name : {-1, Local} \cup Names, host : Hosts \cup {NoHost},
                                    enabled : BOOLEAN, seen : Seen]]
      BY <2>2, <3>1 DEF TypeOK
    <3>4. host' \in [Hosts -> [pc : HostPc, num : Nat, id : {0} \cup WorkerId]] /\ InFlight'
      BY <1>6, <2>2, <3>2 DEF RegisterWorker, TypeOK, InFlight, HostPc
    <3>. QED  BY <1>6, <3>3, <3>4 DEF RegisterWorker, TypeOK
  <2>. QED  BY <1>6, <2>1, <2>2 DEF RegisterWorker
<1>7. CASE Heartbeat(h)
  <2>1. worker' \in [WorkerId -> [name : {-1, Local} \cup Names, host : Hosts \cup {NoHost},
                                  enabled : BOOLEAN, seen : Seen]]
    BY <1>7, SeenType DEF Heartbeat, HeardFrom, Seen
  <2>. QED  BY <1>7, <2>1 DEF Heartbeat, TypeOK, InFlight
<1>8. ASSUME NEW s \in Slots, Post(h, s)
      PROVE  TInv'
  <2>1. PICK e \in EnrollmentId :
          request' = [request EXCEPT ![s] =
            [pc |-> "remove", host |-> h, enrollment |-> e, awaited |-> TRUE]]
    BY <1>8 DEF Post
  <2>. QED  BY <1>8, <2>1 DEF Post, TypeOK, InFlight, HostPc
<1>9. ASSUME NEW n \in ManualNames, ManualRemove(h, n)
      PROVE  TInv'
  <2>1. n \in Names
    BY ManualAssumption DEF Names
  <2>. QED  BY <1>0, <1>9, <2>1 DEF ManualRemove, TypeOK, InFlight, HostPc
<1>10. CASE ManualAdd(h)
  <2>1. host[h].num \in Names
    BY <1>0, <1>10 DEF ManualAdd, InFlight
  <2>2. remote' \in [Names -> Hosts \cup {NoHost}]
    BY <1>10, <2>1 DEF ManualAdd, TypeOK
  <2>3. host' \in [Hosts -> [pc : HostPc, num : Nat, id : {0} \cup WorkerId]]
    <3>. DEFINE next == [host[h] EXCEPT !.pc = "register"]
    <3>1. host[h] \in [pc : HostPc, num : Nat, id : {0} \cup WorkerId]
      BY DEF TypeOK
    <3>2. next \in [pc : HostPc, num : Nat, id : {0} \cup WorkerId]
      BY <3>1 DEF HostPc
    <3>3. host' = [host EXCEPT ![h] = next]
      BY <1>10 DEF ManualAdd
    <3>. HIDE DEF next
    <3>. QED  BY <3>2, <3>3 DEF TypeOK
  <2>4. InFlight'
    <3>1. \A g \in Hosts : /\ host'[g].num = host[g].num
                            /\ host'[g].pc = IF g = h THEN "register" ELSE host[g].pc
      BY <1>10 DEF ManualAdd, TypeOK
    <3>. QED  BY <1>10, <2>1, <3>1 DEF ManualAdd, InFlight
  <2>. QED  BY <1>10, <2>2, <2>3, <2>4 DEF ManualAdd, TypeOK
<1>11. CASE ManualAddFails(h)
  <2>1. host[h].num \in Names
    BY <1>0, <1>11 DEF ManualAddFails, InFlight
  <2>2. remote' \in [Names -> Hosts \cup {NoHost}] /\ faults' \in 0..MaxFaults
    BY <1>11, <2>1, BoundsAssumption DEF ManualAddFails, Fault, TypeOK
  <2>3. host' \in [Hosts -> [pc : HostPc, num : Nat, id : {0} \cup WorkerId]] /\ InFlight'
    BY <1>11 DEF ManualAddFails, Out, TypeOK, InFlight, HostPc
  <2>. QED  BY <1>11, <2>2, <2>3 DEF ManualAddFails, TypeOK
<1>. QED  BY <1>1, <1>2, <1>3, <1>4, <1>5, <1>6, <1>7, <1>8, <1>9, <1>10, <1>11 DEF HostStep

\* The steps of a completion.
LEMMA RequestStepType ==
    ASSUME TInv, NEW s \in Slots, RequestStep(s)
    PROVE  TInv'
<1>. USE DEF TInv
<1>0. Out \in [pc : {"out", "joined"}, num : {0}, id : {0} \cup WorkerId]
  BY DEF Out
<1>1. CASE RemoveRemote(s)
  BY <1>1 DEF RemoveRemote, TypeOK, InFlight
<1>2. CASE AddRemote(s)
  BY <1>2 DEF AddRemote, TypeOK, InFlight
<1>3. CASE AddRemoteFails(s)
  <2>1. request[s].host \in Hosts
    BY <1>3 DEF AddRemoteFails, InFlight
  <2>2. remote' \in [Names -> Hosts \cup {NoHost}] /\ faults' \in 0..MaxFaults
    BY <1>3, <2>1, BoundsAssumption DEF AddRemoteFails, Fault, TypeOK
  <2>. QED  BY <1>0, <1>3, <2>2, FinishType DEF AddRemoteFails, TypeOK
<1>4. CASE Insert(s)
  <2>. DEFINE Joined == [pc |-> "joined", num |-> 0, id |-> NextWorker]
  <2>1. request[s].host \in Hosts /\ request[s].enrollment \in EnrollmentId
    BY <1>4 DEF Insert, InFlight
  <2>2. NextWorker \in WorkerId
    BY <1>4, NextWorkerIsFree DEF Insert
  <2>3. NewWorker(NameOf(s), request[s].host)
          \in [name : {-1, Local} \cup Names, host : Hosts \cup {NoHost},
               enabled : BOOLEAN, seen : Seen]
    BY <2>1 DEF NameOf, NewWorker, Seen, TypeOK
  <2>4. worker' \in [WorkerId -> [name : {-1, Local} \cup Names, host : Hosts \cup {NoHost},
                                  enabled : BOOLEAN, seen : Seen]]
    BY <1>4, <2>3 DEF Insert, TypeOK
  <2>5. enrollment' \in [EnrollmentId -> [state : EnrollmentState, name : {Local} \cup Names,
                                          token : 0..MaxToken, stored : BOOLEAN]]
    BY <1>4, StateType DEF Insert, EnrollmentState
  <2>6. faults' \in 0..MaxFaults
    BY <1>4, BoundsAssumption DEF Insert, Fault, TypeOK
  <2>7. Joined \in [pc : {"out", "joined"}, num : {0}, id : {0} \cup WorkerId]
    BY <2>2
  <2>8. /\ host' \in [Hosts -> [pc : HostPc, num : Nat, id : {0} \cup WorkerId]]
        /\ request' \in [Slots -> [pc : {"idle", "remove", "add", "insert"},
                                   host : Hosts \cup {NoHost},
                                   enrollment : {0} \cup EnrollmentId, awaited : BOOLEAN]]
        /\ InFlight'
    <3>1. request[s].pc # "idle"
      BY <1>4 DEF Insert
    <3>2. CASE Finish(s, Joined)
      <4>. HIDE DEF Joined
      <4>. QED  BY <2>7, <3>1, <3>2, FinishType
    <3>3. CASE Finish(s, Out)
      BY <1>0, <3>1, <3>3, FinishType
    <3>. QED  BY <1>4, <3>2, <3>3 DEF Insert
  <2>. QED  BY <1>4, <2>4, <2>5, <2>6, <2>8 DEF Insert, TypeOK
<1>5. CASE InsertRefused(s)
  BY <1>0, <1>5, FinishType DEF InsertRefused, TypeOK
<1>. QED  BY <1>1, <1>2, <1>3, <1>4, <1>5 DEF RequestStep

\* Every step keeps the types.
LEMMA StepType == TInv /\ [Next]_vars => TInv'
<1>. SUFFICES ASSUME TInv, [Next]_vars
              PROVE  TInv'
  OBVIOUS
<1>. USE DEF TInv
<1>1. CASE Boot
  <2>1. worker' \in [WorkerId -> [name : {-1, Local} \cup Names, host : Hosts \cup {NoHost},
                                  enabled : BOOLEAN, seen : Seen]]
    <3>. DEFINE Row == [name : {-1, Local} \cup Names, host : Hosts \cup {NoHost},
                        enabled : BOOLEAN, seen : Seen]
    <3>1. worker \in [WorkerId -> Row]
      BY DEF TypeOK
    <3>2. \A w \in WorkerId : [worker[w] EXCEPT !.enabled = FALSE] \in Row
      BY <3>1
    <3>3. [name |-> Local, host |-> NoHost, enabled |-> FALSE, seen |-> "never"] \in Row
      BY DEF Seen
    <3>. HIDE DEF Row
    <3>4. worker' \in [WorkerId -> Row]
      BY <1>1, <3>1, <3>2, <3>3 DEF Boot
    <3>. QED  BY <3>4 DEF Row
  <2>. QED  BY <1>1, <2>1 DEF Boot, TypeOK, InFlight
<1>2. CASE Crash
  <2>1. faults' \in 0..MaxFaults
    BY <1>2, BoundsAssumption DEF Crash, Fault, TypeOK
  <2>2. request' \in [Slots -> [pc : {"idle", "remove", "add", "insert"},
                                host : Hosts \cup {NoHost},
                                enrollment : {0} \cup EnrollmentId, awaited : BOOLEAN]]
    BY <1>2 DEF Crash, NoRequest
  <2>3. host' \in [Hosts -> [pc : HostPc, num : Nat, id : {0} \cup WorkerId]]
    BY <1>2 DEF Crash, Out, HostPc, TypeOK
  <2>4. InFlight'
    BY <1>2 DEF Crash, Out, NoRequest, InFlight
  <2>. QED  BY <1>2, <2>1, <2>2, <2>3, <2>4 DEF Crash, TypeOK
<1>3. ASSUME NEW h \in Hosts, HostStep(h)
      PROVE  TInv'
  BY <1>3, HostStepType
<1>4. ASSUME NEW s \in Slots, RequestStep(s)
      PROVE  TInv'
  BY <1>4, RequestStepType
<1>5. ASSUME NEW e \in EnrollmentId, Expire(e)
      PROVE  TInv'
  <2>1. faults' \in 0..MaxFaults
    BY <1>5, BoundsAssumption DEF Expire, Fault, TypeOK
  <2>2. enrollment' \in [EnrollmentId -> [state : EnrollmentState, name : {Local} \cup Names,
                                          token : 0..MaxToken, stored : BOOLEAN]]
    BY <1>5, StateType DEF Expire, EnrollmentState
  <2>. QED  BY <1>5, <2>1, <2>2 DEF Expire, TypeOK, InFlight
<1>6. ASSUME NEW w \in WorkerId, Quiet(w)
      PROVE  TInv'
  <2>1. worker' \in [WorkerId -> [name : {-1, Local} \cup Names, host : Hosts \cup {NoHost},
                                  enabled : BOOLEAN, seen : Seen]]
    BY <1>6, SeenType DEF Quiet, Seen
  <2>. QED  BY <1>6, <2>1 DEF Quiet, TypeOK, InFlight
<1>7. ASSUME NEW w \in WorkerId, NEW asked \in BOOLEAN, Place(w, asked)
      PROVE  TInv'
  BY <1>7 DEF Place, TypeOK, InFlight
<1>8. CASE UNCHANGED vars
  BY <1>8 DEF vars, TypeOK, InFlight
<1>. QED  BY <1>1, <1>2, <1>3, <1>4, <1>5, <1>6, <1>7, <1>8 DEF Next

\* The types hold in every behaviour of the model.
LEMMA Typed == Spec => []TInv
  BY InitType, StepType, PTL DEF Spec

\* Tables, remotes, hosts and completions keep their types, for any number of
\* VPSes, completions and faults: no completion inserts a worker without a name
\* or a host, and no answer names a worker that is not there.
THEOREM TypeCorrect == Spec => []TypeOK
<1>1. TInv => TypeOK
  BY DEF TInv
<1>. QED  BY <1>1, Typed, PTL

-----------------------------------------------------------------------------
(* One worker per enrollment *)

\* Worker names are unique, every used enrollment has its worker, and used
\* enrollments have different names: the last two say UsedOnce by the first.
UInv ==
    /\ \A v, w \in Rows : v # w => worker[v].name # worker[w].name
    /\ \A e \in EnrollmentId : enrollment[e].state = "used" =>
         \E w \in Rows : worker[w].name = enrollment[e].name
    /\ \A d, e \in EnrollmentId :
         d # e /\ enrollment[d].state = "used" /\ enrollment[e].state = "used" =>
           enrollment[d].name # enrollment[e].name

\* A step that names no worker and uses no enrollment.
LEMMA SameNames ==
    ASSUME UInv,
           \A w \in WorkerId : worker'[w].name = worker[w].name,
           \A e \in EnrollmentId : enrollment'[e].state = "used" =>
             enrollment[e].state = "used" /\ enrollment'[e].name = enrollment[e].name
    PROVE  UInv'
<1>1. Rows' = Rows
  BY DEF Rows
<1>2. \A w \in Rows : worker'[w].name = worker[w].name
  BY DEF Rows
<1>. QED  BY <1>1, <1>2 DEF UInv

\* A step that inserts a worker under a new name, and uses at most the one
\* enrollment of that name.
LEMMA NewName ==
    ASSUME UInv, NEW n, n # -1, n \notin TakenNames,
           NEW i \in WorkerId, worker[i].name = -1, worker'[i].name = n,
           \A w \in WorkerId \ {i} : worker'[w].name = worker[w].name,
           NEW u,
           \A e \in EnrollmentId : enrollment'[e].name = enrollment[e].name
                                   /\ (e # u => enrollment'[e].state = enrollment[e].state),
           u \in EnrollmentId => enrollment[u].name = n
    PROVE  UInv'
<1>1. Rows' = Rows \cup {i} /\ i \notin Rows
  BY DEF Rows
<1>2. \A w \in Rows : worker'[w].name = worker[w].name /\ worker[w].name # n
  BY DEF Rows, TakenNames
<1>3. \A v, w \in Rows' : v # w => worker'[v].name # worker'[w].name
  BY <1>1, <1>2 DEF UInv
<1>4. ASSUME NEW e \in EnrollmentId, enrollment'[e].state = "used"
      PROVE  /\ \E w \in Rows' : worker'[w].name = enrollment'[e].name
             /\ e # u => \E w \in Rows : worker[w].name = enrollment[e].name
  BY <1>1, <1>2, <1>4 DEF UInv
<1>5. ASSUME NEW d \in EnrollmentId, NEW e \in EnrollmentId, d # e,
             enrollment'[d].state = "used", enrollment'[e].state = "used"
      PROVE  enrollment'[d].name # enrollment'[e].name
  <2>1. CASE d # u /\ e # u
    BY <1>5, <2>1 DEF UInv
  <2>2. CASE d = u
    BY <1>2, <1>4, <1>5, <2>2
  <2>3. CASE e = u
    BY <1>2, <1>4, <1>5, <2>3
  <2>. QED  BY <2>1, <2>2, <2>3
<1>. QED  BY <1>3, <1>4, <1>5 DEF UInv

\* Every step keeps one worker per enrollment.
LEMMA StepUses == TInv /\ UInv /\ [Next]_vars => UInv'
<1>. SUFFICES ASSUME TInv, UInv, [Next]_vars
              PROVE  UInv'
  OBVIOUS
<1>0. /\ worker \in [WorkerId -> [name : {-1, Local} \cup Names, host : Hosts \cup {NoHost},
                                  enabled : BOOLEAN, seen : Seen]]
      /\ enrollment \in [EnrollmentId -> [state : EnrollmentState, name : {Local} \cup Names,
                                          token : 0..MaxToken, stored : BOOLEAN]]
      /\ InFlight
      /\ \A n \in {Local} \cup Names : n # -1
  BY BoundsAssumption DEF TInv, TypeOK, Local, Names
<1>1. CASE Boot
  <2>1. CASE Local \in TakenNames
    BY <1>0, <1>1, <2>1, SameNames DEF Boot
  <2>2. CASE Local \notin TakenNames
    <3>1. /\ NextWorker \in WorkerId /\ worker[NextWorker].name = -1
          /\ worker' = [worker EXCEPT ![NextWorker] =
               [name |-> Local, host |-> NoHost, enabled |-> FALSE, seen |-> "never"]]
      BY <1>1, <2>2, NextWorkerIsFree DEF Boot
    <3>2. 0 \notin EnrollmentId
      BY BoundsAssumption DEF EnrollmentId
    <3>3. enrollment' = enrollment
      BY <1>1 DEF Boot
    <3>. QED  BY <1>0, <2>2, <3>1, <3>2, <3>3, NewName
  <2>. QED  BY <2>1, <2>2
<1>2. CASE Crash
  BY <1>2, SameNames DEF Crash
<1>3. ASSUME NEW h \in Hosts, HostStep(h)
      PROVE  UInv'
  <2>1. CASE Click(h) \/ PreauthFails(h) \/ PostRefused(h) \/ GiveUp(h)
             \/ (\E s \in Slots : Post(h, s)) \/ (\E n \in ManualNames : ManualRemove(h, n))
             \/ ManualAdd(h) \/ ManualAddFails(h)
    BY <2>1, SameNames DEF Click, PreauthFails, PostRefused, GiveUp, Post, ManualRemove,
                           ManualAdd, ManualAddFails
  <2>2. CASE WriteEnrollment(h)
    <3>1. CASE host[h].pc = "create"
      BY <1>0, <2>2, <3>1, NextEnrollmentIsFree, SameNames DEF WriteEnrollment
    <3>2. CASE host[h].pc = "refresh"
      BY <1>0, <2>2, <3>2, SameNames DEF WriteEnrollment
    <3>. QED  BY <2>2, <3>1, <3>2 DEF WriteEnrollment
  <2>3. CASE RegisterWorker(h)
    <3>1. CASE UNCHANGED worker
      BY <2>3, <3>1, SameNames DEF RegisterWorker
    <3>2. CASE worker' # worker
      <4>1. /\ host[h].num \in Names /\ host[h].num \notin TakenNames /\ NextWorker # 0
            /\ worker' = [worker EXCEPT ![NextWorker] = NewWorker(host[h].num, h)]
            /\ enrollment' = enrollment
        BY <1>0, <2>3, <3>2 DEF RegisterWorker, InFlight
      <4>2. NextWorker \in WorkerId /\ worker[NextWorker].name = -1
        BY <4>1, NextWorkerIsFree
      <4>3. 0 \notin EnrollmentId
        BY BoundsAssumption DEF EnrollmentId
      <4>4. NewWorker(host[h].num, h).name = host[h].num
        BY DEF NewWorker
      <4>. QED  BY <1>0, <4>1, <4>2, <4>3, <4>4, NewName
    <3>. QED  BY <3>1, <3>2
  <2>4. CASE Heartbeat(h)
    BY <1>0, <2>4, SameNames DEF Heartbeat, HeardFrom
  <2>. QED  BY <1>3, <2>1, <2>2, <2>3, <2>4 DEF HostStep
<1>4. ASSUME NEW s \in Slots, RequestStep(s)
      PROVE  UInv'
  <2>1. CASE RemoveRemote(s) \/ AddRemote(s) \/ AddRemoteFails(s) \/ InsertRefused(s)
    BY <2>1, SameNames DEF RemoveRemote, AddRemote, AddRemoteFails, InsertRefused
  <2>2. CASE Insert(s)
    <3>. DEFINE u == request[s].enrollment
    <3>1. /\ u \in EnrollmentId /\ NameOf(s) \notin TakenNames /\ NextWorker # 0
          /\ worker' = [worker EXCEPT ![NextWorker] = NewWorker(NameOf(s), request[s].host)]
          /\ enrollment' = [enrollment EXCEPT ![u].state = "used"]
      BY <1>0, <2>2 DEF Insert, InFlight
    <3>2. NextWorker \in WorkerId /\ worker[NextWorker].name = -1
      BY <3>1, NextWorkerIsFree
    <3>3. NewWorker(NameOf(s), request[s].host).name = NameOf(s)
      BY DEF NewWorker
    <3>4. NameOf(s) = enrollment[u].name /\ NameOf(s) # -1
      BY <1>0, <3>1 DEF NameOf
    <3>5. \A e \in EnrollmentId : enrollment'[e].name = enrollment[e].name
                                  /\ (e # u => enrollment'[e].state = enrollment[e].state)
      BY <1>0, <3>1
    <3>. HIDE DEF u
    <3>. QED  BY <1>0, <3>1, <3>2, <3>3, <3>4, <3>5, NewName
  <2>. QED  BY <1>4, <2>1, <2>2 DEF RequestStep
<1>5. ASSUME NEW e \in EnrollmentId, Expire(e)
      PROVE  UInv'
  BY <1>0, <1>5, SameNames DEF Expire
<1>6. ASSUME NEW w \in WorkerId, Quiet(w)
      PROVE  UInv'
  BY <1>0, <1>6, SameNames DEF Quiet
<1>7. ASSUME NEW w \in WorkerId, NEW asked \in BOOLEAN, Place(w, asked)
      PROVE  UInv'
  BY <1>7, SameNames DEF Place
<1>8. CASE UNCHANGED vars
  BY <1>8, SameNames DEF vars
<1>. QED  BY <1>1, <1>2, <1>3, <1>4, <1>5, <1>6, <1>7, <1>8 DEF Next

\* One enrollment makes one worker, however many completions of one token, or of
\* two enrollments with one name, run at once and whatever is lost: the check of
\* used_at comes too early to see to it, the unique name of the worker does.
THEOREM OneWorkerPerEnrollment == Spec => []UsedOnce
<1>1. Init => UInv
  BY DEF Init, UInv, Rows, NoWorker, NoEnrollment
<1>2. UInv => UsedOnce
  BY DEF UInv, UsedOnce
<1>. QED  BY <1>1, <1>2, StepUses, Typed, PTL DEF Spec

-----------------------------------------------------------------------------
(* Gateways go to workers whose VPS holds their token *)

\* The VPS of a worker has joined as that worker.
Holds(w) ==
    /\ worker[w].host \in Hosts
    /\ host[worker[w].host].pc = "joined" /\ host[worker[w].host].id = w

\* A VPS that has joined is the host of its worker; a worker that was heard of,
\* or was given a gateway, belongs to a VPS that has joined.
JInv ==
    /\ \A h \in Hosts : host[h].pc = "joined" =>
         host[h].id \in Rows /\ worker[host[h].id].host = h
    /\ \A w \in WorkerId : worker[w].seen # "never" => Holds(w)
    /\ \A w \in placed : Holds(w)

\* A completion whose answer is awaited is the only one that its VPS waits for:
\* no answer reaches a VPS that has joined.
WInv ==
    \A s \in Slots : request[s].awaited =>
        /\ host[request[s].host].pc = "waiting"
        /\ \A r \in Slots \ {s} : request[r].awaited => request[r].host # request[s].host

\* What a step has to respect so that a gateway stays where it was put.
LEMMA HoldersKept ==
    ASSUME TInv, JInv,
           \A h \in Hosts : host[h].pc = "joined" => host'[h] = host[h],
           \A h \in Hosts : host'[h].pc = "joined" /\ host[h].pc # "joined" =>
             host'[h].id \in Rows' /\ worker'[host'[h].id].host = h,
           \A w \in Rows : w \in Rows' /\ worker'[w].host = worker[w].host,
           \A w \in WorkerId : worker'[w].seen # "never" => worker[w].seen # "never" \/ Holds(w),
           \A w \in placed' : w \in placed \/ Holds(w)
    PROVE  JInv'
<1>1. ASSUME NEW w, Holds(w)
      PROVE  Holds(w)'
  <2>1. w \in Rows
    BY <1>1 DEF Holds, JInv
  <2>. QED  BY <1>1, <2>1 DEF Holds
<1>2. \A h \in Hosts : host'[h].pc = "joined" => host'[h].id \in Rows' /\ worker'[host'[h].id].host = h
  BY DEF JInv
<1>3. \A w \in WorkerId : worker'[w].seen # "never" => Holds(w)'
  BY <1>1 DEF JInv
<1>4. \A w \in placed' : Holds(w)'
  BY <1>1 DEF JInv
<1>. QED  BY <1>2, <1>3, <1>4 DEF JInv

\* A step of one VPS that has not joined, and does not join.
LEMMA HostMoves ==
    ASSUME TInv, JInv, WInv, NEW h \in Hosts, host[h].pc # "joined", host[h].pc # "waiting",
           NEW q, q.pc # "joined", host' = [host EXCEPT ![h] = q],
           UNCHANGED <<worker, request, placed>>
    PROVE  JInv' /\ WInv'
<1>0. host \in [Hosts -> [pc : HostPc, num : Nat, id : {0} \cup WorkerId]]
  BY DEF TInv, TypeOK
<1>1. \A g \in Hosts : g # h => host'[g] = host[g]
  BY <1>0
<1>2. host'[h] = q
  BY <1>0
<1>3. JInv'
  BY <1>1, <1>2, HoldersKept DEF Rows
<1>4. \A s \in Slots : request[s].awaited => request[s].host \in Hosts \ {h}
  BY DEF TInv, InFlight, WInv
<1>5. WInv'
  BY <1>1, <1>4 DEF WInv
<1>. QED  BY <1>3, <1>5

\* The end of a completion that makes no worker.
LEMMA FinishOut ==
    ASSUME TInv, JInv, WInv, NEW s \in Slots, Finish(s, Out), UNCHANGED <<worker, placed>>
    PROVE  JInv' /\ WInv'
<1>0. /\ host \in [Hosts -> [pc : HostPc, num : Nat, id : {0} \cup WorkerId]]
      /\ request' = [request EXCEPT ![s] = NoRequest]
      /\ host' = IF request[s].awaited THEN [host EXCEPT ![request[s].host] = Out] ELSE host
      /\ Out.pc = "out" /\ ~NoRequest.awaited
      /\ \A r \in Slots : request[r].awaited => request[r].host \in Hosts
  BY DEF TInv, TypeOK, InFlight, Finish, Out, NoRequest
<1>1. \A r \in Slots : request'[r] = IF r = s THEN NoRequest ELSE request[r]
  BY <1>0 DEF TInv, TypeOK
<1>2. \A g \in Hosts : host'[g] = host[g]
                       \/ (request[s].awaited /\ g = request[s].host /\ host'[g] = Out)
  BY <1>0
<1>3. \A g \in Hosts : host[g].pc = "joined" => host'[g] = host[g]
  BY <1>2 DEF WInv
<1>4. \A g \in Hosts : host'[g].pc = "joined" => host[g].pc = "joined"
  BY <1>0, <1>2
<1>5. JInv'
  BY <1>3, <1>4, HoldersKept DEF Rows
<1>6. WInv'
  BY <1>0, <1>1, <1>2 DEF WInv
<1>. QED  BY <1>5, <1>6

\* The completion that makes a worker: the VPS that still waits for the answer
\* becomes its holder; a worker whose answer nobody waits for has none.
LEMMA InsertHolds ==
    ASSUME TInv, JInv, WInv, NEW s \in Slots, Insert(s)
    PROVE  JInv' /\ WInv'
<1>. DEFINE i == NextWorker
            h == request[s].host
            Joined == [pc |-> "joined", num |-> 0, id |-> i]
<1>1. /\ host \in [Hosts -> [pc : HostPc, num : Nat, id : {0} \cup WorkerId]]
      /\ worker \in [WorkerId -> [name : {-1, Local} \cup Names, host : Hosts \cup {NoHost},
                                  enabled : BOOLEAN, seen : Seen]]
      /\ h \in Hosts /\ request[s].enrollment \in EnrollmentId
      /\ \A r \in Slots : request[r].awaited => request[r].host \in Hosts
  BY DEF TInv, TypeOK, InFlight, Insert
<1>2. i \in WorkerId /\ i \notin Rows
  BY NextWorkerIsFree DEF Insert, Rows
<1>3. NameOf(s) # -1
  <2>1. NameOf(s) \in {Local} \cup Names
    BY <1>1 DEF NameOf, TInv, TypeOK
  <2>. QED  BY <2>1, BoundsAssumption DEF Local, Names
<1>4. /\ worker'[i].name # -1 /\ worker'[i].host = h /\ worker'[i].seen = "never"
      /\ \A w \in WorkerId \ {i} : worker'[w] = worker[w]
  BY <1>1, <1>2, <1>3 DEF Insert, NewWorker
<1>5. \A w \in Rows : w \in Rows' /\ worker'[w].host = worker[w].host
  BY <1>2, <1>4 DEF Rows
<1>6. i \in Rows'
  BY <1>2, <1>4 DEF Rows
<1>7. /\ request' = [request EXCEPT ![s] = NoRequest]
      /\ ~request[s].awaited => host' = host
      /\ request[s].awaited => \E q \in {Out, Joined} : host' = [host EXCEPT ![h] = q]
      /\ ~NoRequest.awaited
      /\ placed' = placed
  BY DEF Insert, Finish, NoRequest
<1>8. \A g \in Hosts : host'[g] = host[g]
                       \/ (request[s].awaited /\ g = h /\ host'[g] \in {Out, Joined})
  BY <1>1, <1>7
<1>9. \A g \in Hosts : host[g].pc = "joined" => host'[g] = host[g]
  BY <1>8 DEF WInv
<1>10. \A g \in Hosts : host'[g].pc = "joined" /\ host[g].pc # "joined" =>
         host'[g].id \in Rows' /\ worker'[host'[g].id].host = g
  <2>1. Out.pc # "joined"
    BY DEF Out
  <2>. QED  BY <1>4, <1>6, <1>8, <2>1
<1>11. \A w \in WorkerId : worker'[w].seen # "never" => worker[w].seen # "never" \/ Holds(w)
  BY <1>4
<1>12. JInv'
  BY <1>5, <1>7, <1>9, <1>10, <1>11, HoldersKept
<1>13. \A r \in Slots : request'[r] = IF r = s THEN NoRequest ELSE request[r]
  BY <1>7 DEF TInv, TypeOK
<1>14. WInv'
  BY <1>1, <1>7, <1>8, <1>13 DEF WInv
<1>. QED  BY <1>12, <1>14

\* The steps of a VPS.
LEMMA HostStepHolds ==
    ASSUME TInv, JInv, WInv, NEW h \in Hosts, HostStep(h)
    PROVE  JInv' /\ WInv'
<1>0. /\ host \in [Hosts -> [pc : HostPc, num : Nat, id : {0} \cup WorkerId]]
      /\ worker \in [WorkerId -> [name : {-1, Local} \cup Names, host : Hosts \cup {NoHost},
                                  enabled : BOOLEAN, seen : Seen]]
      /\ \A r \in Slots : request[r].awaited => request[r].host \in Hosts
      /\ InFlight
  BY DEF TInv, TypeOK, InFlight
<1>1. CASE Click(h)
  <2>1. ASSUME NEW q, q.pc # "joined", host' = [host EXCEPT ![h] = q]
        PROVE  JInv' /\ WInv'
    BY <1>1, <2>1, HostMoves DEF Click, Start
  <2>2. ASSUME NEW e \in Active,
               host' = [host EXCEPT ![h] =
                 IF enrollment[e].stored
                 THEN [pc |-> "command", num |-> enrollment[e].token, id |-> 0]
                 ELSE [pc |-> "refresh", num |-> e, id |-> 0]]
        PROVE  JInv' /\ WInv'
    <3>. DEFINE q == IF enrollment[e].stored
                     THEN [pc |-> "command", num |-> enrollment[e].token, id |-> 0]
                     ELSE [pc |-> "refresh", num |-> e, id |-> 0]
    <3>1. q.pc # "joined"
      OBVIOUS
    <3>2. host' = [host EXCEPT ![h] = q]
      BY <2>2
    <3>. HIDE DEF q
    <3>. QED  BY <2>1, <3>1, <3>2
  <2>3. ASSUME NEW n \in Names, host' = [host EXCEPT ![h] = [pc |-> "create", num |-> n, id |-> 0]]
        PROVE  JInv' /\ WInv'
    BY <2>1, <2>3
  <2>. QED  BY <1>1, <2>2, <2>3 DEF Click
<1>2. CASE PreauthFails(h) \/ PostRefused(h)
  <2>1. Out.pc # "joined"
    BY DEF Out
  <2>. QED  BY <1>2, <2>1, HostMoves DEF PreauthFails, PostRefused
<1>3. CASE WriteEnrollment(h)
  <2>. DEFINE q == [pc |-> "command", num |-> minted + 1, id |-> 0]
  <2>1. q.pc # "joined" /\ host' = [host EXCEPT ![h] = q]
    BY <1>3 DEF WriteEnrollment
  <2>2. host[h].pc \in {"create", "refresh"} /\ UNCHANGED <<worker, request, placed>>
    BY <1>3 DEF WriteEnrollment
  <2>. HIDE DEF q
  <2>. QED  BY <2>1, <2>2, HostMoves
<1>4. ASSUME NEW n \in ManualNames, ManualRemove(h, n)
      PROVE  JInv' /\ WInv'
  <2>. DEFINE q == [pc |-> "remote", num |-> n, id |-> 0]
  <2>1. q.pc # "joined" /\ host' = [host EXCEPT ![h] = q]
    BY <1>4 DEF ManualRemove
  <2>2. host[h].pc = "out" /\ UNCHANGED <<worker, request, placed>>
    BY <1>4 DEF ManualRemove, Start
  <2>. HIDE DEF q
  <2>. QED  BY <2>1, <2>2, HostMoves
<1>9. CASE ManualAdd(h) \/ ManualAddFails(h)
  <2>1. host[h].pc = "remote" /\ UNCHANGED <<worker, request, placed>>
    BY <1>9 DEF ManualAdd, ManualAddFails
  <2>. DEFINE next == [host[h] EXCEPT !.pc = "register"]
  <2>2. next.pc = "register" /\ Out.pc # "joined"
    BY <1>0 DEF Out
  <2>3. host' = [host EXCEPT ![h] = next] \/ host' = [host EXCEPT ![h] = Out]
    BY <1>0, <1>9 DEF ManualAdd, ManualAddFails
  <2>. HIDE DEF next
  <2>. QED  BY <2>1, <2>2, <2>3, HostMoves
<1>5. CASE GiveUp(h)
  <2>1. \A g \in Hosts : g # h => host'[g] = host[g]
    BY <1>0, <1>5 DEF GiveUp
  <2>2. host[h].pc = "waiting" /\ host'[h].pc = "command" /\ UNCHANGED <<worker, placed>>
    BY <1>0, <1>5 DEF GiveUp
  <2>3. JInv'
    BY <2>1, <2>2, HoldersKept DEF Rows
  <2>4. \A s \in Slots : /\ request'[s].host = request[s].host
                         /\ request'[s].awaited => request[s].awaited /\ request[s].host # h
    BY <1>5 DEF GiveUp, TInv, TypeOK
  <2>5. WInv'
    BY <1>0, <2>1, <2>4 DEF WInv
  <2>. QED  BY <2>3, <2>5
<1>6. CASE RegisterWorker(h)
  <2>1. host[h].pc = "register" /\ UNCHANGED <<request, placed>>
    BY <1>6 DEF RegisterWorker
  <2>2. CASE ~up \/ host[h].num \in TakenNames
    <3>1. Out.pc # "joined"
      BY DEF Out
    <3>. QED  BY <1>6, <2>1, <2>2, <3>1, HostMoves DEF RegisterWorker
  <2>3. CASE up /\ host[h].num \notin TakenNames
    <3>. DEFINE i == NextWorker
    <3>1. /\ i \in WorkerId /\ i \notin Rows
          /\ worker' = [worker EXCEPT ![i] = NewWorker(host[h].num, h)]
          /\ host' = [host EXCEPT ![h] = [pc |-> "joined", num |-> 0, id |-> i]]
      BY <1>6, <2>3, NextWorkerIsFree DEF RegisterWorker, Rows
    <3>2. host[h].num # -1
      BY <1>0, <2>1, BoundsAssumption DEF InFlight, Names
    <3>3. /\ worker'[i].name # -1 /\ worker'[i].host = h /\ worker'[i].seen = "never"
          /\ \A w \in WorkerId \ {i} : worker'[w] = worker[w]
      BY <1>0, <3>1, <3>2 DEF NewWorker
    <3>4. /\ host'[h].pc = "joined" /\ host'[h].id = i
          /\ \A g \in Hosts \ {h} : host'[g] = host[g]
      BY <1>0, <3>1
    <3>. HIDE DEF i
    <3>5. \A w \in Rows : w \in Rows' /\ worker'[w].host = worker[w].host
      BY <3>1, <3>3 DEF Rows
    <3>6. i \in Rows'
      BY <3>1, <3>3 DEF Rows
    <3>7. JInv'
      BY <2>1, <3>3, <3>4, <3>5, <3>6, HoldersKept
    <3>8. WInv'
      BY <1>0, <2>1, <3>4 DEF WInv
    <3>. QED  BY <3>7, <3>8
  <2>. QED  BY <2>2, <2>3
<1>7. CASE Heartbeat(h)
  <2>. DEFINE w == host[h].id
  <2>1. /\ host[h].pc = "joined" /\ w \in Rows
        /\ worker' = [worker EXCEPT ![w].seen = "recent"]
        /\ UNCHANGED <<host, request, placed>>
    BY <1>7 DEF Heartbeat, Authenticated, HeardFrom
  <2>2. Holds(w)
    BY <2>1 DEF Holds, JInv
  <2>3. \A v \in WorkerId : /\ worker'[v].name = worker[v].name /\ worker'[v].host = worker[v].host
                            /\ v # w => worker'[v].seen = worker[v].seen
    BY <1>0, <2>1
  <2>. HIDE DEF w
  <2>4. JInv'
    BY <2>1, <2>2, <2>3, HoldersKept DEF Rows
  <2>5. WInv'
    BY <2>1 DEF WInv
  <2>. QED  BY <2>4, <2>5
<1>8. ASSUME NEW s \in Slots, Post(h, s)
      PROVE  JInv' /\ WInv'
  <2>1. PICK e \in EnrollmentId :
          request' = [request EXCEPT ![s] =
            [pc |-> "remove", host |-> h, enrollment |-> e, awaited |-> TRUE]]
    BY <1>8 DEF Post
  <2>2. /\ host[h].pc = "command" /\ request[s].pc = "idle"
        /\ host' = [host EXCEPT ![h].pc = "waiting"] /\ UNCHANGED <<worker, placed>>
    BY <1>8 DEF Post
  <2>3. host'[h].pc = "waiting" /\ \A g \in Hosts \ {h} : host'[g] = host[g]
    BY <1>0, <2>2
  <2>4. JInv'
    BY <2>2, <2>3, HoldersKept DEF Rows
  <2>5. \A r \in Slots \ {s} : request'[r] = request[r]
    BY <2>1 DEF TInv, TypeOK
  <2>6. request'[s].host = h
    BY <2>1 DEF TInv, TypeOK
  <2>7. \A r \in Slots : request[r].awaited => request[r].host # h
    BY <2>2 DEF WInv
  <2>8. WInv'
    BY <1>0, <2>3, <2>5, <2>6, <2>7 DEF WInv
  <2>. QED  BY <2>4, <2>8
<1>. QED  BY <1>1, <1>2, <1>3, <1>4, <1>5, <1>6, <1>7, <1>8, <1>9 DEF HostStep

\* Every step leaves a gateway with a worker whose VPS holds its token.
LEMMA StepHolds == TInv /\ JInv /\ WInv /\ [Next]_vars => JInv' /\ WInv'
<1>. SUFFICES ASSUME TInv, JInv, WInv, [Next]_vars
              PROVE  JInv' /\ WInv'
  OBVIOUS
<1>0. /\ host \in [Hosts -> [pc : HostPc, num : Nat, id : {0} \cup WorkerId]]
      /\ worker \in [WorkerId -> [name : {-1, Local} \cup Names, host : Hosts \cup {NoHost},
                                  enabled : BOOLEAN, seen : Seen]]
      /\ request \in [Slots -> [pc : {"idle", "remove", "add", "insert"},
                                host : Hosts \cup {NoHost},
                                enrollment : {0} \cup EnrollmentId, awaited : BOOLEAN]]
  BY DEF TInv, TypeOK
<1>1. CASE Boot
  <2>1. UNCHANGED <<host, request, placed>>
    BY <1>1 DEF Boot
  <2>2. \A w \in WorkerId : /\ worker[w].name # -1 => worker'[w].name = worker[w].name
                                                      /\ worker'[w].host = worker[w].host
                            /\ worker'[w].seen # "never" => worker[w].seen # "never"
    <3>1. CASE Local \in TakenNames
      BY <1>0, <1>1, <3>1 DEF Boot
    <3>2. CASE Local \notin TakenNames
      BY <1>0, <1>1, <3>2, NextWorkerIsFree DEF Boot
    <3>. QED  BY <3>1, <3>2
  <2>3. JInv'
    BY <2>1, <2>2, HoldersKept DEF Rows
  <2>. QED  BY <2>1, <2>3 DEF WInv
<1>2. CASE Crash
  <2>1. \A h \in Hosts : host'[h] = host[h] \/ (host'[h] = Out /\ host[h].pc # "joined")
    BY <1>2 DEF Crash
  <2>2. Out.pc = "out" /\ ~NoRequest.awaited
    BY DEF Out, NoRequest
  <2>3. UNCHANGED <<worker, placed>>
    BY <1>2 DEF Crash
  <2>4. JInv'
    BY <2>1, <2>2, <2>3, HoldersKept DEF Rows
  <2>5. WInv'
    BY <1>2, <2>2 DEF Crash, WInv
  <2>. QED  BY <2>4, <2>5
<1>3. ASSUME NEW h \in Hosts, HostStep(h)
      PROVE  JInv' /\ WInv'
  BY <1>3, HostStepHolds
<1>4. ASSUME NEW s \in Slots, RequestStep(s)
      PROVE  JInv' /\ WInv'
  <2>1. CASE RemoveRemote(s) \/ AddRemote(s)
    <3>1. UNCHANGED <<host, worker, placed>>
      BY <2>1 DEF RemoveRemote, AddRemote
    <3>2. JInv'
      BY <3>1, HoldersKept DEF Rows
    <3>3. \A r \in Slots : request'[r].host = request[r].host
                           /\ request'[r].awaited = request[r].awaited
      BY <1>0, <2>1 DEF RemoveRemote, AddRemote
    <3>4. WInv'
      BY <3>1, <3>3 DEF WInv
    <3>. QED  BY <3>2, <3>4
  <2>2. CASE AddRemoteFails(s) \/ InsertRefused(s)
    BY <2>2, FinishOut DEF AddRemoteFails, InsertRefused
  <2>3. CASE Insert(s)
    BY <2>3, InsertHolds
  <2>. QED  BY <1>4, <2>1, <2>2, <2>3 DEF RequestStep
<1>5. ASSUME NEW e \in EnrollmentId, Expire(e)
      PROVE  JInv' /\ WInv'
  <2>1. UNCHANGED <<host, worker, request, placed>>
    BY <1>5 DEF Expire
  <2>. QED  BY <2>1, HoldersKept DEF WInv, Rows
<1>6. ASSUME NEW w \in WorkerId, Quiet(w)
      PROVE  JInv' /\ WInv'
  <2>1. UNCHANGED <<host, request, placed>> /\ worker[w].seen = "recent"
    BY <1>6 DEF Quiet
  <2>2. \A v \in WorkerId : /\ worker'[v].name = worker[v].name /\ worker'[v].host = worker[v].host
                            /\ v # w => worker'[v].seen = worker[v].seen
    BY <1>0, <1>6 DEF Quiet
  <2>3. JInv'
    BY <2>1, <2>2, HoldersKept DEF Rows
  <2>. QED  BY <2>1, <2>3 DEF WInv
<1>7. ASSUME NEW w \in WorkerId, NEW asked \in BOOLEAN, Place(w, asked)
      PROVE  JInv' /\ WInv'
  <2>1. EffectiveStatus(w) = "online"
    BY <1>7 DEF Place, Resolved, Online
  <2>2. worker[w].seen = "recent"
    BY <2>1 DEF EffectiveStatus
  <2>3. Holds(w)
    BY <2>2 DEF JInv
  <2>4. UNCHANGED <<host, worker, request>> /\ placed' = placed \cup {w}
    BY <1>7 DEF Place
  <2>5. JInv'
    BY <2>3, <2>4, HoldersKept DEF Rows
  <2>. QED  BY <2>4, <2>5 DEF WInv
<1>8. CASE UNCHANGED vars
  <2>1. UNCHANGED <<host, worker, request, placed>>
    BY <1>8 DEF vars
  <2>. QED  BY <2>1, HoldersKept DEF WInv, Rows
<1>. QED  BY <1>1, <1>2, <1>3, <1>4, <1>5, <1>6, <1>7, <1>8 DEF Next

\* resolve_worker_for_gateway looks at last_seen_at only, and still puts gateways
\* on no worker but one whose own VPS got its token: an answer that is lost, or
\* reaches a VPS that gave up, never leads to a heartbeat.
THEOREM GatewaysOnJoinedWorkers == Spec => []PlacedOnJoined
<1>1. Init => JInv /\ WInv
  BY DEF Init, JInv, WInv, NoWorker, NoRequest, Out
<1>2. JInv => PlacedOnJoined
  BY DEF JInv, Holds, PlacedOnJoined
<1>. QED  BY <1>1, <1>2, StepHolds, Typed, PTL DEF Spec

-----------------------------------------------------------------------------
(* One VPS at a time: offers can be completed, remotes lead to their worker *)

\* At most one VPS is under way.  It asks for a new row only when no offer is
\* open, and neither refreshes a row nor registers by hand.
OneBusy ==
    /\ \A g, h \in Busy : g = h
    /\ \A h \in Hosts :
         /\ host[h].pc \notin {"refresh", "remote", "register"}
         /\ host[h].pc = "create" => Active = {} /\ host[h].num \notin TakenNames

\* At most one completion runs: its VPS waits for it, its enrollment is still
\* open, and once incus remote add is through the remote leads to that VPS.
OneCompletion ==
    /\ \A r, s \in Slots : request[r].pc # "idle" /\ request[s].pc # "idle" => r = s
    /\ \A s \in Slots : request[s].pc # "idle" =>
         /\ host[request[s].host].pc = "waiting"
         /\ request[s].enrollment \in Active
         /\ request[s].pc = "insert" => remote[NameOf(s)] = request[s].host

\* At most one offer is open, and no worker has its name.
OneOffer ==
    /\ \A d, e \in Active : d = e
    /\ \A e \in Active : enrollment[e].name \in Names \ TakenNames /\ enrollment[e].stored

\* The remote of every worker but the local one leads to the worker's VPS.
RemotesLead ==
    \A w \in Rows : worker[w].name # Local => remote[worker[w].name] = worker[w].host

OInv == orderly => OneBusy /\ OneCompletion /\ OneOffer /\ RemotesLead

\* While VPSes are enrolled one at a time, one starts only when none is under way.
LEMMA StartsAlone ==
    ASSUME OneBusy, orderly, NEW h \in Hosts, Start(h)
    PROVE  Busy = {}
<1>. SUFFICES ASSUME Busy # {}
              PROVE  FALSE
  OBVIOUS
<1>1. PICK g \in Busy : Busy = {g}
  BY DEF OneBusy
<1>2. Cardinality(Busy) = 1
  BY <1>1, FS_Singleton
<1>. QED  BY <1>2 DEF Start

\* While VPSes are enrolled one at a time, no script is run a second time and no
\* open offer runs out of time.
LEMMA NoSecondTry ==
    ASSUME orderly
    PROVE  ~Fault("giveup") /\ ~Fault("expire")
BY DEF Fault

\* What the invariant says of a step that leaves the tables and the remotes alone.
LEMMA TablesKept ==
    ASSUME worker' = worker, enrollment' = enrollment, remote' = remote, OneOffer, RemotesLead
    PROVE  /\ Rows' = Rows /\ TakenNames' = TakenNames /\ Active' = Active
           /\ OneOffer' /\ RemotesLead'
BY DEF Rows, TakenNames, Active, OneOffer, RemotesLead

\* A step that leaves the worker's names and hosts alone.
LEMMA WorkersKept ==
    ASSUME \A w \in WorkerId : worker'[w].name = worker[w].name /\ worker'[w].host = worker[w].host
    PROVE  /\ Rows' = Rows /\ TakenNames' = TakenNames
           /\ \A w \in Rows : worker'[w].name = worker[w].name /\ worker'[w].host = worker[w].host
<1>1. Rows' = Rows
  BY DEF Rows
<1>2. \A w \in Rows : worker'[w].name = worker[w].name /\ worker'[w].host = worker[w].host
  BY DEF Rows
<1>. QED  BY <1>1, <1>2 DEF TakenNames

\* A step that leaves names, hosts of workers and everything else alone.
LEMMA OnlyTimeStep ==
    ASSUME OInv, UNCHANGED <<enrollment, remote, host, request, orderly>>,
           \A w \in WorkerId : worker'[w].name = worker[w].name /\ worker'[w].host = worker[w].host
    PROVE  OInv'
BY WorkersKept DEF OInv, OneBusy, OneCompletion, OneOffer, RemotesLead, Busy, Active, NameOf

\* The steps of a VPS and of the operator who enrolls it.
LEMMA OrderlyHostStep ==
    ASSUME TInv, OneBusy, OneCompletion, OneOffer, RemotesLead, orderly,
           NEW h \in Hosts, HostStep(h)
    PROVE  OInv'
<1>. DEFINE O == OneBusy' /\ OneCompletion' /\ OneOffer' /\ RemotesLead'
<1>0. /\ worker \in [WorkerId -> [name : {-1, Local} \cup Names, host : Hosts \cup {NoHost},
                                  enabled : BOOLEAN, seen : Seen]]
      /\ enrollment \in [EnrollmentId -> [state : EnrollmentState, name : {Local} \cup Names,
                                          token : 0..MaxToken, stored : BOOLEAN]]
      /\ host \in [Hosts -> [pc : HostPc, num : Nat, id : {0} \cup WorkerId]]
      /\ request \in [Slots -> [pc : {"idle", "remove", "add", "insert"}, host : Hosts \cup {NoHost},
                                enrollment : {0} \cup EnrollmentId, awaited : BOOLEAN]]
      /\ InFlight
  BY DEF TInv, TypeOK
<1>1. CASE Click(h)
  <2>1. Busy = {}
    BY <1>1, StartsAlone DEF Click
  <2>2. \A s \in Slots : request[s].pc = "idle"
    BY <1>0, <2>1 DEF OneCompletion, InFlight, Busy
  <2>3. /\ Active' = Active /\ TakenNames' = TakenNames /\ OneOffer' /\ RemotesLead'
    BY <1>1, TablesKept DEF Click
  <2>4. OneCompletion'
    BY <1>1, <2>2 DEF Click, OneCompletion
  <2>5. \A g \in Hosts : g # h => host'[g] = host[g] /\ g \notin Busy'
    BY <1>0, <1>1, <2>1 DEF Click, Busy
  <2>6. /\ host'[h].pc \in {"command", "create"}
        /\ host'[h].pc = "create" => Active = {} /\ host'[h].num \notin TakenNames
    <3>1. \A e \in Active : enrollment[e].stored
      BY DEF OneOffer
    <3>. QED  BY <1>0, <1>1, <3>1 DEF Click, IsNextName, IsFreeName
  <2>7. OneBusy'
    <3>1. \A g \in Busy' : g = h
      BY <2>5 DEF Busy
    <3>2. \A g \in Hosts \ {h} : host'[g].pc \in {"out", "joined"}
      BY <2>1, <2>5 DEF Busy
    <3>. QED  BY <2>3, <2>6, <3>1, <3>2 DEF OneBusy
  <2>. QED  BY <2>3, <2>4, <2>7 DEF OInv
<1>2. CASE PreauthFails(h) \/ PostRefused(h)
  <2>1. /\ host[h].pc \in {"create", "refresh", "command"} /\ host' = [host EXCEPT ![h] = Out]
        /\ UNCHANGED <<worker, enrollment, remote, request, orderly>>
    BY <1>2 DEF PreauthFails, PostRefused
  <2>2. /\ Active' = Active /\ TakenNames' = TakenNames /\ OneOffer' /\ RemotesLead'
    BY <2>1, TablesKept
  <2>3. OneBusy'
    BY <1>0, <2>1, <2>2 DEF OneBusy, Busy, Out
  <2>4. OneCompletion'
    BY <1>0, <2>1, <2>2 DEF OneCompletion, InFlight, NameOf
  <2>. QED  BY <2>2, <2>3, <2>4 DEF OInv
<1>3. CASE WriteEnrollment(h)
  <2>1. host[h].pc = "create"
    BY <1>3 DEF WriteEnrollment, OneBusy
  <2>. DEFINE n == host[h].num
              row == [state |-> "active", name |-> n, token |-> minted + 1, stored |-> TRUE]
  <2>2. /\ Active = {} /\ n \notin TakenNames /\ n \in Names
        /\ NextEnrollment \in EnrollmentId /\ enrollment[NextEnrollment].state = "absent"
        /\ enrollment' = [enrollment EXCEPT ![NextEnrollment] = row]
        /\ host' = [host EXCEPT ![h] = [pc |-> "command", num |-> minted + 1, id |-> 0]]
        /\ UNCHANGED <<worker, remote, request>>
    BY <1>0, <1>3, <2>1, NextEnrollmentIsFree DEF WriteEnrollment, OneBusy, InFlight
  <2>3. Active' = {NextEnrollment} /\ enrollment'[NextEnrollment] = row
    BY <1>0, <2>2 DEF Active
  <2>4. Rows' = Rows /\ TakenNames' = TakenNames
    BY <2>2 DEF Rows, TakenNames
  <2>5. OneOffer'
    BY <2>2, <2>3, <2>4 DEF OneOffer
  <2>6. RemotesLead'
    BY <2>2, <2>4 DEF RemotesLead
  <2>7. Busy' = Busy /\ \A g \in Hosts : host'[g].pc \in {host[g].pc, "command"}
                          /\ (g # h => host'[g] = host[g])
    BY <1>0, <2>1, <2>2 DEF Busy
  <2>8. OneBusy'
    <3>1. \A g \in Hosts \ {h} : host[g].pc # "create"
      BY <2>1 DEF OneBusy, Busy
    <3>2. host'[h].pc = "command"
      BY <1>0, <2>2
    <3>. QED  BY <2>7, <3>1, <3>2 DEF OneBusy
  <2>9. \A s \in Slots : request[s].pc = "idle"
    BY <2>2 DEF OneCompletion
  <2>10. OneCompletion'
    BY <2>2, <2>9 DEF OneCompletion
  <2>. QED  BY <2>5, <2>6, <2>8, <2>10 DEF OInv
<1>4. CASE GiveUp(h)
  BY <1>4, NoSecondTry DEF GiveUp
<1>5. CASE RegisterWorker(h)
  BY <1>5 DEF RegisterWorker, OneBusy
<1>9. CASE ManualAdd(h) \/ ManualAddFails(h)
  BY <1>9 DEF ManualAdd, ManualAddFails, OneBusy
<1>6. CASE Heartbeat(h)
  BY <1>0, <1>6, OnlyTimeStep DEF Heartbeat, HeardFrom, OInv
<1>7. ASSUME NEW s \in Slots, Post(h, s)
      PROVE  OInv'
  <2>1. PICK e \in EnrollmentId :
          /\ MayComplete(e, host[h].num)
          /\ request' = [request EXCEPT ![s] =
               [pc |-> "remove", host |-> h, enrollment |-> e, awaited |-> TRUE]]
    BY <1>7 DEF Post
  <2>2. /\ host[h].pc = "command" /\ host' = [host EXCEPT ![h].pc = "waiting"]
        /\ UNCHANGED <<worker, enrollment, remote>> /\ e \in Active
    BY <1>7, <2>1 DEF Post, MayComplete, Active
  <2>3. /\ Active' = Active /\ TakenNames' = TakenNames /\ OneOffer' /\ RemotesLead'
    BY <2>2, TablesKept
  <2>4. \A r \in Slots : request[r].pc = "idle"
    <3>1. ASSUME NEW r \in Slots, request[r].pc # "idle"
          PROVE  FALSE
      <4>1. host[request[r].host].pc = "waiting" /\ request[r].host \in Hosts
        BY <1>0, <3>1 DEF OneCompletion, InFlight
      <4>2. request[r].host \in Busy /\ h \in Busy
        BY <2>2, <4>1 DEF Busy
      <4>. QED  BY <2>2, <4>1, <4>2 DEF OneBusy
    <3>. QED  BY <3>1
  <2>5. OneCompletion'
    <3>1. \A r \in Slots : request'[r].pc # "idle" => r = s
      BY <1>0, <2>1, <2>4
    <3>2. /\ request'[s].host = h /\ request'[s].enrollment = e /\ request'[s].pc = "remove"
          /\ host'[h].pc = "waiting"
      BY <1>0, <2>1, <2>2
    <3>. QED  BY <2>2, <2>3, <3>1, <3>2 DEF OneCompletion
  <2>6. Busy' = Busy /\ \A g \in Hosts : host'[g].pc \in {host[g].pc, "waiting"}
                          /\ host'[g].num = host[g].num
    BY <1>0, <2>2 DEF Busy
  <2>7. OneBusy'
    BY <2>3, <2>6 DEF OneBusy
  <2>. QED  BY <2>3, <2>5, <2>7 DEF OInv
<1>8. ASSUME NEW n \in ManualNames, ManualRemove(h, n)
      PROVE  OInv'
  BY <1>8 DEF ManualRemove
<1>. QED  BY <1>1, <1>2, <1>3, <1>4, <1>5, <1>6, <1>7, <1>8, <1>9 DEF HostStep

\* The end of the one completion that runs.
LEMMA FinishAlone ==
    ASSUME TInv, OneBusy, OneCompletion, NEW s \in Slots, request[s].pc # "idle",
           NEW answer, answer.pc \in {"out", "joined"}, Finish(s, answer),
           \A h \in Hosts : host[h].pc # "create"
    PROVE  /\ OneBusy' /\ \A r \in Slots : request'[r].pc = "idle"
<1>0. /\ host \in [Hosts -> [pc : HostPc, num : Nat, id : {0} \cup WorkerId]]
      /\ request \in [Slots -> [pc : {"idle", "remove", "add", "insert"}, host : Hosts \cup {NoHost},
                                enrollment : {0} \cup EnrollmentId, awaited : BOOLEAN]]
      /\ request[s].host \in Hosts
  BY DEF TInv, TypeOK, InFlight
<1>1. \A r \in Slots : request'[r].pc = "idle"
  BY <1>0 DEF Finish, OneCompletion, NoRequest
<1>2. \A h \in Hosts : host'[h].pc \in {host[h].pc, "out", "joined"}
  BY <1>0 DEF Finish
<1>3. Busy' \subseteq Busy
  BY <1>2 DEF Busy
<1>4. OneBusy'
  BY <1>2, <1>3 DEF OneBusy
<1>. QED  BY <1>1, <1>4

\* The steps of a completion.
LEMMA OrderlyRequestStep ==
    ASSUME TInv, OneBusy, OneCompletion, OneOffer, RemotesLead, orderly,
           NEW s \in Slots, RequestStep(s)
    PROVE  OInv'
<1>. DEFINE n == NameOf(s)
            e == request[s].enrollment
<1>0. /\ worker \in [WorkerId -> [name : {-1, Local} \cup Names, host : Hosts \cup {NoHost},
                                  enabled : BOOLEAN, seen : Seen]]
      /\ enrollment \in [EnrollmentId -> [state : EnrollmentState, name : {Local} \cup Names,
                                          token : 0..MaxToken, stored : BOOLEAN]]
      /\ remote \in [Names -> Hosts \cup {NoHost}]
      /\ request \in [Slots -> [pc : {"idle", "remove", "add", "insert"}, host : Hosts \cup {NoHost},
                                enrollment : {0} \cup EnrollmentId, awaited : BOOLEAN]]
  BY DEF TInv, TypeOK
<1>1. request[s].pc # "idle"
  BY DEF RequestStep, RemoveRemote, AddRemote, AddRemoteFails, Insert, InsertRefused
<1>2. /\ e \in Active /\ e \in EnrollmentId /\ n = enrollment[e].name
      /\ n \in Names /\ n \notin TakenNames
      /\ host[request[s].host].pc = "waiting" /\ request[s].host \in Hosts
  BY <1>1 DEF OneCompletion, OneOffer, NameOf, TInv, InFlight
<1>3. \A h \in Hosts : host[h].pc # "create"
  BY <1>2 DEF OneBusy
<1>4. \A r \in Slots \ {s} : request[r].pc = "idle"
  BY <1>1 DEF OneCompletion
<1>5. Out.pc = "out"
  BY DEF Out
<1>. HIDE DEF n, e
<1>6. ASSUME UNCHANGED <<worker, enrollment>>,
             \A k \in Names \ {n} : remote'[k] = remote[k]
      PROVE  /\ Active' = Active /\ TakenNames' = TakenNames /\ OneOffer' /\ RemotesLead'
  <2>1. Active' = Active /\ Rows' = Rows /\ TakenNames' = TakenNames
    BY <1>6 DEF Active, Rows, TakenNames
  <2>2. OneOffer'
    BY <1>6, <2>1 DEF OneOffer
  <2>3. ASSUME NEW w \in Rows, worker[w].name # Local
        PROVE  remote'[worker[w].name] = worker[w].host
    <3>1. worker[w].name \in Names \ {n}
      BY <1>0, <1>2, <2>3 DEF Rows, TakenNames
    <3>. QED  BY <1>6, <2>3, <3>1 DEF RemotesLead
  <2>4. RemotesLead'
    BY <1>6, <2>1, <2>3 DEF RemotesLead
  <2>. QED  BY <2>1, <2>2, <2>4
<1>7. ASSUME UNCHANGED <<worker, enrollment, host>>, NEW k, NEW pc,
             remote' = [remote EXCEPT ![n] = k], request' = [request EXCEPT ![s].pc = pc],
             pc = "add" \/ (pc = "insert" /\ k = request[s].host)
      PROVE  OInv'
  <2>1. /\ Active' = Active /\ TakenNames' = TakenNames /\ OneOffer' /\ RemotesLead'
    BY <1>0, <1>6, <1>7
  <2>2. OneBusy'
    BY <1>7, <2>1 DEF OneBusy, Busy
  <2>3. \A r \in Slots : /\ request'[r].host = request[r].host
                         /\ request'[r].enrollment = request[r].enrollment
                         /\ r # s => request'[r].pc = "idle"
    BY <1>0, <1>4, <1>7
  <2>4. request'[s].pc = pc /\ remote'[n] = k /\ NameOf(s)' = n
    BY <1>0, <1>2, <1>7, <2>3 DEF NameOf, n
  <2>5. OneCompletion'
    BY <1>1, <1>2, <1>7, <2>1, <2>3, <2>4 DEF OneCompletion, e
  <2>. QED  BY <2>1, <2>2, <2>5 DEF OInv
<1>8. CASE RemoveRemote(s)
  BY <1>7, <1>8 DEF RemoveRemote, n
<1>9. CASE AddRemote(s)
  BY <1>7, <1>9 DEF AddRemote, n
<1>10. CASE AddRemoteFails(s)
  <2>1. \A k \in Names \ {n} : remote'[k] = remote[k]
    BY <1>0, <1>10 DEF AddRemoteFails, n
  <2>2. /\ TakenNames' = TakenNames /\ OneOffer' /\ RemotesLead'
    BY <1>6, <1>10, <2>1 DEF AddRemoteFails
  <2>3. OneBusy' /\ \A r \in Slots : request'[r].pc = "idle"
    BY <1>1, <1>3, <1>5, <1>10, FinishAlone DEF AddRemoteFails
  <2>. QED  BY <2>2, <2>3 DEF OInv, OneCompletion
<1>11. CASE Insert(s)
  <2>. DEFINE Joined == [pc |-> "joined", num |-> 0, id |-> NextWorker]
  <2>1. /\ NextWorker \in WorkerId /\ worker[NextWorker].name = -1
        /\ worker' = [worker EXCEPT ![NextWorker] = NewWorker(n, request[s].host)]
        /\ enrollment' = [enrollment EXCEPT ![e].state = "used"]
        /\ Finish(s, Joined) \/ Finish(s, Out)
        /\ remote' = remote /\ remote[n] = request[s].host
    BY <1>11, NextWorkerIsFree DEF Insert, OneCompletion, n, e
  <2>2. Joined.pc = "joined"
    OBVIOUS
  <2>. HIDE DEF Joined
  <2>3. OneBusy' /\ \A r \in Slots : request'[r].pc = "idle"
    BY <1>1, <1>3, <1>5, <2>1, <2>2, FinishAlone
  <2>4. Active' = {}
    BY <1>0, <1>2, <2>1 DEF Active, OneOffer
  <2>5. OneOffer'
    BY <2>4 DEF OneOffer
  <2>6. RemotesLead'
    <3>1. \A w \in WorkerId : worker'[w] = IF w = NextWorker THEN NewWorker(n, request[s].host)
                                           ELSE worker[w]
      BY <1>0, <2>1
    <3>. QED  BY <2>1, <3>1 DEF RemotesLead, Rows, NewWorker
  <2>. QED  BY <2>3, <2>5, <2>6 DEF OInv, OneCompletion
<1>12. CASE InsertRefused(s)
  BY <1>2, <1>12 DEF InsertRefused, n
<1>. QED  BY <1>8, <1>9, <1>10, <1>11, <1>12 DEF RequestStep

\* How operators enroll does not change.
LEMMA OrderlyStays == [Next]_vars => UNCHANGED orderly
<1>1. ASSUME NEW h \in Hosts, HostStep(h)
      PROVE  UNCHANGED orderly
  BY <1>1 DEF HostStep, Click, PreauthFails, WriteEnrollment, PostRefused, GiveUp, RegisterWorker,
              Heartbeat, Post, ManualRemove, ManualAdd, ManualAddFails
<1>2. ASSUME NEW s \in Slots, RequestStep(s)
      PROVE  UNCHANGED orderly
  BY <1>2 DEF RequestStep, RemoveRemote, AddRemote, AddRemoteFails, Insert, InsertRefused
<1>. QED  BY <1>1, <1>2 DEF Next, vars, Boot, Crash, Expire, Quiet, Place

\* Every step keeps the enrollments in order.
LEMMA StepOrderly == TInv /\ OInv /\ [Next]_vars => OInv'
<1>. SUFFICES ASSUME TInv, OInv, [Next]_vars, orderly
              PROVE  OInv'
  BY OrderlyStays DEF OInv
<1>. USE DEF OInv
<1>0. /\ worker \in [WorkerId -> [name : {-1, Local} \cup Names, host : Hosts \cup {NoHost},
                                  enabled : BOOLEAN, seen : Seen]]
      /\ host \in [Hosts -> [pc : HostPc, num : Nat, id : {0} \cup WorkerId]]
      /\ \A k \in Names : k # Local
  BY BoundsAssumption DEF TInv, TypeOK, Names, Local
<1>1. CASE Boot
  <2>1. CASE Local \in TakenNames
    BY <1>0, <1>1, <2>1, OnlyTimeStep DEF Boot
  <2>2. CASE Local \notin TakenNames
    <3>1. /\ NextWorker \in WorkerId /\ worker[NextWorker].name = -1
          /\ worker' = [worker EXCEPT ![NextWorker] =
               [name |-> Local, host |-> NoHost, enabled |-> FALSE, seen |-> "never"]]
          /\ UNCHANGED <<enrollment, remote, host, request>>
      BY <1>1, <2>2, NextWorkerIsFree DEF Boot
    <3>2. /\ Active' = Active /\ Busy' = Busy
          /\ \A w \in WorkerId : w # NextWorker => worker'[w] = worker[w]
          /\ worker'[NextWorker].name = Local
      BY <1>0, <3>1 DEF Active, Busy
    <3>3. Rows' = Rows \cup {NextWorker} /\ NextWorker \notin Rows
      BY <3>1, <3>2 DEF Rows, Local
    <3>4. TakenNames' = TakenNames \cup {Local}
      BY <3>2, <3>3 DEF TakenNames, Rows
    <3>5. OneBusy'
      BY <1>0, <3>1, <3>2, <3>4 DEF OneBusy, TInv, InFlight
    <3>6. OneCompletion'
      BY <3>1, <3>2 DEF OneCompletion, NameOf
    <3>7. OneOffer'
      BY <1>0, <3>1, <3>2, <3>4 DEF OneOffer
    <3>8. RemotesLead'
      BY <3>1, <3>2, <3>3 DEF RemotesLead, Rows
    <3>. QED  BY <3>5, <3>6, <3>7, <3>8
  <2>. QED  BY <2>1, <2>2
<1>2. CASE Crash
  <2>1. /\ Active' = Active /\ TakenNames' = TakenNames /\ OneOffer' /\ RemotesLead'
    BY <1>2, TablesKept DEF Crash
  <2>2. \A h \in Hosts : host'[h] \in {host[h], Out}
    BY <1>2 DEF Crash
  <2>3. Busy' \subseteq Busy
    BY <2>2 DEF Busy, Out
  <2>4. OneBusy'
    BY <2>1, <2>2, <2>3 DEF OneBusy, Out
  <2>5. OneCompletion'
    BY <1>2 DEF Crash, OneCompletion, NoRequest
  <2>. QED  BY <2>1, <2>4, <2>5
<1>3. ASSUME NEW h \in Hosts, HostStep(h)
      PROVE  OInv'
  BY <1>3, OrderlyHostStep
<1>4. ASSUME NEW s \in Slots, RequestStep(s)
      PROVE  OInv'
  BY <1>4, OrderlyRequestStep
<1>5. ASSUME NEW e \in EnrollmentId, Expire(e)
      PROVE  OInv'
  BY <1>5, NoSecondTry DEF Expire, OneOffer
<1>6. ASSUME NEW w \in WorkerId, Quiet(w)
      PROVE  OInv'
  BY <1>0, <1>6, OnlyTimeStep DEF Quiet
<1>7. ASSUME NEW w \in WorkerId, NEW asked \in BOOLEAN, Place(w, asked)
      PROVE  OInv'
  BY <1>7, OnlyTimeStep DEF Place
<1>8. CASE UNCHANGED vars
  BY <1>8, OnlyTimeStep DEF vars
<1>. QED  BY <1>1, <1>2, <1>3, <1>4, <1>5, <1>6, <1>7, <1>8 DEF Next

\* Enrollments stay in order in every behaviour of the model.
LEMMA KeptOrderly == Spec => []OInv
<1>1. Init => OInv
  BY DEF Init, OInv, OneBusy, OneCompletion, OneOffer, RemotesLead, Busy, Active, Rows,
         NoEnrollment, NoWorker, NoRequest, Out
<1>. QED  BY <1>1, StepOrderly, Typed, PTL DEF Spec

\* Enrolled one at a time, a worker's remote leads to the worker's own VPS, for any
\* number of VPSes and of crashes, lost answers and failures of Headscale and incus.
THEOREM RemoteLeadsToWorker == Spec => []RemoteIsWorker
<1>1. OInv => RemoteIsWorker
  BY DEF OInv, RemotesLead, RemoteIsWorker
<1>. QED  BY <1>1, KeptOrderly, PTL

\* Enrolled one at a time, whoever is offered an enrollment can complete it: a
\* worker is inserted and its enrollment closed in one commit, so that no open
\* offer has a worker's name.
THEOREM OfferCanBeCompleted == Spec => []OfferUsable
<1>1. OInv => OfferUsable
  BY DEF OInv, OneOffer, OfferUsable
<1>. QED  BY <1>1, KeptOrderly, PTL

=============================================================================
