------------------------ MODULE EgressMetrics_proofs ------------------------
(***************************************************************************)
(* Proofs about EgressMetrics, for every value of its constants:            *)
(*   TypeCorrect         Spec => []TypeOK                                  *)
(*   AddressIsKept       Spec => []KnownKept                               *)
(*   NothingForeign      Spec => []ShownIsOwn                              *)
(*   FreshWhenBack       Spec => FreshAfterOutage                          *)
(*                                                                         *)
(* The properties speak of the two rows; what makes them true is what the   *)
(* collector carries from its reading of the rows to its commit.  IInv says  *)
(* how that copy and the rows, which age and may go meanwhile, agree.       *)
(***************************************************************************)
EXTENDS EgressMetrics, TLAPS

Busy == coll.pc # "idle"

\* The row with an address is the absence of one, or has one.
EgressRow ==
    /\ egress.ip = None => egress = NoEgress
    /\ latest.snap.ip # None => egress.ip # None
    /\ Busy => coll.age <= egress.age

\* The previous state that the collector compares with is that of the newest row, as
\* long as there is one; without an answer about Tailscale the links are not up; and
\* an address that is old when the collector is done with it was left alone because
\* nothing changed.
CarriedState ==
    /\ Busy /\ latest.some => coll.prev.some /\ coll.prev.state = latest.state
    /\ coll.pc \in {"health", "peers", "tailscale"} => coll.state.ts = "unknown"
    /\ coll.pc = "write" /\ IsOnline(coll.state) /\ coll.snap.age >= Cooldown
          => coll.prev.some /\ coll.prev.state = coll.state

\* Of an orderly gateway, the collector carries the address of the row with an
\* address, or one it has just looked up.
CarriedAddress ==
    orderly /\ Busy =>
       \/ coll.snap.ip = egress.ip
       \/ coll.pc = "write" /\ coll.snap.ip # None /\ coll.snap.age = 0

\* Of an orderly gateway, whatever has an address is the gateway's own.
Owned(snap) == snap.ip # None => snap.life = life

AllOwned ==
    orderly =>
       /\ status = "none" => latest = NoRow /\ egress = NoEgress
       /\ Owned(latest.snap) /\ Owned(egress)
       /\ Busy => status = "ready" /\ coll.life = life /\ Owned(coll.snap)

\* Without a failed lookup every country is that of its address.
Flagged ==
    faults = 0 =>
       /\ latest.snap.country = latest.snap.ip
       /\ egress.country = egress.ip
       /\ coll.snap.country = coll.snap.ip

IInv ==
    TypeOK /\ EgressRow /\ CarriedState /\ CarriedAddress /\ AllOwned /\ Flagged /\ KnownKept

-----------------------------------------------------------------------------
(* Ages and snapshots *)

\* Ages stay below the cap, and adding to an age never makes it smaller.
LEMMA OlderAge ==
    ASSUME NEW a \in Age, NEW n \in 0..Cooldown
    PROVE  Older(a, n) \in Age /\ Older(a, n) >= a /\ Older(a, n) >= n
  BY EgressAssumption DEF Older, Age, AgeCap

\* One tick: the age keeps up with a poll that gets one step older.
LEMMA OlderByOne ==
    ASSUME NEW a \in Age, NEW n \in 0..Cooldown, n < Cooldown, n <= a
    PROVE  n + 1 <= Older(a, 1)
  BY EgressAssumption DEF Older, Age, AgeCap

\* The absence of an address does not age.
LEMMA NoEgressType == NoEgress \in Snapshot /\ Aged(NoEgress) = NoEgress
  BY EgressAssumption DEF NoEgress, Snapshot, Aged, Older, Age, AgeCap

\* egress_snapshot_from_metric
LEMMA SnapshotOfType ==
    ASSUME NEW snap \in Snapshot
    PROVE  /\ SnapshotOf(snap) \in Snapshot
           /\ SnapshotOf(snap).ip = snap.ip
           /\ snap.ip # None => SnapshotOf(snap) = snap
           /\ snap.ip = None => SnapshotOf(snap) = NoEgress
  BY NoEgressType DEF SnapshotOf, NoEgress

\* A tick touches nothing but ages.
LEMMA AgedType ==
    ASSUME NEW snap \in Snapshot
    PROVE  /\ Aged(snap) \in Snapshot
           /\ Aged(snap).ip = snap.ip /\ Aged(snap).country = snap.country
           /\ Aged(snap).life = snap.life /\ Aged(snap).age = Older(snap.age, 1)
<1>1. 1 \in 0..Cooldown
  BY EgressAssumption
<1>2. snap.age \in Age
  BY DEF Snapshot
<1>3. Older(snap.age, 1) \in Age
  BY <1>1, <1>2, OlderAge
<1>. QED  BY <1>3 DEF Aged, Snapshot

\* merge_egress: the old address or the new one, as good as new; the country of an
\* address is kept right by an answer that names it.
LEMMA MergeType ==
    ASSUME NEW snap \in Snapshot, NEW ip \in Ips \cup {None}, NEW geo \in Ips \cup {None},
           NEW l \in 0..MaxLives
    PROVE  /\ Merge(snap, ip, geo, l) \in Snapshot
           /\ Merge(snap, ip, geo, l).age = 0
           /\ Merge(snap, ip, geo, l).ip = IF ip = None THEN snap.ip ELSE ip
           /\ Merge(snap, ip, geo, l).life = IF ip = None THEN snap.life ELSE l
           /\ geo = ip /\ snap.country = snap.ip
                 => Merge(snap, ip, geo, l).country = Merge(snap, ip, geo, l).ip
<1>1. 0 \in Age
  BY EgressAssumption DEF Age, AgeCap
<1>2. CountryFor(ip, snap, geo) \in Ips \cup {None}
  BY DEF CountryFor, Snapshot
<1>3. CASE ip = None
  BY <1>1, <1>3 DEF Merge, Snapshot
<1>4. CASE ip # None
  <2>1. Merge(snap, ip, geo, l)
          = [ip |-> ip, country |-> CountryFor(ip, snap, geo), age |-> 0, life |-> l]
    BY <1>4 DEF Merge
  <2>2. geo = ip /\ snap.country = snap.ip => CountryFor(ip, snap, geo) = ip
    BY <1>4 DEF CountryFor
  <2>. QED  BY <1>1, <1>2, <1>4, <2>1, <2>2 DEF Snapshot
<1>. QED  BY <1>3, <1>4

\* The row of a poll.
LEMMA NewRowType ==
    ASSUME TypeOK
    PROVE  /\ NewRow.some /\ NewRow.state = coll.state /\ NewRow.snap \in Snapshot
           /\ ~IsOnline(coll.state) => NewRow.snap = NoEgress
           /\ IsOnline(coll.state) =>
                 /\ NewRow.snap.ip = coll.snap.ip /\ NewRow.snap.country = coll.snap.country
                 /\ NewRow.snap.life = coll.snap.life
                 /\ NewRow.snap.age = Older(coll.snap.age, coll.age)
<1>1. coll.snap \in Snapshot /\ coll.snap.age \in Age /\ coll.age \in 0..Cooldown
  BY DEF TypeOK, Snapshot
<1>2. Older(coll.snap.age, coll.age) \in Age
  BY <1>1, OlderAge
<1>3. [coll.snap EXCEPT !.age = Older(@, coll.age)] \in Snapshot
  BY <1>1, <1>2 DEF Snapshot
<1>. QED  BY <1>1, <1>3, NoEgressType DEF NewRow, Snapshot

-----------------------------------------------------------------------------
(* The collector's steps keep IInv *)

\* The time and the two rows: what is carried is what the newest answers say.
LEMMA BeginKeeps == ASSUME IInv, CollectBegin PROVE IInv'
<1>. USE DEF CollectBegin, env, rows, Idle, NoPrevious, UnknownState
<1>1. egress \in Snapshot /\ latest.snap \in Snapshot /\ latest.state \in State
  BY DEF IInv, TypeOK
<1>2. Known \in Snapshot /\ Known.ip = egress.ip
  BY <1>1, SnapshotOfType DEF Known, IInv, EgressRow, NoEgress
<1>3. Known = egress \/ Known = NoEgress
  BY <1>1, SnapshotOfType DEF Known, IInv, EgressRow
<1>4. TypeOK'
  <2>1. coll'.state \in State
    BY <1>1 DEF State, Flag
  <2>2. [some |-> latest.some, state |-> latest.state] \in [some : BOOLEAN, state : State]
    BY <1>1 DEF IInv, TypeOK
  <2>3. 0 \in 0..Cooldown
    BY EgressAssumption
  <2>. QED  BY <1>2, <2>1, <2>2, <2>3 DEF IInv, TypeOK
<1>5. EgressRow'
  BY <1>1, EgressAssumption DEF IInv, EgressRow, Busy, Snapshot, Age, AgeCap
<1>6. CarriedState' /\ CarriedAddress'
  BY <1>2 DEF CarriedState, CarriedAddress, Busy
<1>7. AllOwned'
  BY <1>3 DEF IInv, AllOwned, Busy, Owned, NoEgress
<1>8. Flagged'
  BY <1>3 DEF IInv, Flagged, NoEgress
<1>. QED  BY <1>4, <1>5, <1>6, <1>7, <1>8 DEF IInv, KnownKept

\* An answer of the agent, or its silence, changes the state that the collector
\* carries, and never makes the links known to be up before Tailscale was asked.
LEMMA HearingKeeps ==
    ASSUME IInv, UNCHANGED <<env, rows, faults>>,
           NEW pc \in {"peers", "tailscale", "egress", "write"}, NEW state \in State,
           coll.pc \in {"health", "peers", "tailscale"},
           coll' = [coll EXCEPT !.pc = pc, !.state = state],
           pc # "egress" => state.ts \in {"unknown", "no"},
           pc \in {"peers", "tailscale"} => state.ts = "unknown"
    PROVE  IInv'
<1>. USE DEF env, rows
<1>1. TypeOK'
  BY DEF IInv, TypeOK
<1>2. EgressRow' /\ CarriedAddress' /\ AllOwned' /\ Flagged' /\ KnownKept'
  BY DEF IInv, TypeOK, EgressRow, CarriedAddress, AllOwned, Owned, Flagged, KnownKept, Busy
<1>3. CarriedState'
  BY DEF IInv, TypeOK, CarriedState, Busy, IsOnline
<1>. QED  BY <1>1, <1>2, <1>3 DEF IInv

LEMMA AnswersKeep ==
    ASSUME IInv, CollectHealth \/ CollectPeers \/ CollectTailscale \/ AgentSilent
    PROVE  IInv'
<1>. USE DEF State, Flag, Answers
<1>1. coll.state \in State /\ coll \in [pc : {"idle", "health", "peers", "tailscale", "egress", "write"},
          age : 0..Cooldown, life : 0..MaxLives, prev : [some : BOOLEAN, state : State],
          snap : Snapshot, state : State]
  BY DEF IInv, TypeOK
<1>2. coll.pc \in {"health", "peers", "tailscale"} => coll.state.ts = "unknown"
  BY DEF IInv, CarriedState
<1>3. CASE CollectHealth
  <2>1. PICK a \in {"yes", "no"} : coll' = [coll EXCEPT !.pc = "peers", !.state["exit"] = a]
    BY <1>3 DEF CollectHealth, Hears
  <2>2. coll' = [coll EXCEPT !.pc = "peers", !.state = [coll.state EXCEPT !.exit = a]]
    BY <1>1, <2>1
  <2>. QED  BY <1>1, <1>2, <1>3, <2>2, HearingKeeps DEF CollectHealth, Hears
<1>4. CASE CollectPeers
  <2>1. PICK a \in Answers : coll' = [coll EXCEPT !.pc = "tailscale", !.state["wg"] = a]
    BY <1>4 DEF CollectPeers, Hears
  <2>2. coll' = [coll EXCEPT !.pc = "tailscale", !.state = [coll.state EXCEPT !.wg = a]]
    BY <1>1, <2>1
  <2>. QED  BY <1>1, <1>2, <1>4, <2>2, HearingKeeps DEF CollectPeers, Hears
<1>5. CASE CollectTailscale
  <2>1. PICK a \in Answers : coll' = [coll EXCEPT !.pc = "egress", !.state["ts"] = a]
    BY <1>5 DEF CollectTailscale, Hears
  <2>2. coll' = [coll EXCEPT !.pc = "egress", !.state = [coll.state EXCEPT !.ts = a]]
    BY <1>1, <2>1
  <2>. QED  BY <1>1, <1>2, <1>5, <2>2, HearingKeeps DEF CollectTailscale, Hears
<1>6. CASE AgentSilent
  <2>1. PICK s \in {coll.state, [coll.state EXCEPT !.ts = "no", !.wg = "no"]} :
          coll' = [coll EXCEPT !.pc = "write", !.state = s]
    BY <1>6 DEF AgentSilent
  <2>2. s \in State /\ s.ts \in {"unknown", "no"}
    BY <1>1, <1>2, <1>6 DEF AgentSilent
  <2>. QED  BY <1>6, <2>1, <2>2, HearingKeeps DEF AgentSilent
<1>. QED  BY <1>3, <1>4, <1>5, <1>6

\* What the collector takes on from the lookup, if there is one: the address it knew
\* or the one that was found, as old as now; or nothing changes because nothing had to.
LEMMA EgressKeeps == ASSUME IInv, CollectEgress PROVE IInv'
<1>. USE DEF env, rows
<1>1. TypeOK /\ coll.pc = "egress" /\ UNCHANGED <<env, rows>>
  BY DEF IInv, CollectEgress
<1>2. CASE ShouldRefresh(coll.prev, coll.state, coll.snap)
  <2>1. PICK ip \in Ips \cup {None}, geo \in Ips \cup {None}, f \in {0, 1} :
          /\ coll' = [coll EXCEPT !.pc = "write", !.snap = Merge(coll.snap, ip, geo, coll.life)]
          /\ faults' = faults + f
          /\ f = 0 => geo = ip
          /\ f = 1 => faults < MaxFaults
    <3>1. PICK a \in LookupAnswers :
            /\ coll' = [coll EXCEPT !.pc = "write", !.snap = Merge(coll.snap, a[1], a[2], coll.life)]
            /\ faults' = faults + a[3]
      BY <1>2 DEF CollectEgress
    <3>2. ASSUME NEW ip \in Ips, a = <<ip, ip, 0>>
          PROVE  a[1] = ip /\ a[2] = ip /\ a[3] = 0
      BY <3>2
    <3>3. ASSUME NEW ip \in Ips \cup {None}, a = <<ip, None, 1>>
          PROVE  a[1] = ip /\ a[2] = None /\ a[3] = 1
      BY <3>3
    <3>4. a \in {<<ip, ip, 0>> : ip \in Ips} =>
            a[1] \in Ips \cup {None} /\ a[2] \in Ips \cup {None} /\ a[3] = 0 /\ a[2] = a[1]
      BY <3>2
    <3>5. a \in {<<ip, None, 1>> : ip \in Ips \cup {None}} =>
            a[1] \in Ips \cup {None} /\ a[2] \in Ips \cup {None} /\ a[3] = 1
      BY <3>3
    <3>6. /\ a[1] \in Ips \cup {None} /\ a[2] \in Ips \cup {None} /\ a[3] \in {0, 1}
          /\ a[3] = 0 => a[2] = a[1]
          /\ a[3] = 1 => faults < MaxFaults
      BY <3>4, <3>5 DEF LookupAnswers
    <3>. QED  BY <3>1, <3>6
  <2>. DEFINE m == Merge(coll.snap, ip, geo, coll.life)
  <2>3. /\ m \in Snapshot /\ m.age = 0
        /\ m.ip = IF ip = None THEN coll.snap.ip ELSE ip
        /\ m.life = IF ip = None THEN coll.snap.life ELSE coll.life
        /\ geo = ip /\ coll.snap.country = coll.snap.ip => m.country = m.ip
    <3>1. coll.snap \in Snapshot /\ coll.life \in 0..MaxLives
      BY <1>1 DEF TypeOK
    <3>. QED  BY <2>1, <3>1, MergeType
  <2>. HIDE DEF m
  <2>4. coll' = [coll EXCEPT !.pc = "write", !.snap = m]
    BY <2>1 DEF m
  <2>5. TypeOK'
    <3>1. faults' \in 0..MaxFaults
      BY <1>1, <2>1, EgressAssumption DEF TypeOK
    <3>. QED  BY <1>1, <2>3, <2>4, <3>1 DEF TypeOK
  <2>6. EgressRow' /\ CarriedState' /\ KnownKept'
    BY <1>1, <2>3, <2>4, EgressAssumption
       DEF IInv, TypeOK, EgressRow, CarriedState, KnownKept, Busy
  <2>7. coll'.snap = m /\ coll'.life = coll.life /\ coll'.pc = "write"
    BY <1>1, <2>4 DEF TypeOK
  <2>8. CarriedAddress'
    BY <1>1, <2>3, <2>7 DEF IInv, CarriedAddress, Busy
  <2>9. AllOwned'
    BY <1>1, <2>3, <2>7 DEF IInv, AllOwned, Owned, Busy
  <2>10. Flagged'
    <3>1. faults' = 0 => faults = 0 /\ geo = ip
      BY <1>1, <2>1 DEF TypeOK
    <3>. QED  BY <1>1, <2>3, <2>7, <3>1 DEF IInv, Flagged
  <2>. QED  BY <2>5, <2>6, <2>8, <2>9, <2>10 DEF IInv
<1>3. CASE ~ShouldRefresh(coll.prev, coll.state, coll.snap)
  <2>1. coll' = [coll EXCEPT !.pc = "write"] /\ UNCHANGED faults
    BY <1>3 DEF CollectEgress
  <2>2. CarriedState'
    BY <1>1, <1>3, <2>1 DEF IInv, TypeOK, CarriedState, Busy, ShouldRefresh
  <2>3. TypeOK'
    BY <1>1, <2>1 DEF TypeOK
  <2>4. coll'.snap = coll.snap /\ coll'.life = coll.life /\ coll'.age = coll.age
        /\ coll'.pc = "write"
    BY <1>1, <2>1 DEF TypeOK
  <2>5. EgressRow' /\ CarriedAddress' /\ KnownKept'
    BY <1>1, <2>4 DEF IInv, EgressRow, CarriedAddress, KnownKept, Busy
  <2>6. AllOwned' /\ Flagged'
    BY <1>1, <2>1, <2>4 DEF IInv, AllOwned, Owned, Flagged, Busy
  <2>. QED  BY <2>2, <2>3, <2>5, <2>6 DEF IInv
<1>. QED  BY <1>2, <1>3

\* The row of the poll and the newest row with an address agree: the collector had the
\* known address, or a new one that is newer.
LEMMA CommitKeeps == ASSUME IInv, CollectCommit PROVE IInv'
<1>. USE DEF env, Idle, NoPrevious, UnknownState
<1>1. TypeOK /\ coll.pc = "write" /\ UNCHANGED <<env, faults>> /\ coll' = Idle
      /\ latest' = NewRow /\ egress' = NewestEgress(NewRow.snap)
  BY DEF IInv, CollectCommit
<1>2. NewRow.snap \in Snapshot /\ egress \in Snapshot /\ coll.state \in State
  BY <1>1, NewRowType DEF TypeOK
<1>3. NewestEgress(NewRow.snap) = egress \/ NewestEgress(NewRow.snap) = NewRow.snap
  BY DEF NewestEgress
<1>4. TypeOK'
  <2>1. NewRow \in [some : BOOLEAN, state : State, snap : Snapshot]
    BY <1>1, <1>2, NewRowType DEF NewRow
  <2>2. coll' \in [pc : {"idle", "health", "peers", "tailscale", "egress", "write"},
          age : 0..Cooldown, life : 0..MaxLives, prev : [some : BOOLEAN, state : State],
          snap : Snapshot, state : State]
    BY <1>1, EgressAssumption, NoEgressType DEF State, Flag
  <2>. QED  BY <1>1, <1>2, <1>3, <2>1, <2>2 DEF TypeOK
<1>5. CarriedState' /\ CarriedAddress'
  BY <1>1 DEF CarriedState, CarriedAddress, Busy
<1>6. EgressRow'
  <2>1. NewRow.snap.age <= egress.age /\ NewRow.snap.ip # None => NewestEgress(NewRow.snap).ip # None
    BY DEF NewestEgress
  <2>2. egress.ip = None => egress.age = AgeCap /\ egress = NoEgress
    BY DEF IInv, EgressRow, NoEgress
  <2>3. NewRow.snap.age <= AgeCap
    BY <1>2 DEF Snapshot, Age
  <2>. QED  BY <1>1, <2>1, <2>2, <2>3 DEF EgressRow, NewestEgress, Busy
<1>7. AllOwned'
  <2>1. orderly => Owned(NewRow.snap) /\ status = "ready"
    BY <1>1, NewRowType DEF IInv, AllOwned, Owned, Busy, NoEgress
  <2>. QED  BY <1>1, <1>3, <2>1 DEF IInv, AllOwned, Owned, Busy
<1>8. Flagged'
  <2>1. faults = 0 => NewRow.snap.country = NewRow.snap.ip
    BY <1>1, NewRowType DEF IInv, Flagged, NoEgress
  <2>. QED  BY <1>1, <1>3, <2>1 DEF IInv, Flagged, NoEgress
<1>9. KnownKept'
  <2>. SUFFICES ASSUME orderly, IsOnline(coll.state)
                PROVE  NewRow.snap.ip = NewestEgress(NewRow.snap).ip
    BY <1>1, NewRowType DEF KnownKept
  <2>1. CASE coll.snap.ip = egress.ip
    BY <1>1, <2>1, NewRowType DEF NewestEgress
  <2>2. CASE coll.snap.ip # None /\ coll.snap.age = 0
    <3>1. coll.age \in 0..Cooldown /\ coll.age <= egress.age
      BY <1>1 DEF IInv, TypeOK, EgressRow, Busy
    <3>2. Older(0, coll.age) = coll.age
      BY <3>1, EgressAssumption DEF Older, AgeCap
    <3>. QED  BY <1>1, <2>2, <3>1, <3>2, NewRowType DEF NewestEgress
  <2>. QED  BY <1>1, <2>1, <2>2 DEF IInv, CarriedAddress, Busy
<1>. QED  BY <1>4, <1>5, <1>6, <1>7, <1>8, <1>9 DEF IInv

LEMMA LostKeeps == ASSUME IInv, PollLost PROVE IInv'
<1>. USE DEF PollLost, env, rows, Idle, NoPrevious, UnknownState
<1>1. TypeOK'
  BY EgressAssumption, NoEgressType DEF IInv, TypeOK, State, Flag
<1>2. EgressRow' /\ CarriedState' /\ CarriedAddress' /\ AllOwned' /\ KnownKept'
  BY DEF IInv, EgressRow, CarriedState, CarriedAddress, AllOwned, Owned, KnownKept, Busy
<1>3. Flagged'
  BY DEF IInv, TypeOK, Flagged
<1>. QED  BY <1>1, <1>2, <1>3 DEF IInv

-----------------------------------------------------------------------------
(* So do the gateway's, its VM's and the clock's *)

LEMMA GatewayKeeps ==
    ASSUME IInv, CreateGateway \/ Provisioned \/ DeleteGateway \/ LinksChange
    PROVE  IInv'
<1>. USE DEF rows
<1>1. CASE CreateGateway
  <2>1. TypeOK'
    BY <1>1, EgressAssumption DEF IInv, TypeOK, CreateGateway
  <2>2. AllOwned'
    BY <1>1 DEF IInv, AllOwned, CreateGateway, Owned, NoRow, NoEgress, Busy
  <2>. QED  BY <1>1, <2>1, <2>2 DEF IInv, CreateGateway, EgressRow, CarriedState,
                                    CarriedAddress, Flagged, KnownKept, Busy
<1>2. CASE Provisioned
  BY <1>2 DEF IInv, TypeOK, Provisioned, EgressRow, CarriedState, CarriedAddress,
              AllOwned, Owned, Flagged, KnownKept, Busy
<1>3. CASE DeleteGateway
  <2>1. TypeOK'
    BY <1>3, NoEgressType DEF IInv, TypeOK, DeleteGateway, NoRow, UnknownState, State, Flag
  <2>2. EgressRow'
    BY <1>3, EgressAssumption
       DEF IInv, TypeOK, EgressRow, DeleteGateway, NoRow, NoEgress, AgeCap, Busy
  <2>3. AllOwned'
    BY <1>3 DEF AllOwned, DeleteGateway, NoRow, NoEgress, Owned, Busy
  <2>. QED  BY <1>3, <2>1, <2>2, <2>3
            DEF IInv, DeleteGateway, CarriedState, CarriedAddress, Flagged, KnownKept,
                Busy, NoRow, NoEgress
<1>4. CASE LinksChange
  BY <1>4 DEF IInv, TypeOK, LinksChange, EgressRow, CarriedState, CarriedAddress,
              AllOwned, Owned, Flagged, KnownKept, Busy
<1>. QED  BY <1>1, <1>2, <1>3, <1>4

\* Rows and the poll get older together.
LEMMA TickKeeps == ASSUME IInv, Tick PROVE IInv'
<1>. USE DEF env
<1>1. /\ TypeOK
      /\ egress \in Snapshot /\ latest.snap \in Snapshot /\ UNCHANGED <<env, faults>>
      /\ egress' = Aged(egress) /\ latest' = [latest EXCEPT !.snap = Aged(latest.snap)]
      /\ coll' = IF coll.pc = "idle" THEN coll ELSE [coll EXCEPT !.age = coll.age + 1]
      /\ Busy => coll.age < Cooldown
  BY DEF IInv, TypeOK, Tick, Busy
<1>2. /\ latest'.some = latest.some /\ latest'.state = latest.state
      /\ latest'.snap = Aged(latest.snap)
  BY <1>1 DEF TypeOK
<1>3. /\ coll'.pc = coll.pc /\ coll'.life = coll.life /\ coll'.prev = coll.prev
      /\ coll'.snap = coll.snap /\ coll'.state = coll.state
      /\ coll'.age = IF Busy THEN coll.age + 1 ELSE coll.age
  BY <1>1 DEF TypeOK, Busy
<1>4. TypeOK'
  <2>1. coll'.age \in 0..Cooldown
    BY <1>1, <1>3, EgressAssumption DEF TypeOK
  <2>2. coll' \in [pc : {"idle", "health", "peers", "tailscale", "egress", "write"},
          age : 0..Cooldown, life : 0..MaxLives, prev : [some : BOOLEAN, state : State],
          snap : Snapshot, state : State]
    BY <1>1, <1>3, <2>1 DEF TypeOK
  <2>. QED  BY <1>1, <2>2, AgedType DEF TypeOK
<1>5. EgressRow'
  <2>1. Busy => coll.age + 1 <= Aged(egress).age
    BY <1>1, OlderByOne, AgedType DEF IInv, TypeOK, EgressRow, Snapshot
  <2>2. egress.ip = None => Aged(egress) = NoEgress
    BY NoEgressType DEF IInv, EgressRow
  <2>. QED  BY <1>1, <1>2, <1>3, <2>1, <2>2, AgedType DEF IInv, EgressRow, Busy
<1>6. CarriedState' /\ CarriedAddress' /\ KnownKept'
  BY <1>1, <1>2, <1>3, AgedType DEF IInv, CarriedState, CarriedAddress, KnownKept, Busy
<1>7. AllOwned'
  <2>1. status = "none" /\ orderly => Aged(egress) = NoEgress /\ latest' = NoRow
    <3>. SUFFICES ASSUME status = "none", orderly
                  PROVE  Aged(egress) = NoEgress /\ latest' = NoRow
      OBVIOUS
    <3>1. egress = NoEgress /\ latest = NoRow
      BY DEF IInv, AllOwned
    <3>2. latest' = [NoRow EXCEPT !.snap = Aged(NoRow.snap)]
      BY <1>1, <3>1
    <3>3. NoRow.snap = NoEgress /\ Aged(NoRow.snap) = NoEgress
      BY NoEgressType DEF NoRow
    <3>4. ASSUME NEW row \in [some : BOOLEAN, state : {UnknownState}, snap : {NoEgress}]
          PROVE  [row EXCEPT !.snap = NoEgress] = row
      OBVIOUS
    <3>5. NoRow \in [some : BOOLEAN, state : {UnknownState}, snap : {NoEgress}]
      BY DEF NoRow
    <3>. QED  BY <3>1, <3>2, <3>3, <3>4, <3>5
  <2>. QED  BY <1>1, <1>2, <1>3, <2>1, AgedType DEF IInv, AllOwned, Owned, Busy
<1>8. Flagged'
  BY <1>1, <1>2, <1>3, AgedType DEF IInv, Flagged
<1>. QED  BY <1>4, <1>5, <1>6, <1>7, <1>8 DEF IInv

-----------------------------------------------------------------------------
(* The theorems *)

LEMMA InitInv == Init => IInv
<1>. SUFFICES ASSUME Init PROVE IInv
  OBVIOUS
<1>. USE DEF Init, NoRow, Idle, NoPrevious, UnknownState
<1>1. TypeOK
  BY EgressAssumption, NoEgressType DEF TypeOK, State, Flag
<1>2. EgressRow /\ CarriedState /\ CarriedAddress /\ KnownKept
  BY DEF EgressRow, CarriedState, CarriedAddress, KnownKept, Busy, NoEgress
<1>3. AllOwned /\ Flagged
  BY DEF AllOwned, Flagged, Owned, Busy, NoEgress
<1>. QED  BY <1>1, <1>2, <1>3 DEF IInv

LEMMA NextKeeps == IInv /\ [Next]_vars => IInv'
<1>. SUFFICES ASSUME IInv, [Next]_vars PROVE IInv'
  OBVIOUS
<1>1. CASE CollectBegin
  BY <1>1, BeginKeeps
<1>2. CASE CollectStep
  BY <1>2, AnswersKeep, EgressKeeps, CommitKeeps DEF CollectStep
<1>3. CASE PollLost
  BY <1>3, LostKeeps
<1>4. CASE CreateGateway \/ Provisioned \/ DeleteGateway \/ LinksChange
  BY <1>4, GatewayKeeps
<1>5. CASE Tick
  BY <1>5, TickKeeps
<1>6. CASE UNCHANGED vars
  BY <1>6 DEF vars, IInv, TypeOK, EgressRow, CarriedState, CarriedAddress, AllOwned,
              Flagged, KnownKept, Busy, Owned
<1>. QED  BY <1>1, <1>2, <1>3, <1>4, <1>5, <1>6 DEF Next

LEMMA IInvHolds == Spec => []IInv
  BY InitInv, NextKeeps, PTL DEF Spec

\* Rows, the collector and the gateway hold values of their type (GatewayMetric,
\* EgressSnapshot).
THEOREM TypeCorrect == Spec => []TypeOK
<1>1. IInv => TypeOK
  BY DEF IInv
<1>. QED  BY <1>1, IInvHolds, PTL

\* collect_metrics: a poll that finds the links up keeps the address that is known,
\* through any number of outages, failed lookups and lost polls.
THEOREM AddressIsKept == Spec => []KnownKept
<1>1. IInv => KnownKept
  BY DEF IInv
<1>. QED  BY <1>1, IInvHolds, PTL

\* _gateway_row never shows the address of a gateway that had the id before, nor,
\* without a failed lookup, the flag of another address.
THEOREM NothingForeign == Spec => []ShownIsOwn
<1>1. IInv => ShownIsOwn
  BY DEF IInv, ShownIsOwn, Shown, AllOwned, Flagged, Owned, NoEgress
<1>. QED  BY <1>1, IInvHolds, PTL

\* should_refresh_egress and add_gateway_metric: the first address after an outage that
\* a poll saw was measured within EGRESS_REFRESH_SECONDS before that poll.
THEOREM FreshWhenBack == Spec => FreshAfterOutage
<1>. DEFINE Fresh ==
       faults = 0 /\ coll.pc = "write" /\ latest.some
       /\ ~IsOnline(latest.state) /\ IsOnline(latest'.state)
          => latest'.snap.age < Cooldown + coll.age
<1>1. IInv /\ [Next]_vars => Fresh
  <2>. SUFFICES ASSUME IInv, [Next]_vars, coll.pc = "write", latest.some,
                       ~IsOnline(latest.state), IsOnline(latest'.state)
                PROVE  latest'.snap.age < Cooldown + coll.age
    OBVIOUS
  <2>1. latest'.state = latest.state \/ latest' = NoRow \/ CollectCommit
    BY DEF IInv, TypeOK, Next, vars, rows, CollectBegin, CollectStep, CollectHealth, CollectPeers,
           CollectTailscale, AgentSilent, CollectEgress, Hears, PollLost, CreateGateway,
           Provisioned, DeleteGateway, LinksChange, Tick
  <2>2. latest' = NewRow /\ IsOnline(coll.state)
    BY <2>1, NewRowType DEF IInv, CollectCommit, NoRow, UnknownState, IsOnline
  <2>3. coll.snap.age < Cooldown
    BY <2>2, EgressAssumption DEF IInv, TypeOK, Snapshot, Age, CarriedState, Busy
  <2>4. coll.snap.age \in Nat /\ coll.age \in 0..Cooldown
    BY DEF IInv, TypeOK, Snapshot, Age
  <2>5. Older(coll.snap.age, coll.age) = coll.snap.age + coll.age
    BY <2>3, <2>4, EgressAssumption DEF Older, AgeCap
  <2>. QED  BY <2>2, <2>3, <2>4, <2>5, NewRowType, EgressAssumption DEF IInv
<1>2. IInv /\ [Next]_vars => [Fresh]_vars
  BY <1>1
<1>. QED  BY <1>2, IInvHolds, PTL DEF Spec, FreshAfterOutage
=============================================================================
