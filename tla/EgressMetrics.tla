---------------------------- MODULE EgressMetrics ----------------------------
(***************************************************************************)
(* collect_metrics for one gateway: what the collector reads of the VM, when *)
(* it looks the gateway's public address up, what it stores, and what the   *)
(* console shows of it.                                                     *)
(*                                                                         *)
(* Rows of gateway_metrics are only ever added, so the table is kept as the  *)
(* answers of its two queries: the newest row, and the newest row with an   *)
(* address.  Times are ages, in steps of the clock, up to a cap that is     *)
(* beyond every comparison.  A country is named by the address it is of.    *)
(***************************************************************************)
EXTENDS Integers

CONSTANTS
    Ips,        \* public addresses of exit hosts
    None,
    Cooldown,   \* EGRESS_REFRESH_SECONDS
    MaxLives,   \* bound: gateways that have the id, one after the other
    MaxFaults   \* bound: failed lookups and lost polls

ASSUME EgressAssumption ==
    Cooldown \in Nat \ {0} /\ MaxLives \in Nat /\ MaxFaults \in Nat

VARIABLES
    status,   \* of the gateway: none, pending, ready
    life,     \* which gateway it is that has the id
    well,     \* the agent of the VM answers, and both its links are up
    latest,   \* latest_gateway_metric
    egress,   \* the address of latest_gateway_metric_with_egress
    coll,     \* the collector
    orderly,  \* the gateway is not deleted while the collector polls it
    faults

vars == <<status, life, well, latest, egress, coll, orderly, faults>>
rows == <<latest, egress>>
env == <<status, life, well, orderly>>

AgeCap == 2 * Cooldown
Age == 0..AgeCap
Older(a, n) == IF a + n > AgeCap THEN AgeCap ELSE a + n
Flag == {"yes", "no", "unknown"}
Answers == IF well THEN {"yes"} ELSE {"yes", "no"}

-----------------------------------------------------------------------------
(* The refresh policy *)

NoEgress == [ip |-> None, country |-> None, age |-> AgeCap, life |-> 0]
UnknownState == [ts |-> "unknown", wg |-> "unknown", exit |-> "unknown"]
NoRow == [some |-> FALSE, state |-> UnknownState, snap |-> NoEgress]

\* egress_snapshot_from_metric: without an address nothing is remembered, the time
\* of a failed lookup included.
SnapshotOf(snap) == IF snap.ip = None THEN NoEgress ELSE snap

\* The row with an address first, then the newest.
Known == IF egress.ip # None THEN SnapshotOf(egress) ELSE SnapshotOf(latest.snap)

IsOnline(state) == state.ts = "yes" /\ state.wg = "yes"

\* Mutant: a known address is never looked up again.
ShouldRefreshOnce(prev, state, snap) == IsOnline(state) /\ snap.ip = None

\* Mutant: a missing address too waits for a change.
ShouldRefreshOnChange(prev, state, snap) ==
    IsOnline(state) /\ snap.age >= Cooldown /\ (~prev.some \/ prev.state # state)

\* should_refresh_egress
ShouldRefresh(prev, state, snap) ==
    /\ IsOnline(state)
    /\ \/ snap.ip = None
       \/ snap.age >= Cooldown /\ (~prev.some \/ prev.state # state)

\* Mutant: a known country is kept, whatever the address.
CountryOfSnapshot(ip, snap, geo) == IF snap.country # None THEN snap.country ELSE geo

\* The country that _egress_geo_from_agent and merge_egress settle on: the lookup is
\* skipped for the known address, and a lookup without answer keeps the old country.
CountryFor(ip, snap, geo) ==
    IF geo = None \/ (ip = snap.ip /\ snap.country # None) THEN snap.country ELSE geo

\* Mutant: a lookup without answer forgets the address.
MergeForgets(snap, ip, geo, l) ==
    IF ip = None THEN NoEgress
    ELSE [ip |-> ip, country |-> CountryFor(ip, snap, geo), age |-> 0, life |-> l]

\* merge_egress of an attempted lookup; without answer the old address is as good as new.
Merge(snap, ip, geo, l) ==
    IF ip = None THEN [snap EXCEPT !.age = 0]
    ELSE [ip |-> ip, country |-> CountryFor(ip, snap, geo), age |-> 0, life |-> l]

-----------------------------------------------------------------------------
(* The collector: one at a time, whatever the scheduler does *)

NoPrevious == [some |-> FALSE, state |-> UnknownState]
Idle == [pc |-> "idle", age |-> 0, life |-> 0, prev |-> NoPrevious,
         snap |-> NoEgress, state |-> UnknownState]

\* A ready gateway: the time and the two rows.
CollectBegin ==
    /\ coll.pc = "idle"
    /\ status = "ready"
    /\ coll' = [Idle EXCEPT !.pc = "health", !.life = life,
                            !.prev = [some |-> latest.some, state |-> latest.state],
                            !.snap = Known, !.state.exit = latest.state.exit]
    /\ UNCHANGED <<env, rows, faults>>

Hears(pc, next, flag, answers) ==
    /\ coll.pc = pc
    /\ \E a \in answers : coll' = [coll EXCEPT !.pc = next, !.state[flag] = a]
    /\ UNCHANGED <<env, rows, faults>>

\* agent.health(): exit_node_configured.
CollectHealth == Hears("health", "peers", "exit", {"yes", "no"})

\* agent.list_peers(): a recent handshake.
CollectPeers == Hears("peers", "tailscale", "wg", Answers)

\* agent.tailscale_connected()
CollectTailscale == Hears("tailscale", "egress", "ts", Answers)

\* The agent does not answer: the links are down if get_vm_status said that the VM
\* runs, and stay as they are known if not.
AgentSilent ==
    /\ coll.pc \in {"health", "peers", "tailscale"}
    /\ ~well
    /\ \E s \in {coll.state, [coll.state EXCEPT !.ts = "no", !.wg = "no"]} :
          coll' = [coll EXCEPT !.pc = "write", !.state = s]
    /\ UNCHANGED <<env, rows, faults>>

\* What fetch_egress_public_ip and lookup_geo answer: the exit path's address of the
\* moment and its country; either may fail.
LookupAnswers ==
    {<<ip, ip, 0>> : ip \in Ips}
    \cup (IF faults < MaxFaults THEN {<<ip, None, 1>> : ip \in Ips \cup {None}} ELSE {})

\* _resolve_egress
CollectEgress ==
    /\ coll.pc = "egress"
    /\ IF ShouldRefresh(coll.prev, coll.state, coll.snap)
       THEN \E a \in LookupAnswers :
               /\ coll' = [coll EXCEPT !.pc = "write", !.snap = Merge(coll.snap, a[1], a[2], coll.life)]
               /\ faults' = faults + a[3]
       ELSE coll' = [coll EXCEPT !.pc = "write"] /\ UNCHANGED faults
    /\ UNCHANGED <<env, rows>>

\* The row of this poll: an address only while the links are up.
NewRow ==
    [some |-> TRUE, state |-> coll.state,
     snap |-> IF ~IsOnline(coll.state) THEN NoEgress
              ELSE [coll.snap EXCEPT !.age = Older(@, coll.age)]]

\* latest_gateway_metric_with_egress once a row has been added: by egress_updated_at.
NewestEgress(snap) == IF snap.ip # None /\ snap.age <= egress.age THEN snap ELSE egress

\* add_gateway_metric and the commit.  Nothing asks whether the gateway is still there.
CollectCommit ==
    /\ coll.pc = "write"
    /\ latest' = NewRow
    /\ egress' = NewestEgress(NewRow.snap)
    /\ coll' = Idle
    /\ UNCHANGED <<env, faults>>

\* An error of the database, or the end of the process: everything is rolled back.
PollLost ==
    /\ coll.pc # "idle"
    /\ faults < MaxFaults
    /\ faults' = faults + 1
    /\ coll' = Idle
    /\ UNCHANGED <<env, rows>>

-----------------------------------------------------------------------------
(* The gateway, its VM and time *)

\* A new gateway is given the id of the last one that was deleted.
CreateGateway ==
    /\ status = "none" /\ life < MaxLives
    /\ status' = "pending" /\ life' = life + 1
    /\ UNCHANGED <<well, rows, coll, orderly, faults>>

Provisioned ==
    /\ status = "pending"
    /\ status' = "ready"
    /\ UNCHANGED <<life, well, rows, coll, orderly, faults>>

\* The row goes, and its metrics with it.
DeleteGateway ==
    /\ status # "none"
    /\ orderly => coll.pc = "idle"
    /\ status' = "none"
    /\ latest' = NoRow /\ egress' = NoEgress
    /\ UNCHANGED <<life, well, coll, orderly, faults>>

LinksChange ==
    /\ well' = ~well
    /\ UNCHANGED <<status, life, rows, coll, orderly, faults>>

Aged(snap) == [snap EXCEPT !.age = Older(@, 1)]

\* A poll takes no longer than the cooldown.
Tick ==
    /\ coll.pc # "idle" => coll.age < Cooldown
    /\ coll' = IF coll.pc = "idle" THEN coll ELSE [coll EXCEPT !.age = @ + 1]
    /\ latest' = [latest EXCEPT !.snap = Aged(@)] /\ egress' = Aged(egress)
    /\ UNCHANGED <<env, faults>>

Init ==
    /\ status = "none" /\ life = 0
    /\ well = TRUE
    /\ latest = NoRow /\ egress = NoEgress
    /\ coll = Idle
    /\ orderly \in BOOLEAN
    /\ faults = 0

CollectStep ==
    CollectHealth \/ CollectPeers \/ CollectTailscale \/ AgentSilent \/ CollectEgress \/ CollectCommit

Next ==
    \/ CollectBegin \/ CollectStep \/ PollLost
    \/ CreateGateway \/ Provisioned \/ DeleteGateway
    \/ LinksChange \/ Tick

Spec == Init /\ [][Next]_vars

\* The scheduler starts the collector, and a poll comes to its end.
FairSpec == Spec /\ WF_vars(CollectBegin) /\ WF_vars(CollectStep)

-----------------------------------------------------------------------------
(* Properties *)

\* _gateway_row: what the console shows of the egress.
Shown ==
    IF ~latest.some \/ ~IsOnline(latest.state) THEN NoEgress
    ELSE IF latest.snap.ip # None THEN latest.snap ELSE egress

Snapshot == [ip : Ips \cup {None}, country : Ips \cup {None}, age : Age, life : 0..MaxLives]
State == [ts : Flag, wg : Flag, exit : Flag]

\* Rows, the collector and the gateway hold values of their type.
TypeOK ==
    /\ status \in {"none", "pending", "ready"} /\ life \in 0..MaxLives /\ well \in BOOLEAN
    /\ latest \in [some : BOOLEAN, state : State, snap : Snapshot] /\ egress \in Snapshot
    /\ coll \in [pc : {"idle", "health", "peers", "tailscale", "egress", "write"}, age : 0..Cooldown,
                 life : 0..MaxLives, prev : [some : BOOLEAN, state : State],
                 snap : Snapshot, state : State]
    /\ faults \in 0..MaxFaults

\* A poll that finds the links up keeps the address that is known, through outages,
\* failed lookups and lost polls: newest row and newest row with an address agree.
KnownKept ==
    orderly /\ latest.some /\ IsOnline(latest.state) => latest.snap.ip = egress.ip

\* The console never shows the address of a gateway that had the id before, nor, as
\* long as no lookup fails, the flag of another address.
ShownIsOwn ==
    /\ orderly /\ Shown.ip # None => Shown.life = life
    /\ faults = 0 => Shown.country = Shown.ip

\* The first address shown after an outage that a poll saw was measured no longer than
\* EGRESS_REFRESH_SECONDS before the poll that ends it.
FreshAfterOutage ==
    [][faults = 0 /\ coll.pc = "write" /\ latest.some
       /\ ~IsOnline(latest.state) /\ IsOnline(latest'.state)
          => latest'.snap.age < Cooldown + coll.age]_vars

\* A gateway that stays ready and whose links stay up has its address shown again and
\* again, whatever lookups failed before.
EventuallyShown ==
    <>[](status = "ready" /\ well) => []<>(Shown.ip # None)
=============================================================================
