-------------------------- MODULE WorkerEnrollment --------------------------
(***************************************************************************)
(* How a VPS becomes a gateway worker: the worker_enrollments and workers  *)
(* tables, the Incus remotes of the control plane, the operator who asks   *)
(* for a join command, the join script that posts its enrollment token,    *)
(* the registration by hand, the heartbeats, and the choice of a worker    *)
(* for a new gateway.                                                      *)
(*                                                                         *)
(* A step ends at a commit or at an external call (Headscale, the incus    *)
(* command).  What a request read before the call stays with the request.  *)
(* worker<n> is the name n; the worker "local" has the name Local.         *)
(***************************************************************************)
EXTENDS Integers, FiniteSets

CONSTANTS
    Hosts,           \* the VPSes that are to become workers
    NoHost,          \* no VPS
    Slots,           \* slots for concurrent POST /workers/enroll/complete
    ManualNames,     \* names operators register by hand
    LegacyRow,       \* the table holds an enrollment from before migration 005
    MaxBusy,         \* bound: hosts whose join is under way at a time
    MaxName,         \* bound: names worker1 .. worker<MaxName>
    MaxEnrollments,  \* bound: enrollment rows
    MaxWorkers,      \* bound: worker rows
    FaultKinds,      \* the faults that happen
    MaxFaults        \* bound: faults

Names == 1..MaxName
Local == 0
EnrollmentId == 1..MaxEnrollments
WorkerId == 1..MaxWorkers
MaxToken == MaxEnrollments + MaxBusy + 1

ASSUME BoundsAssumption ==
    /\ MaxBusy \in Nat /\ MaxName \in Nat \ {0} /\ MaxEnrollments \in Nat \ {0}
    /\ MaxWorkers \in Nat \ {0} /\ MaxFaults \in Nat
ASSUME HostAssumption == NoHost \notin Hosts /\ LegacyRow \in BOOLEAN
ASSUME ManualAssumption == ManualNames \subseteq 1..MaxName

VARIABLES
    up,          \* the orchestrator process runs
    enrollment,  \* table worker_enrollments: id -> [state, name, token, stored]
    worker,      \* table workers: id -> [name, host, enabled, seen]
    remote,      \* incus remotes: name -> the host it points to
    host,        \* per VPS: [pc, num, id]
    request,     \* completions in flight: [pc, host, enrollment, awaited]
    placed,      \* workers that were given a gateway
    minted,      \* enrollment tokens generated so far
    faults,      \* faults so far
    orderly      \* operators enroll one VPS at a time; never changes

vars == <<up, enrollment, worker, remote, host, request, placed, minted, faults, orderly>>

\* An enrollment is active while used_at is null and expires_at lies ahead.
\* stored: enroll_token_enc and headscale_auth_key_enc are there.
NoEnrollment == [state |-> "absent", name |-> Local, token |-> 0, stored |-> FALSE]
EnrollmentState == {"absent", "active", "used", "expired"}
\* seen: last_seen_at is null, at most or more than 120 s old.  A worker
\* without a host has no incus_url: is_local.
NoWorker == [name |-> -1, host |-> NoHost, enabled |-> FALSE, seen |-> "never"]
Seen == {"never", "recent", "old"}

\* pc of a VPS: out (no join under way), create / refresh (create_enrollment is
\* at the Headscale call; num is the name or the row), command (the join
\* script runs with token num), waiting (its POST is out), remote and register (by
\* hand, num is the name), joined (holds the token of worker id).
HostPc == {"out", "create", "refresh", "command", "waiting", "remote", "register", "joined"}
Out == [pc |-> "out", num |-> 0, id |-> 0]
\* pc of a completion: remove / add (the incus commands), insert.
NoRequest == [pc |-> "idle", host |-> NoHost, enrollment |-> 0, awaited |-> FALSE]

Active == {e \in EnrollmentId : enrollment[e].state = "active"}
Rows == {w \in WorkerId : worker[w].name # -1}
TakenNames == {worker[w].name : w \in Rows}
Busy == {h \in Hosts : host[h].pc \notin {"out", "joined"}}

\* Rows are never deleted, so ids are handed out in order.  0: bound reached.
NextRow(ids, free) == IF \E i \in ids : free[i] /\ \A k \in ids : k < i => ~free[k]
                      THEN CHOOSE i \in ids : free[i] /\ \A k \in ids : k < i => ~free[k]
                      ELSE 0
NextEnrollment == NextRow(EnrollmentId, [e \in EnrollmentId |-> enrollment[e].state = "absent"])
NextWorker == NextRow(WorkerId, [w \in WorkerId |-> worker[w].name = -1])

\* _next_worker_identity: the first name that neither a worker nor an active
\* enrollment has.
IsFreeName(n) == n \notin TakenNames /\ \A e \in Active : enrollment[e].name # n
IsNextName(n) == n \in Names /\ IsFreeName(n) /\ \A k \in Names : k < n => ~IsFreeName(k)

Fault(kind) ==
    /\ kind \in FaultKinds \ (IF orderly THEN {"giveup", "expire"} ELSE {})
    /\ faults < MaxFaults
    /\ faults' = faults + 1

-----------------------------------------------------------------------------
(* The process *)

\* lifespan / ensure_default_local_worker: the row "local" is there and disabled.
Boot ==
    /\ ~up
    /\ up' = TRUE
    /\ \/ /\ Local \in TakenNames
          /\ worker' = [w \in WorkerId |->
               IF worker[w].name = Local THEN [worker[w] EXCEPT !.enabled = FALSE] ELSE worker[w]]
       \/ /\ Local \notin TakenNames
          /\ NextWorker # 0
          /\ worker' = [worker EXCEPT ![NextWorker] =
               [name |-> Local, host |-> NoHost, enabled |-> FALSE, seen |-> "never"]]
    /\ UNCHANGED <<enrollment, remote, host, request, placed, minted, faults, orderly>>

\* The requests in flight are lost; whoever waited gets an error.
Crash ==
    /\ up
    /\ Fault("crash")
    /\ up' = FALSE
    /\ request' = [s \in Slots |-> NoRequest]
    /\ host' = [h \in Hosts |->
         IF host[h].pc \in {"create", "refresh", "waiting", "register"} THEN Out ELSE host[h]]
    /\ UNCHANGED <<enrollment, worker, remote, placed, minted, orderly>>

-----------------------------------------------------------------------------
(* POST /ui/workers/enroll: create_enrollment, asked on behalf of a VPS *)

Start(h) ==
    /\ up
    /\ host[h].pc = "out"
    /\ Cardinality(Busy) < (IF orderly THEN 1 ELSE MaxBusy)

\* The latest active enrollment is offered again; one without a stored token is
\* refreshed; without one a name is chosen for a new row.  created_at has a
\* resolution of a second, so of two racing rows either may be the latest.
Click(h) ==
    /\ Start(h)
    /\ \/ \E e \in Active : host' = [host EXCEPT ![h] =
             IF enrollment[e].stored
             THEN [pc |-> "command", num |-> enrollment[e].token, id |-> 0]
             ELSE [pc |-> "refresh", num |-> e, id |-> 0]]
       \/ /\ Active = {}
          /\ \E n \in Names : /\ IsNextName(n)
                              /\ host' = [host EXCEPT ![h] = [pc |-> "create", num |-> n, id |-> 0]]
    /\ UNCHANGED <<up, enrollment, worker, remote, request, placed, minted, faults, orderly>>

\* create_worker_preauth_key fails: ValueError, nothing is written.
PreauthFails(h) ==
    /\ host[h].pc \in {"create", "refresh"}
    /\ Fault("preauth")
    /\ host' = [host EXCEPT ![h] = Out]
    /\ UNCHANGED <<up, enrollment, worker, remote, request, placed, minted, orderly>>

\* The key is there: a fresh token, the row is inserted, or updated whatever
\* became of it meanwhile.  The name is not unique in this table.
WriteEnrollment(h) ==
    /\ minted < MaxToken
    /\ minted' = minted + 1
    /\ \/ /\ host[h].pc = "create"
          /\ NextEnrollment # 0
          /\ enrollment' = [enrollment EXCEPT ![NextEnrollment] =
               [state |-> "active", name |-> host[h].num, token |-> minted + 1, stored |-> TRUE]]
       \/ /\ host[h].pc = "refresh"
          /\ enrollment' = [enrollment EXCEPT ![host[h].num].token = minted + 1,
                                              ![host[h].num].stored = TRUE]
    /\ host' = [host EXCEPT ![h] = [pc |-> "command", num |-> minted + 1, id |-> 0]]
    /\ UNCHANGED <<up, worker, remote, request, placed, faults, orderly>>

\* Mutant: expires_at is compared only for enrollments that can be completed.
ExpireUsable(e) ==
    /\ e \in Active
    /\ enrollment[e].name \notin TakenNames
    /\ Fault("expire")
    /\ enrollment' = [enrollment EXCEPT ![e].state = "expired"]
    /\ UNCHANGED <<up, worker, remote, host, request, placed, minted, orderly>>

\* expires_at passes.  The expiry of an enrollment that can still be completed
\* counts as a fault; any other is a matter of time.
Expire(e) ==
    /\ e \in Active
    /\ \/ enrollment[e].name \in TakenNames /\ UNCHANGED faults
       \/ enrollment[e].name \notin TakenNames /\ Fault("expire")
    /\ enrollment' = [enrollment EXCEPT ![e].state = "expired"]
    /\ UNCHANGED <<up, worker, remote, host, request, placed, minted, orderly>>

-----------------------------------------------------------------------------
(* POST /workers/enroll/complete: complete_enrollment, sent by the join script *)

\* The row of the token passes every check.
MayComplete(e, token) ==
    /\ enrollment[e].state = "active"
    /\ enrollment[e].token = token
    /\ enrollment[e].name \notin TakenNames

Post(h, s) ==
    /\ up
    /\ host[h].pc = "command"
    /\ request[s].pc = "idle"
    /\ \E e \in EnrollmentId :
         /\ MayComplete(e, host[h].num)
         /\ request' = [request EXCEPT ![s] =
              [pc |-> "remove", host |-> h, enrollment |-> e, awaited |-> TRUE]]
    /\ host' = [host EXCEPT ![h].pc = "waiting"]
    /\ UNCHANGED <<up, enrollment, worker, remote, placed, minted, faults, orderly>>

\* Invalid, used or expired token, or the worker exists: HTTP 400, the script ends.
PostRefused(h) ==
    /\ up
    /\ host[h].pc = "command"
    /\ ~ \E e \in EnrollmentId : MayComplete(e, host[h].num)
    /\ host' = [host EXCEPT ![h] = Out]
    /\ UNCHANGED <<up, enrollment, worker, remote, request, placed, minted, faults, orderly>>

\* The connection breaks while the request runs on; the script is run again.
GiveUp(h) ==
    /\ host[h].pc = "waiting"
    /\ Fault("giveup")
    /\ host' = [host EXCEPT ![h].pc = "command"]
    /\ request' = [s \in Slots |->
         IF request[s].host = h THEN [request[s] EXCEPT !.awaited = FALSE] ELSE request[s]]
    /\ UNCHANGED <<up, enrollment, worker, remote, placed, minted, orderly>>

NameOf(s) == enrollment[request[s].enrollment].name

\* The slot is done; answer is what the VPS becomes if it still waits for it.
Finish(s, answer) ==
    /\ request' = [request EXCEPT ![s] = NoRequest]
    /\ host' = IF request[s].awaited THEN [host EXCEPT ![request[s].host] = answer] ELSE host

\* add_worker_remote: incus remote remove, whatever it answers.
RemoveRemote(s) ==
    /\ request[s].pc = "remove"
    /\ remote' = [remote EXCEPT ![NameOf(s)] = NoHost]
    /\ request' = [request EXCEPT ![s].pc = "add"]
    /\ UNCHANGED <<up, enrollment, worker, host, placed, minted, faults, orderly>>

\* Mutant: the exit status of incus remote add is not looked at.
AddRemoteUnchecked(s) ==
    /\ request[s].pc = "add"
    /\ Fault("remote")
    /\ request' = [request EXCEPT ![s].pc = "insert"]
    /\ UNCHANGED <<up, enrollment, worker, remote, host, placed, minted, orderly>>

\* incus remote add refuses a name that is there, or fails otherwise; or the
\* certificates cannot be copied once the remote is added.
AddRemoteFails(s) ==
    /\ request[s].pc = "add"
    /\ \/ remote[NameOf(s)] # NoHost /\ UNCHANGED <<remote, faults>>
       \/ /\ remote[NameOf(s)] = NoHost
          /\ Fault("remote")
          /\ remote' \in {remote, [remote EXCEPT ![NameOf(s)] = request[s].host]}
    /\ Finish(s, Out)
    /\ UNCHANGED <<up, enrollment, worker, placed, minted, orderly>>

\* incus remote add, and the certificates are copied.
AddRemote(s) ==
    /\ request[s].pc = "add"
    /\ remote[NameOf(s)] = NoHost
    /\ remote' = [remote EXCEPT ![NameOf(s)] = request[s].host]
    /\ request' = [request EXCEPT ![s].pc = "insert"]
    /\ UNCHANGED <<up, enrollment, worker, host, placed, minted, faults, orderly>>

NewWorker(n, h) == [name |-> n, host |-> h, enabled |-> TRUE, seen |-> "never"]

\* Mutant: the name is not unique among the workers.
InsertAgain(s) ==
    /\ request[s].pc = "insert"
    /\ NextWorker # 0
    /\ worker' = [worker EXCEPT ![NextWorker] = NewWorker(NameOf(s), request[s].host)]
    /\ enrollment' = [enrollment EXCEPT ![request[s].enrollment].state = "used"]
    /\ Finish(s, [pc |-> "joined", num |-> 0, id |-> NextWorker])
    /\ UNCHANGED <<up, remote, placed, minted, faults, orderly>>

\* Mutant: used_at is not set.
InsertUnmarked(s) ==
    /\ request[s].pc = "insert"
    /\ NameOf(s) \notin TakenNames
    /\ NextWorker # 0
    /\ worker' = [worker EXCEPT ![NextWorker] = NewWorker(NameOf(s), request[s].host)]
    /\ Finish(s, [pc |-> "joined", num |-> 0, id |-> NextWorker])
    /\ UNCHANGED <<up, enrollment, remote, placed, minted, faults, orderly>>

\* The worker is inserted and the enrollment marked used in one commit; the
\* answer carries the worker's id and token, and may be lost.
Insert(s) ==
    /\ request[s].pc = "insert"
    /\ NameOf(s) \notin TakenNames
    /\ NextWorker # 0
    /\ worker' = [worker EXCEPT ![NextWorker] = NewWorker(NameOf(s), request[s].host)]
    /\ enrollment' = [enrollment EXCEPT ![request[s].enrollment].state = "used"]
    /\ \/ Finish(s, [pc |-> "joined", num |-> 0, id |-> NextWorker]) /\ UNCHANGED faults
       \/ Finish(s, Out) /\ request[s].awaited /\ Fault("lost")
    /\ UNCHANGED <<up, remote, placed, minted, orderly>>

\* uq workers.name: IntegrityError, rollback, HTTP 500.
InsertRefused(s) ==
    /\ request[s].pc = "insert"
    /\ NameOf(s) \in TakenNames
    /\ Finish(s, Out)
    /\ UNCHANGED <<up, enrollment, worker, remote, placed, minted, faults, orderly>>

-----------------------------------------------------------------------------
(* register-worker-on-cp.sh and POST /workers/register *)

\* The script replaces the remote of the name before it registers: it removes it ...
ManualRemove(h, n) ==
    /\ ~orderly
    /\ Start(h)
    /\ remote' = [remote EXCEPT ![n] = NoHost]
    /\ host' = [host EXCEPT ![h] = [pc |-> "remote", num |-> n, id |-> 0]]
    /\ UNCHANGED <<up, enrollment, worker, request, placed, minted, faults, orderly>>

\* ... adds it ...
ManualAdd(h) ==
    /\ host[h].pc = "remote"
    /\ remote[host[h].num] = NoHost
    /\ remote' = [remote EXCEPT ![host[h].num] = h]
    /\ host' = [host EXCEPT ![h].pc = "register"]
    /\ UNCHANGED <<up, enrollment, worker, request, placed, minted, faults, orderly>>

\* ... or ends there (set -e): somebody else has added it meanwhile, incus remote
\* add fails otherwise, or the certificates cannot be copied once it is added.
ManualAddFails(h) ==
    /\ host[h].pc = "remote"
    /\ \/ remote[host[h].num] # NoHost /\ UNCHANGED <<remote, faults>>
       \/ /\ remote[host[h].num] = NoHost
          /\ Fault("remote")
          /\ remote' \in {remote, [remote EXCEPT ![host[h].num] = h]}
    /\ host' = [host EXCEPT ![h] = Out]
    /\ UNCHANGED <<up, enrollment, worker, request, placed, minted, orderly>>

\* register_worker: refused if the name is there, or nobody listens.
RegisterWorker(h) ==
    /\ host[h].pc = "register"
    /\ \/ /\ ~up \/ host[h].num \in TakenNames
          /\ host' = [host EXCEPT ![h] = Out]
          /\ UNCHANGED worker
       \/ /\ up
          /\ host[h].num \notin TakenNames
          /\ NextWorker # 0
          /\ worker' = [worker EXCEPT ![NextWorker] = NewWorker(host[h].num, h)]
          /\ host' = [host EXCEPT ![h] = [pc |-> "joined", num |-> 0, id |-> NextWorker]]
    /\ UNCHANGED <<up, enrollment, remote, request, placed, minted, faults, orderly>>

-----------------------------------------------------------------------------
(* Heartbeats and the choice of a worker *)

\* worker_heartbeat lets in the token of the worker with the id.
Authenticated(h) == host[h].pc = "joined" /\ host[h].id \in Rows

\* Mutant: the status is written where the time of the heartbeat belongs.
HeardFromStatus(w) == [worker EXCEPT ![w].seen = "online"]

\* update_stats
HeardFrom(w) == [worker EXCEPT ![w].seen = "recent"]

\* worker-heartbeat.py posts with the id and token it was given.
Heartbeat(h) ==
    /\ up
    /\ Authenticated(h)
    /\ worker' = HeardFrom(host[h].id)
    /\ UNCHANGED <<up, enrollment, remote, host, request, placed, minted, faults, orderly>>

\* 120 s without a heartbeat.
Quiet(w) ==
    /\ worker[w].seen = "recent"
    /\ worker' = [worker EXCEPT ![w].seen = "old"]
    /\ UNCHANGED <<up, enrollment, remote, host, request, placed, minted, faults, orderly>>

\* Mutant: a worker that was never heard of counts as online.
EffectiveStatusOptimistic(w) ==
    IF ~worker[w].enabled THEN "disabled"
    ELSE IF worker[w].seen = "old" THEN "offline" ELSE "online"

EffectiveStatus(w) ==
    IF ~worker[w].enabled THEN "disabled"
    ELSE IF worker[w].seen = "recent" THEN "online" ELSE "offline"

\* dashboard_workers: all but the local ones.
Dashboard == {w \in Rows : worker[w].host # NoHost}
\* list_online_workers
Online == {w \in Dashboard : EffectiveStatus(w) = "online"}

\* resolve_worker_for_gateway: the worker asked for, or the only one online.
Resolved(w, asked) ==
    IF asked THEN /\ worker[w].host # NoHost /\ worker[w].enabled
                  /\ EffectiveStatus(w) = "online"
    ELSE Online = {w}

\* create_gateway puts its gateway on w.
Place(w, asked) ==
    /\ up
    /\ w \in Rows
    /\ Resolved(w, asked)
    /\ placed' = placed \cup {w}
    /\ UNCHANGED <<up, enrollment, worker, remote, host, request, minted, faults, orderly>>

-----------------------------------------------------------------------------

\* LegacyRow: an active row from before migration 005, without the stored token.
Init ==
    /\ orderly \in BOOLEAN
    /\ up = FALSE
    /\ enrollment = [e \in EnrollmentId |->
         IF e = 1 /\ LegacyRow /\ ~orderly
         THEN [state |-> "active", name |-> 1, token |-> 0, stored |-> FALSE]
         ELSE NoEnrollment]
    /\ worker = [w \in WorkerId |-> NoWorker]
    /\ remote = [n \in Names |-> NoHost]
    /\ host = [h \in Hosts |-> Out]
    /\ request = [s \in Slots |-> NoRequest]
    /\ placed = {}
    /\ minted = 0
    /\ faults = 0

HostStep(h) ==
    \/ Click(h) \/ PreauthFails(h) \/ WriteEnrollment(h)
    \/ PostRefused(h) \/ GiveUp(h) \/ RegisterWorker(h) \/ Heartbeat(h)
    \/ \E s \in Slots : Post(h, s)
    \/ \E n \in ManualNames : ManualRemove(h, n)
    \/ ManualAdd(h) \/ ManualAddFails(h)
RequestStep(s) ==
    \/ RemoveRemote(s) \/ AddRemote(s) \/ AddRemoteFails(s)
    \/ Insert(s) \/ InsertRefused(s)

Next ==
    \/ Boot \/ Crash
    \/ \E h \in Hosts : HostStep(h)
    \/ \E s \in Slots : RequestStep(s)
    \/ \E e \in EnrollmentId : Expire(e)
    \/ \E w \in WorkerId : Quiet(w) \/ \E asked \in BOOLEAN : Place(w, asked)

Spec == Init /\ [][Next]_vars

\* An operator keeps asking for a host that has not joined and the script runs;
\* a request runs to its end; time passes; systemd restarts the process.
Fairness ==
    /\ WF_vars(Boot)
    /\ \A h \in Hosts :
         /\ SF_vars(Click(h)) /\ WF_vars(WriteEnrollment(h)) /\ WF_vars(PostRefused(h))
         /\ SF_vars(\E s \in Slots : Post(h, s))
         /\ WF_vars(ManualAdd(h) \/ ManualAddFails(h)) /\ WF_vars(RegisterWorker(h))
    /\ \A s \in Slots : WF_vars(RequestStep(s))
    /\ \A e \in EnrollmentId : WF_vars(Expire(e))

FairSpec == Spec /\ Fairness

-----------------------------------------------------------------------------
(* Properties *)

\* The shapes of the tables, the remotes, the hosts and the requests.
TypeOK ==
    /\ up \in BOOLEAN
    /\ enrollment \in [EnrollmentId -> [state : EnrollmentState, name : {Local} \cup Names,
                                        token : 0..MaxToken, stored : BOOLEAN]]
    /\ worker \in [WorkerId -> [name : {-1, Local} \cup Names, host : Hosts \cup {NoHost},
                                enabled : BOOLEAN, seen : Seen]]
    /\ remote \in [Names -> Hosts \cup {NoHost}]
    /\ host \in [Hosts -> [pc : HostPc, num : Nat, id : {0} \cup WorkerId]]
    /\ request \in [Slots -> [pc : {"idle", "remove", "add", "insert"}, host : Hosts \cup {NoHost},
                              enrollment : {0} \cup EnrollmentId, awaited : BOOLEAN]]
    /\ placed \subseteq WorkerId
    /\ minted \in 0..MaxToken
    /\ faults \in 0..MaxFaults
    /\ orderly \in BOOLEAN

\* One enrollment makes one worker: however many completions of a token, or of
\* two enrollments of the same name, run at once (complete_enrollment looks at
\* used_at before the incus commands only), a used enrollment has the one worker
\* of its name, and no two used enrollments share a name.
UsedOnce ==
    \A e \in EnrollmentId : enrollment[e].state = "used" =>
        /\ \E w \in Rows : /\ worker[w].name = enrollment[e].name
                          /\ \A v \in Rows \ {w} : worker[v].name # enrollment[e].name
        /\ \A d \in EnrollmentId \ {e} :
             enrollment[d].state = "used" => enrollment[d].name # enrollment[e].name

\* A gateway is only placed on a worker whose own VPS holds its token: the
\* answer of the completion arrived, and that VPS has sent a heartbeat
\* (resolve_worker_for_gateway trusts last_seen_at alone).
PlacedOnJoined ==
    \A w \in placed :
        /\ worker[w].host \in Hosts
        /\ host[worker[w].host].pc = "joined" /\ host[worker[w].host].id = w

\* The remote a worker's row names leads to the worker's own VPS: incus_target
\* sends "incus exec" through the remote, IncusClient through the row's URL.  When
\* enrollments are orderly: a second completion of a token moves the remote.
RemoteIsWorker ==
    orderly => \A w \in Rows : worker[w].name # Local => remote[worker[w].name] = worker[w].host

\* The enrollment that is offered can be completed: its name is not a worker's.
\* One that cannot is offered to everybody until it expires.  When enrollments are
\* orderly: two at once may make two rows for one name.
OfferUsable == orderly => \A e \in Active : enrollment[e].name \notin TakenNames

\* Whatever is lost, every VPS an operator keeps enrolling becomes a worker:
\* neither a dead offer nor a failed completion keeps it out for ever.
EveryHostJoins == \A h \in Hosts : <>(host[h].pc = "joined")

=============================================================================
