-------------------------- MODULE GatewayLifecycle --------------------------
(***************************************************************************)
(* The life of a gateway row in the control plane: the gateways and jobs   *)
(* tables, the provisioning and deletion threads, the requests that create, *)
(* retry and delete gateways, the periodic recovery sweep, and the crash of *)
(* the orchestrator process.                                               *)
(*                                                                         *)
(* Granularity.  A session holds no transaction while it reads (SQLite      *)
(* through pysqlite), and its writes become visible together at commit.     *)
(* A step of this module ends at a commit or starts at an external call     *)
(* (Headscale, Incus, the gateway's agent).  Where a handler decides on     *)
(* values it read in an earlier step, the values are kept with the handler  *)
(* ("seen") and the later UPDATE writes by primary key, as the ORM does.    *)
(* An UPDATE of a row that has gone raises StaleDataError; a commit expires *)
(* what the session had read.                                              *)
(***************************************************************************)
EXTENDS Integers, FiniteSets

CONSTANTS
    MaxGateways,  \* bound: gateway row ids are 1..MaxGateways
    MaxJobs,      \* bound: job row ids are 1..MaxJobs
    Names,        \* gateway names; a gateway's VM is known by its name
    NoName,       \* the name of no gateway
    Threads,      \* slots for background threads
    Requests,     \* slots for concurrent HTTP requests
    DeleteFrom,   \* statuses in which operators ask for a deletion
    RetryFrom,    \* statuses in which operators ask for a retry
    MaxCreates,   \* bound: gateways ever created (1: no row id comes back)
    MaxFaults     \* bound: process crashes and exhausted database locks

GatewayId == 1..MaxGateways
JobId == 1..MaxJobs

GatewayStatus == {"pending", "provisioning", "ready", "error", "deleting"}
JobStatus == {"pending", "running", "completed", "failed"}
JobType == {"create", "delete"}
Absent == "absent"                      \* the status of a row that is not there

ASSUME BoundsAssumption ==
    /\ MaxGateways \in Nat \ {0}
    /\ MaxJobs \in Nat \ {0}
    /\ MaxCreates \in Nat
    /\ MaxFaults \in Nat
ASSUME NameAssumption == NoName \notin Names
ASSUME OperatorAssumption == DeleteFrom \subseteq GatewayStatus /\ RetryFrom \subseteq GatewayStatus

VARIABLES
    gateway,   \* table gateways: id -> [status, name]
    job,       \* table jobs: id -> [type, gateway, status, stale]
    vm,        \* names of the instances that exist on the worker
    active,    \* the two _active sets: thread kind -> gateway ids
    thread,    \* background threads: slot -> [kind, pc, gateway, job, name]
    request,   \* HTTP requests in flight: slot -> what they read
    sweep,     \* the recovery sweep: [pc, seen]
    created,   \* gateways created so far
    faults     \* crashes and exhausted locks so far

vars == <<gateway, job, vm, active, thread, request, sweep, created, faults>>

-----------------------------------------------------------------------------
(* Rows and lookups *)

NoGateway == [status |-> Absent, name |-> NoName]
NoJob == [type |-> "create", gateway |-> 0, status |-> Absent, stale |-> FALSE]

LiveGateways == {g \in GatewayId : gateway[g].status # Absent}
LiveJobs == {j \in JobId : job[j].status # Absent}

\* An INTEGER PRIMARY KEY without AUTOINCREMENT: one more than the largest id
\* in the table, so the ids of deleted top rows come back.  0: bound reached.
IsNextId(n, live) ==
    /\ \A i \in live : i < n
    /\ n = 1 \/ n - 1 \in live
NextId(live, ids) ==
    IF \E n \in ids : IsNextId(n, live)
    THEN CHOOSE n \in ids : IsNextId(n, live)
    ELSE 0

\* get_latest_create_job / get_latest_delete_job: 0 when there is none.
JobsOf(g, type) == {j \in LiveJobs : job[j].gateway = g /\ job[j].type = type}
IsLatest(j, g, type) == j \in JobsOf(g, type) /\ \A k \in JobsOf(g, type) : k <= j
LatestJob(g, type) ==
    IF \E j \in JobId : IsLatest(j, g, type)
    THEN CHOOSE j \in JobId : IsLatest(j, g, type)
    ELSE 0

\* get_pending_for_gateway: the first pending row of the gateway, whatever its
\* type; 0 when there is none.
IsPendingOf(j, g, jobs) == jobs[j].status = "pending" /\ jobs[j].gateway = g
IsFirstPending(j, g, jobs) ==
    IsPendingOf(j, g, jobs) /\ \A k \in JobId : IsPendingOf(k, g, jobs) => j <= k
PendingJob(g, jobs) ==
    IF \E j \in JobId : IsFirstPending(j, g, jobs)
    THEN CHOOSE j \in JobId : IsFirstPending(j, g, jobs)
    ELSE 0

StatusOfJob(j) == IF j = 0 THEN Absent ELSE job[j].status

NeedsProvisioning == {"pending", "error", "provisioning"}

NewJob(type, g) == [type |-> type, gateway |-> g, status |-> "pending", stale |-> FALSE]

\* Writing a job row refreshes updated_at, so it is no longer stale.
WithJobStatus(jobs, j, status) ==
    [jobs EXCEPT ![j].status = status, ![j].stale = FALSE]
\* set_provision_stage: touches the row if it is still there.
Touched(jobs, j) == [jobs EXCEPT ![j].stale = FALSE]

-----------------------------------------------------------------------------
(* Background threads *)

ThreadKind == {"provision", "delete"}

\* pc of a thread: the part of the code it runs next.
\*   once     _run_gateway_provisioning_once / _run_gateway_deletion_once
\*   process  process_provisioning_job / process_deletion_job, to its commit
\*   status   provision_gateway, to the commit of PROVISIONING
\*   launch   launch_gateway_vm           poll      the health polls
\*   register register .. READY           complete  peer set-up, COMPLETED
\*   execute  execute_delete_gateway      remove    release, delete, commit
\*   fail     the except branch           exit      the finally of the thread
ThreadPc == {"idle", "once", "process", "status", "launch", "poll", "register",
             "complete", "execute", "remove", "fail", "exit"}

IdleThread == [kind |-> "provision", pc |-> "idle", gateway |-> 0, job |-> 0, name |-> NoName]

\* Mutant: the _active set is not consulted.
StartAlways(kind, g, j) ==
    /\ active' = [active EXCEPT ![kind] = @ \cup {g}]
    /\ \E t \in Threads :
         /\ thread[t].pc = "idle"
         /\ thread' = [thread EXCEPT ![t] =
              [kind |-> kind, pc |-> "once", gateway |-> g, job |-> j, name |-> NoName]]

\* start_provisioning / start_deletion: one thread per gateway and kind.
Start(kind, g, j) ==
    \/ /\ g \in active[kind]
       /\ UNCHANGED <<active, thread>>
    \/ /\ g \notin active[kind]
       /\ active' = [active EXCEPT ![kind] = @ \cup {g}]
       /\ \E t \in Threads :
            /\ thread[t].pc = "idle"
            /\ thread' = [thread EXCEPT ![t] =
                 [kind |-> kind, pc |-> "once", gateway |-> g, job |-> j, name |-> NoName]]

At(t, kind, pc) == thread[t].kind = kind /\ thread[t].pc = pc
\* What a thread has no more use for is forgotten: all but its kind and gateway
\* when it ends, the name once the VM has answered or failed.
Goto(t, pc) == thread' = [thread EXCEPT
    ![t].pc = pc,
    ![t].job = IF pc = "exit" THEN 0 ELSE @,
    ![t].name = IF pc = "poll" THEN @ ELSE NoName]

\* Mutant: no finally clause, so the gateway stays in the active set.
ThreadExitOnly(t) ==
    /\ thread[t].pc = "exit"
    /\ thread' = [thread EXCEPT ![t] = IdleThread]
    /\ UNCHANGED <<gateway, job, vm, active, request, sweep, created, faults>>

\* The finally clause of the thread's target: leave the active set.
ThreadExit(t) ==
    /\ thread[t].pc = "exit"
    /\ active' = [active EXCEPT ![thread[t].kind] = @ \ {thread[t].gateway}]
    /\ thread' = [thread EXCEPT ![t] = IdleThread]
    /\ UNCHANGED <<gateway, job, vm, request, sweep, created, faults>>

-----------------------------------------------------------------------------
(* prepare_provisioning, decided on what the session has read: whether the   *)
(* gateway goes back to PENDING (an UPDATE), and the latest create job j (0:  *)
(* none, so one is inserted), which is reset to PENDING unless it is already. *)

Revives(seen, seenJob) ==
    seen = "error" \/ (seen = "provisioning" /\ seenJob = "failed")
Resets(seenJob) == seenJob \in {"failed", "completed", "running"}

\* The flush succeeds: every row it updates is still there.
CanPrepare(g, revives, j, resets) ==
    /\ revives => gateway[g].status # Absent
    /\ resets => job[j].status # Absent
    /\ j = 0 => NextId(LiveJobs, JobId) # 0

Prepare(g, revives, j, resets) ==
    /\ gateway' = IF revives THEN [gateway EXCEPT ![g].status = "pending"] ELSE gateway
    /\ job' = IF resets THEN WithJobStatus(job, j, "pending")
              ELSE IF j = 0 THEN [job EXCEPT ![NextId(LiveJobs, JobId)] = NewJob("create", g)]
              ELSE job

-----------------------------------------------------------------------------
(* The provisioning thread *)

\* Gateway gone, not in need of provisioning, or its job neither pending nor
\* abandoned: nothing to do.
ProvisionSkip(t) ==
    LET g == thread[t].gateway
        j == thread[t].job
    IN /\ At(t, "provision", "once")
       /\ \/ gateway[g].status \notin NeedsProvisioning
          \/ job[j].status \in {"completed", "failed"}
          \/ job[j].status = "running" /\ ~job[j].stale
       /\ Goto(t, "exit")
       /\ UNCHANGED <<gateway, job, vm, active, request, sweep, created, faults>>

\* The job is pending: stage QUEUED is committed.
ProvisionQueue(t) ==
    LET j == thread[t].job
    IN /\ At(t, "provision", "once")
       /\ gateway[thread[t].gateway].status \in NeedsProvisioning
       /\ job[j].status = "pending"
       /\ job' = Touched(job, j)
       /\ Goto(t, "process")
       /\ UNCHANGED <<gateway, vm, active, request, sweep, created, faults>>

\* The job has gone or was abandoned while running: prepare_provisioning, then
\* the first pending job of the gateway.
ProvisionPrepare(t) ==
    LET g == thread[t].gateway
        j == thread[t].job
        latest == LatestJob(g, "create")
        revives == Revives(gateway[g].status, StatusOfJob(latest))
        resets == Resets(StatusOfJob(latest))
    IN /\ At(t, "provision", "once")
       /\ gateway[g].status \in NeedsProvisioning
       /\ job[j].status = Absent \/ job[j].stale
       /\ CanPrepare(g, revives, latest, resets)
       /\ Prepare(g, revives, latest, resets)
       /\ thread' = [thread EXCEPT ![t].pc = "process", ![t].job = PendingJob(g, job')]
       /\ UNCHANGED <<vm, active, request, sweep, created, faults>>

\* process_provisioning_job up to its first commit.
ProvisionProcess(t) ==
    LET g == thread[t].gateway
        j == thread[t].job
    IN /\ At(t, "provision", "process")
       /\ IF StatusOfJob(j) = Absent \/ gateway[g].status = Absent
          THEN Goto(t, "exit") /\ UNCHANGED job
          ELSE Goto(t, "status") /\ job' = WithJobStatus(job, j, "running")
       /\ UNCHANGED <<gateway, vm, active, request, sweep, created, faults>>

\* provision_gateway up to the commit of PROVISIONING.  The status is written
\* whatever it is now.  A gateway that has gone ends the thread: the except
\* branch of its caller reads the name of the vanished row.
ProvisionStatus(t) ==
    LET g == thread[t].gateway
        j == thread[t].job
    IN /\ At(t, "provision", "status")
       /\ IF gateway[g].status = Absent
          THEN Goto(t, "exit") /\ UNCHANGED <<gateway, job>>
          ELSE /\ gateway' = [gateway EXCEPT ![g].status = "provisioning"]
               /\ job' = Touched(job, j)
               /\ thread' = [thread EXCEPT ![t].pc = "launch", ![t].name = gateway[g].name]
       /\ UNCHANGED <<vm, active, request, sweep, created, faults>>

\* launch_gateway_vm creates the instance unless one of that name exists; any
\* later call of it may fail and leaves the instance behind.
ProvisionLaunch(t) ==
    /\ At(t, "provision", "launch")
    /\ vm' = vm \cup {thread[t].name}
    /\ job' = Touched(job, thread[t].job)
    /\ Goto(t, "poll")
    /\ UNCHANGED <<gateway, active, request, sweep, created, faults>>

\* Mutant: a failed launch is logged, and the registration goes on.
ProvisionLaunchFailureIgnored(t) ==
    /\ At(t, "provision", "launch")
    /\ vm' \in {vm, vm \cup {thread[t].name}}
    /\ Goto(t, "register")
    /\ UNCHANGED <<gateway, job, active, request, sweep, created, faults>>

ProvisionLaunchFails(t) ==
    /\ At(t, "provision", "launch")
    /\ vm' \in {vm, vm \cup {thread[t].name}}
    /\ Goto(t, "fail")
    /\ UNCHANGED <<gateway, job, active, request, sweep, created, faults>>

\* Write the gateway's status; on a row that has gone the flush raises, and the
\* except branch cannot even read the gateway's name: the thread ends.
WriteStatus(t, status, pc) ==
    LET g == thread[t].gateway
    IN IF gateway[g].status = Absent
       THEN Goto(t, "exit") /\ UNCHANGED gateway
       ELSE Goto(t, pc) /\ gateway' = [gateway EXCEPT ![g].status = status]

\* wait_until_healthy gives up: ERROR, and a normal return.
ProvisionTimeout(t) ==
    /\ At(t, "provision", "poll")
    /\ WriteStatus(t, "error", "complete")
    /\ job' = Touched(job, thread[t].job)
    /\ UNCHANGED <<vm, active, request, sweep, created, faults>>

\* The agent in the VM answers and is healthy; stage REGISTER.
ProvisionHealthy(t) ==
    /\ At(t, "provision", "poll")
    /\ thread[t].name \in vm
    /\ job' = Touched(job, thread[t].job)
    /\ Goto(t, IF gateway[thread[t].gateway].status = Absent THEN "exit" ELSE "register")
    /\ UNCHANGED <<gateway, vm, active, request, sweep, created, faults>>

\* agent.register raises.
ProvisionRegisterFails(t) ==
    /\ At(t, "provision", "register")
    /\ Goto(t, "fail")
    /\ UNCHANGED <<gateway, job, vm, active, request, sweep, created, faults>>

\* _finalize_exit_node raises: ERROR, and a normal return.
ProvisionFinalizeFails(t) ==
    /\ At(t, "provision", "register")
    /\ WriteStatus(t, "error", "complete")
    /\ UNCHANGED <<job, vm, active, request, sweep, created, faults>>

\* The gateway is advertised: READY.
ProvisionReady(t) ==
    /\ At(t, "provision", "register")
    /\ WriteStatus(t, "ready", "complete")
    /\ UNCHANGED <<job, vm, active, request, sweep, created, faults>>

\* provision_gateway returned, with the gateway READY or ERROR: the job is
\* COMPLETED (the flush fails when its row has gone).
ProvisionComplete(t) ==
    LET j == thread[t].job
    IN /\ At(t, "provision", "complete")
       /\ job' = IF job[j].status = Absent THEN job ELSE WithJobStatus(job, j, "completed")
       /\ Goto(t, "exit")
       /\ UNCHANGED <<gateway, vm, active, request, sweep, created, faults>>

\* Mutant: the except branch fails the job and forgets the gateway.
ProvisionFailJobOnly(t) ==
    LET j == thread[t].job
    IN /\ At(t, "provision", "fail")
       /\ job' = IF job[j].status = Absent THEN job ELSE WithJobStatus(job, j, "failed")
       /\ Goto(t, "exit")
       /\ UNCHANGED <<gateway, vm, active, request, sweep, created, faults>>

\* The except branch of process_provisioning_job.
ProvisionFail(t) ==
    LET g == thread[t].gateway
        j == thread[t].job
    IN /\ At(t, "provision", "fail")
       /\ IF job[j].status = Absent \/ gateway[g].status = Absent
          THEN UNCHANGED <<gateway, job>>
          ELSE /\ gateway' = [gateway EXCEPT ![g].status = "error"]
               /\ job' = WithJobStatus(job, j, "failed")
       /\ Goto(t, "exit")
       /\ UNCHANGED <<vm, active, request, sweep, created, faults>>

-----------------------------------------------------------------------------
(* The deletion thread *)

\* The gateway row has gone: the job, if any has that id, is COMPLETED.
CompleteIfThere(j) ==
    job' = IF job[j].status = Absent THEN job ELSE WithJobStatus(job, j, "completed")

DeleteGone(t) ==
    /\ At(t, "delete", "once") \/ At(t, "delete", "execute")
    /\ gateway[thread[t].gateway].status = Absent
    /\ CompleteIfThere(thread[t].job)
    /\ Goto(t, "exit")
    /\ UNCHANGED <<gateway, vm, active, request, sweep, created, faults>>

\* The gateway is no longer DELETING, or its job has gone or is over.
DeleteSkip(t) ==
    LET status == gateway[thread[t].gateway].status
    IN /\ At(t, "delete", "once")
       /\ status # Absent
       /\ \/ status # "deleting"
          \/ job[thread[t].job].status \notin {"pending", "running"}
       /\ Goto(t, "exit")
       /\ UNCHANGED <<gateway, job, vm, active, request, sweep, created, faults>>

\* A pending or running job is taken; a stale one is first set to PENDING.
DeleteTake(t) ==
    LET j == thread[t].job
    IN /\ At(t, "delete", "once")
       /\ gateway[thread[t].gateway].status = "deleting"
       /\ job[j].status \in {"pending", "running"}
       /\ job' = IF job[j].stale THEN WithJobStatus(job, j, "pending") ELSE job
       /\ Goto(t, "process")
       /\ UNCHANGED <<gateway, vm, active, request, sweep, created, faults>>

\* process_deletion_job up to its commit.
DeleteProcess(t) ==
    LET j == thread[t].job
    IN /\ At(t, "delete", "process")
       /\ IF job[j].status = Absent
          THEN Goto(t, "exit") /\ UNCHANGED job
          ELSE Goto(t, "execute") /\ job' = WithJobStatus(job, j, "running")
       /\ UNCHANGED <<gateway, vm, active, request, sweep, created, faults>>

\* execute_delete_gateway: the Headscale node, then the VM.  What goes wrong
\* with the VM is swallowed, and the deletion goes on.
DeleteExecute(t) ==
    LET g == thread[t].gateway
    IN /\ At(t, "delete", "execute")
       /\ gateway[g].status # Absent
       /\ vm' \in {vm, vm \ {gateway[g].name}}
       /\ Goto(t, "remove")
       /\ UNCHANGED <<gateway, job, active, request, sweep, created, faults>>

\* An error that is neither HeadscaleError nor inside the VM's try block.
DeleteExecuteFails(t) ==
    /\ At(t, "delete", "execute")
    /\ gateway[thread[t].gateway].status # Absent
    /\ Goto(t, "fail")
    /\ UNCHANGED <<gateway, job, vm, active, request, sweep, created, faults>>

\* Mutants: no cascade, so the jobs' gateway_id becomes null; every job goes with
\* the row; the jobs go in a commit of their own, before the row.
DeleteRemoveNullsJobs(t) ==
    LET g == thread[t].gateway
    IN /\ At(t, "delete", "remove")
       /\ gateway' = [gateway EXCEPT ![g] = NoGateway]
       /\ job' = [j \in JobId |-> IF job[j].gateway = g THEN [job[j] EXCEPT !.gateway = 0] ELSE job[j]]
       /\ Goto(t, "exit")
       /\ UNCHANGED <<vm, active, request, sweep, created, faults>>
DeleteRemoveAllJobs(t) ==
    LET g == thread[t].gateway
    IN /\ At(t, "delete", "remove")
       /\ gateway' = [gateway EXCEPT ![g] = NoGateway]
       /\ job' = [j \in JobId |-> NoJob]
       /\ Goto(t, "exit")
       /\ UNCHANGED <<vm, active, request, sweep, created, faults>>
DeleteRemoveJobsFirst(t) ==
    LET g == thread[t].gateway
    IN /\ At(t, "delete", "remove")
       /\ job' = [j \in JobId |-> IF job[j].gateway = g THEN NoJob ELSE job[j]]
       /\ Goto(t, "exit")
       /\ UNCHANGED <<gateway, vm, active, request, sweep, created, faults>>

\* Release address and port, delete the row; its jobs go with it (cascade
\* "all, delete-orphan"), this one included.  The status is not read again.
DeleteRemove(t) ==
    LET g == thread[t].gateway
    IN /\ At(t, "delete", "remove")
       /\ gateway' = [gateway EXCEPT ![g] = NoGateway]
       /\ job' = [j \in JobId |-> IF job[j].gateway = g THEN NoJob ELSE job[j]]
       /\ Goto(t, "exit")
       /\ UNCHANGED <<vm, active, request, sweep, created, faults>>

\* Mutant: the except branch fails the job and forgets the gateway.
DeleteFailJobOnly(t) ==
    LET j == thread[t].job
    IN /\ At(t, "delete", "fail")
       /\ job' = IF job[j].status = Absent THEN job ELSE WithJobStatus(job, j, "failed")
       /\ Goto(t, "exit")
       /\ UNCHANGED <<gateway, vm, active, request, sweep, created, faults>>

\* The except branch of process_deletion_job.
DeleteFail(t) ==
    LET g == thread[t].gateway
        j == thread[t].job
    IN /\ At(t, "delete", "fail")
       /\ job' = IF job[j].status = Absent THEN job ELSE WithJobStatus(job, j, "failed")
       /\ gateway' = IF gateway[g].status = Absent THEN gateway
                     ELSE [gateway EXCEPT ![g].status = "error"]
       /\ Goto(t, "exit")
       /\ UNCHANGED <<vm, active, request, sweep, created, faults>>

-----------------------------------------------------------------------------
(* A database lock that outlasts the busy timeout *)

\* Where "database is locked" takes a thread that is about to write.  Outside the
\* try block, and so in its except branch, run_gateway_* starts over, and gives up
\* after _LOCK_RETRIES.  Inside it a deletion records its failure; a provisioning
\* thread ends, because the except branch reads gateway.name from a session whose
\* flush has failed.
LockedPc(kind, pc) ==
    IF kind = "provision"
    THEN IF pc \in {"process", "fail"} THEN {"once"} ELSE {"exit"}
    ELSE CASE pc = "once" -> {"exit"}
           [] pc = "process" -> {"once"}
           [] pc = "remove" -> {"fail"}
           [] pc = "fail" -> {"once"}
           [] OTHER -> {}

ThreadLocked(t) ==
    /\ faults < MaxFaults
    /\ thread[t].pc \notin {"idle", "exit", "launch"}
    /\ \E pc \in LockedPc(thread[t].kind, thread[t].pc) : Goto(t, pc)
    /\ faults' = faults + 1
    /\ UNCHANGED <<gateway, job, vm, active, request, sweep, created>>

-----------------------------------------------------------------------------
(* HTTP requests *)

\* op of a request: "delete" has read the gateway and its latest delete job and
\* will commit; "join" returns the job it found and only starts its thread;
\* "retry" will run prepare_provisioning; "pick" will look up the pending job
\* and start its thread.  Of what it read a request keeps the job, whether it
\* will update the gateway's row, and whether it will reset the job.
RequestOp == {"idle", "delete", "join", "retry", "pick"}
NewRequest(op, g, j) ==
    [op |-> op, gateway |-> g, job |-> j, updates |-> FALSE, resets |-> FALSE]
IdleRequest == NewRequest("idle", 0, 0)
Finish(r) == request' = [request EXCEPT ![r] = IdleRequest]

\* create_gateway: gateway and job in one commit, then start_provisioning.  The
\* allocation of its address and port is ResourcePools' subject.
CreateGateway(name) ==
    LET g == NextId(LiveGateways, GatewayId)
        j == NextId(LiveJobs, JobId)
    IN /\ created < MaxCreates
       /\ g # 0 /\ j # 0
       /\ \A i \in LiveGateways : gateway[i].name # name
       /\ gateway' = [gateway EXCEPT ![g] = [status |-> "pending", name |-> name]]
       /\ job' = [job EXCEPT ![j] = NewJob("create", g)]
       /\ Start("provision", g, j)
       /\ created' = created + 1
       /\ UNCHANGED <<vm, request, sweep, faults>>

\* request_delete_gateway reads the gateway and its latest delete job; a
\* deletion that is already pending or running is returned as it is.
DeleteRead(r, g) ==
    LET existing == LatestJob(g, "delete")
        joins == gateway[g].status = "deleting"
                 /\ StatusOfJob(existing) \in {"pending", "running"}
    IN /\ request[r].op = "idle"
       /\ gateway[g].status \in DeleteFrom
       /\ request' = [request EXCEPT ![r] =
            IF joins THEN NewRequest("join", g, existing)
            ELSE [NewRequest("delete", g,
                             IF StatusOfJob(existing) = "pending" THEN existing ELSE 0)
                  EXCEPT !.updates = gateway[g].status # "deleting"]]
       /\ UNCHANGED <<gateway, job, vm, active, thread, sweep, created, faults>>

DeleteJoin(r) ==
    /\ request[r].op = "join"
    /\ Start("delete", request[r].gateway, request[r].job)
    /\ Finish(r)
    /\ UNCHANGED <<gateway, job, vm, sweep, created, faults>>

\* Mutant: no second job while a deletion thread is there.
DeleteCommitUnlessActive(r) ==
    LET g == request[r].gateway
        j == IF request[r].job # 0 THEN request[r].job ELSE NextId(LiveJobs, JobId)
    IN /\ request[r].op = "delete"
       /\ j # 0 /\ gateway[g].status # Absent
       /\ gateway' = [gateway EXCEPT ![g].status = "deleting"]
       /\ job' = IF request[r].job # 0 \/ g \in active["delete"] THEN job
                 ELSE [job EXCEPT ![j] = NewJob("delete", g)]
       /\ Start("delete", g, j)
       /\ Finish(r)
       /\ UNCHANGED <<vm, sweep, created, faults>>

\* DELETING (an UPDATE only if the request saw another status), the job it saw
\* pending or a new one, commit, start_deletion.
DeleteCommit(r) ==
    LET q == request[r]
        g == q.gateway
        j == IF q.job # 0 THEN q.job ELSE NextId(LiveJobs, JobId)
    IN /\ q.op = "delete"
       /\ j # 0
       /\ q.updates => gateway[g].status # Absent
       /\ gateway' = IF q.updates THEN [gateway EXCEPT ![g].status = "deleting"] ELSE gateway
       /\ job' = IF q.job # 0 THEN job
                 ELSE [job EXCEPT ![j] = NewJob("delete", g)]
       /\ IF job'[j].status = Absent
          THEN UNCHANGED <<active, thread>>    \* job.id of a vanished row raises
          ELSE Start("delete", g, j)
       /\ Finish(r)
       /\ UNCHANGED <<vm, sweep, created, faults>>

\* The gateway's row has gone before the flush: the request fails.
DeleteStale(r) ==
    /\ request[r].op = "delete"
    /\ gateway[request[r].gateway].status = Absent
    /\ request[r].updates
    /\ Finish(r)
    /\ UNCHANGED <<gateway, job, vm, active, thread, sweep, created, faults>>

\* _maybe_enqueue_provisioning reads the gateway and its latest create job.  A
\* pending job is started; a completed one of a gateway that is not ERROR is
\* left alone; otherwise prepare_provisioning follows.
RetryRead(r, g) ==
    LET latest == LatestJob(g, "create")
        prepares == StatusOfJob(latest) \in {Absent, "failed", "running"}
                    \/ gateway[g].status = "error"
    IN /\ request[r].op = "idle"
       /\ gateway[g].status \in RetryFrom \cap NeedsProvisioning
       /\ \/ /\ prepares
             /\ request' = [request EXCEPT ![r] =
                  [NewRequest("retry", g, latest) EXCEPT
                     !.updates = Revives(gateway[g].status, StatusOfJob(latest)),
                     !.resets = Resets(StatusOfJob(latest))]]
             /\ UNCHANGED <<active, thread>>
          \/ /\ ~prepares
             /\ StatusOfJob(latest) = "pending"
             /\ Start("provision", g, latest)
             /\ UNCHANGED request
       /\ UNCHANGED <<gateway, job, vm, sweep, created, faults>>

RetryPrepare(r) ==
    LET q == request[r]
    IN /\ q.op = "retry"
       /\ IF CanPrepare(q.gateway, q.updates, q.job, q.resets)
          THEN /\ Prepare(q.gateway, q.updates, q.job, q.resets)
               /\ request' = [request EXCEPT ![r] = NewRequest("pick", q.gateway, 0)]
          ELSE /\ UNCHANGED <<gateway, job>>
               /\ Finish(r)
       /\ UNCHANGED <<vm, active, thread, sweep, created, faults>>

\* After its commit the request takes the first pending job it finds.
RetryPick(r) ==
    LET g == request[r].gateway
        j == PendingJob(g, job)
    IN /\ request[r].op = "pick"
       /\ IF j = 0 THEN UNCHANGED <<active, thread>> ELSE Start("provision", g, j)
       /\ Finish(r)
       /\ UNCHANGED <<gateway, job, vm, sweep, created, faults>>

-----------------------------------------------------------------------------
(* The recovery sweep: resume_incomplete_provisioning, then                 *)
(* resume_incomplete_deletions, each over its own list_all().               *)

\* seen[g] is the status list_all() read, "expired" once a commit of the sweep
\* has expired it, and Absent when g is not in the list or has been dealt with.
Expired == "expired"
IdleSweep == [pc |-> "idle", seen |-> [g \in GatewayId |-> Absent]]
Listed == [g \in GatewayId |-> gateway[g].status]
SweepDone == \A g \in GatewayId : sweep.seen[g] = Absent
IsNextListed(g) ==
    sweep.seen[g] # Absent /\ \A i \in GatewayId : sweep.seen[i] # Absent => g <= i
SeenNow(g) == IF sweep.seen[g] = Expired THEN gateway[g].status ELSE sweep.seen[g]
Passed(g) == [sweep.seen EXCEPT ![g] = Absent]
PassedAndExpired(g) ==
    [i \in GatewayId |-> IF i = g \/ sweep.seen[i] = Absent THEN Absent ELSE Expired]

\* A sweep that would find nothing to do is left out.
SweepBegin ==
    /\ sweep.pc = "idle"
    /\ \E g \in GatewayId : gateway[g].status \in NeedsProvisioning \cup {"deleting"}
    /\ sweep' = [pc |-> "provision", seen |-> Listed]
    /\ UNCHANGED <<gateway, job, vm, active, thread, request, created, faults>>

\* An expired row that has gone raises ObjectDeletedError: this sweep is over.
SweepRaises(g) ==
    /\ sweep.pc # "idle"
    /\ IsNextListed(g)
    /\ SeenNow(g) = Absent
    /\ sweep' = IdleSweep
    /\ UNCHANGED <<gateway, job, vm, active, thread, request, created, faults>>

\* Mutant: a running job is taken for one that somebody runs.
SweepSkipRunning(g) ==
    LET latest == LatestJob(g, IF sweep.pc = "provision" THEN "create" ELSE "delete")
    IN /\ sweep.pc # "idle"
       /\ IsNextListed(g)
       /\ SeenNow(g) # Absent
       /\ \/ SeenNow(g) \notin (IF sweep.pc = "provision" THEN NeedsProvisioning ELSE {"deleting"})
          \/ StatusOfJob(latest) \in {"running", "completed", "failed"}
       /\ sweep' = [sweep EXCEPT !.seen = Passed(g)]
       /\ UNCHANGED <<gateway, job, vm, active, thread, request, created, faults>>

\* Nothing to resume for g: wrong status, a live thread, a job that is over, or
\* (for a deletion) a running job that is not stale.
SweepSkip(g) ==
    LET latest == LatestJob(g, IF sweep.pc = "provision" THEN "create" ELSE "delete")
    IN /\ sweep.pc # "idle"
       /\ IsNextListed(g)
       /\ SeenNow(g) # Absent
       /\ \/ SeenNow(g) \notin (IF sweep.pc = "provision" THEN NeedsProvisioning ELSE {"deleting"})
          \/ g \in active[sweep.pc]
          \/ StatusOfJob(latest) \in {"completed", "failed"}
          \/ sweep.pc = "delete" /\ StatusOfJob(latest) = "running" /\ ~job[latest].stale
       /\ sweep' = [sweep EXCEPT !.seen = Passed(g)]
       /\ UNCHANGED <<gateway, job, vm, active, thread, request, created, faults>>

\* A provisioning nobody is running: its job is pending, or is prepared again.
SweepProvision(g) ==
    LET latest == LatestJob(g, "create")
        revives == Revives(SeenNow(g), StatusOfJob(latest))
        resets == Resets(StatusOfJob(latest))
    IN /\ sweep.pc = "provision"
       /\ IsNextListed(g)
       /\ SeenNow(g) \in NeedsProvisioning
       /\ g \notin active["provision"]
       /\ StatusOfJob(latest) \in {"pending", "running", Absent}
       /\ IF StatusOfJob(latest) = "pending"
          THEN /\ Start("provision", g, latest)
               /\ sweep' = [sweep EXCEPT !.seen = Passed(g)]
               /\ UNCHANGED <<gateway, job>>
          ELSE IF CanPrepare(g, revives, latest, resets)
          THEN /\ Prepare(g, revives, latest, resets)
               /\ Start("provision", g, PendingJob(g, job'))
               /\ sweep' = [sweep EXCEPT !.seen = PassedAndExpired(g)]
          ELSE /\ sweep' = IdleSweep            \* the flush raised
               /\ UNCHANGED <<gateway, job, active, thread>>
       /\ UNCHANGED <<vm, request, created, faults>>

SweepTurn ==
    /\ sweep.pc = "provision"
    /\ SweepDone
    /\ sweep' = [pc |-> "delete", seen |-> Listed]
    /\ UNCHANGED <<gateway, job, vm, active, thread, request, created, faults>>

\* A deletion nobody is running: its job is pending, stale, or not there.
SweepDelete(g) ==
    LET latest == LatestJob(g, "delete")
        j == IF latest = 0 THEN NextId(LiveJobs, JobId) ELSE latest
    IN /\ sweep.pc = "delete"
       /\ IsNextListed(g)
       /\ SeenNow(g) = "deleting"
       /\ g \notin active["delete"]
       /\ \/ StatusOfJob(latest) \in {"pending", Absent}
          \/ StatusOfJob(latest) = "running" /\ job[latest].stale
       /\ j # 0
       /\ job' = IF latest = 0 THEN [job EXCEPT ![j] = NewJob("delete", g)]
                 ELSE WithJobStatus(job, j, "pending")
       /\ Start("delete", g, j)
       /\ sweep' = [sweep EXCEPT !.seen =
            IF StatusOfJob(latest) = "pending" THEN Passed(g) ELSE PassedAndExpired(g)]
       /\ UNCHANGED <<gateway, vm, request, created, faults>>

SweepEnd ==
    /\ sweep.pc = "delete"
    /\ SweepDone
    /\ sweep' = IdleSweep
    /\ UNCHANGED <<gateway, job, vm, active, thread, request, created, faults>>

-----------------------------------------------------------------------------
(* Time, crash, and the specification *)

\* Ten minutes pass without an update of a running job.  Not while a thread
\* runs it: nobody asks whether such a job is stale.
Age(j) ==
    /\ job[j].status = "running"
    /\ ~job[j].stale
    /\ \A t \in Threads : thread[t].job = j => thread[t].pc = "once"
    /\ job' = [job EXCEPT ![j].stale = TRUE]
    /\ UNCHANGED <<gateway, vm, active, thread, request, sweep, created, faults>>

\* The process dies: daemon threads, requests, the sweep and the active sets go
\* with it; the database and the VMs stay.
Crash ==
    /\ faults < MaxFaults
    /\ \/ \E t \in Threads : thread[t].pc # "idle"
       \/ \E r \in Requests : request[r].op # "idle"
       \/ sweep.pc # "idle"
    /\ active' = [kind \in ThreadKind |-> {}]
    /\ thread' = [t \in Threads |-> IdleThread]
    /\ request' = [r \in Requests |-> IdleRequest]
    /\ sweep' = IdleSweep
    /\ faults' = faults + 1
    /\ UNCHANGED <<gateway, job, vm, created>>

Init ==
    /\ gateway = [g \in GatewayId |-> NoGateway]
    /\ job = [j \in JobId |-> NoJob]
    /\ vm = {}
    /\ active = [kind \in ThreadKind |-> {}]
    /\ thread = [t \in Threads |-> IdleThread]
    /\ request = [r \in Requests |-> IdleRequest]
    /\ sweep = IdleSweep
    /\ created = 0
    /\ faults = 0

ProvisionStep(t) ==
    \/ ProvisionSkip(t) \/ ProvisionQueue(t) \/ ProvisionPrepare(t)
    \/ ProvisionProcess(t) \/ ProvisionStatus(t)
    \/ ProvisionLaunch(t) \/ ProvisionLaunchFails(t)
    \/ ProvisionTimeout(t) \/ ProvisionHealthy(t)
    \/ ProvisionRegisterFails(t) \/ ProvisionFinalizeFails(t) \/ ProvisionReady(t)
    \/ ProvisionComplete(t) \/ ProvisionFail(t)

DeleteStep(t) ==
    \/ DeleteGone(t) \/ DeleteSkip(t) \/ DeleteTake(t) \/ DeleteProcess(t)
    \/ DeleteExecute(t) \/ DeleteExecuteFails(t) \/ DeleteRemove(t) \/ DeleteFail(t)

ThreadStep(t) == ProvisionStep(t) \/ DeleteStep(t) \/ ThreadExit(t)

RequestBegins(r) == \E g \in GatewayId : DeleteRead(r, g) \/ RetryRead(r, g)
RequestStep(r) ==
    DeleteJoin(r) \/ DeleteCommit(r) \/ DeleteStale(r) \/ RetryPrepare(r) \/ RetryPick(r)

SweepStep ==
    \/ SweepBegin \/ SweepTurn \/ SweepEnd
    \/ \E g \in GatewayId : SweepRaises(g) \/ SweepSkip(g) \/ SweepProvision(g) \/ SweepDelete(g)

Next ==
    \/ \E t \in Threads : ThreadStep(t) \/ ThreadLocked(t)
    \/ \E name \in Names : CreateGateway(name)
    \/ \E r \in Requests : RequestBegins(r) \/ RequestStep(r)
    \/ SweepStep
    \/ \E j \in JobId : Age(j)
    \/ Crash

Spec == Init /\ [][Next]_vars

\* Threads and requests are run by the interpreter, the sweep by the scheduler
\* every metrics_poll_interval_seconds, and the clock advances.  Nothing makes an
\* operator act, or the process crash.
Fairness ==
    /\ \A t \in Threads : WF_vars(ThreadStep(t))
    /\ \A r \in Requests : WF_vars(RequestStep(r))
    /\ WF_vars(SweepStep)
    /\ \A j \in JobId : WF_vars(Age(j))

FairSpec == Spec /\ Fairness

-----------------------------------------------------------------------------
(* Properties *)

GatewayRow == [status : GatewayStatus, name : Names] \cup {NoGateway}
JobRow == [type : JobType, gateway : GatewayId, status : JobStatus, stale : BOOLEAN]
          \cup {NoJob}
ThreadState == [kind : ThreadKind, pc : ThreadPc, gateway : GatewayId \cup {0},
                job : JobId \cup {0}, name : Names \cup {NoName}]
RequestState == [op : RequestOp, gateway : GatewayId \cup {0}, job : JobId \cup {0},
                 updates : BOOLEAN, resets : BOOLEAN]
SweepState == [pc : {"idle", "provision", "delete"},
               seen : [GatewayId -> GatewayStatus \cup {Absent, Expired}]]

\* Every table, in-memory set and handler holds values of its type.
TypeOK ==
    /\ gateway \in [GatewayId -> GatewayRow]
    /\ job \in [JobId -> JobRow]
    /\ vm \subseteq Names
    /\ active \in [ThreadKind -> SUBSET GatewayId]
    /\ thread \in [Threads -> ThreadState]
    /\ request \in [Requests -> RequestState]
    /\ sweep \in SweepState
    /\ created \in 0..MaxCreates
    /\ faults \in 0..MaxFaults

Runs(t, kind, g) ==
    thread[t].pc # "idle" /\ thread[t].kind = kind /\ thread[t].gateway = g

\* The _active sets are exact: a gateway is in one if and only if a thread of
\* that kind works on it (provisioning.py and deletion.py, start_* and the
\* finally of *_thread), whatever starts the threads and however they end.
ActiveIsExact ==
    \A kind \in ThreadKind, g \in GatewayId :
        g \in active[kind] <=> \E t \in Threads : Runs(t, kind, g)

\* Never two threads of one kind on one gateway: two provisioning threads would
\* launch the same VM, two deletion threads release the same address twice.
OneThreadPerGateway ==
    \A kind \in ThreadKind, g \in GatewayId, t, u \in Threads :
        Runs(t, kind, g) /\ Runs(u, kind, g) => t = u

\* A gateway row always has a create job to retry, whatever was deleted, reset
\* or inserted around it (create_gateway, reset_failed_job, the job cascade).
CreateJobExists ==
    \A g \in LiveGateways : JobsOf(g, "create") # {}

\* A gateway that waits for provisioning has a job the sweep would resume, or a
\* live thread: resume_incomplete_provisioning passes over jobs that are over.
PendingRecoverable ==
    \A g \in LiveGateways : gateway[g].status \in {"pending", "provisioning"} =>
        \/ StatusOfJob(LatestJob(g, "create")) \in {"pending", "running"}
        \/ g \in active["provision"]

\* The same of a gateway that is DELETING: resume_incomplete_deletions passes
\* over jobs that are over ("Recover gateways left deleting after a restart or
\* failed background task").
DeletingRecoverable ==
    \A g \in LiveGateways : gateway[g].status = "deleting" =>
        \/ StatusOfJob(LatestJob(g, "delete")) \in {"pending", "running", Absent}
        \/ g \in active["delete"]

\* No gateway waits for provisioning for ever: it becomes READY or ERROR, or is
\* deleted ("Recover gateways left pending after a restart or failed
\* background task").
ProvisioningEnds ==
    \A g \in GatewayId :
        gateway[g].status \in {"pending", "provisioning"}
            ~> gateway[g].status \notin {"pending", "provisioning"}

\* However many requests ask for one deletion: each may insert a job of its own, having
\* read none (request_delete_gateway), one thread runs, and the second request may put
\* the gateway back to DELETING when the first one's deletion has failed.  Its latest
\* job is still one that is resumed, as long as there was no crash and no exhausted
\* lock, and no other gateway whose threads may write jobs that have got their ids.
RacingDeletionsRecoverable == faults = 0 /\ created < 2 => DeletingRecoverable

\* Every gateway leaves the _active sets: an entry that stayed would block the
\* gateway's provisioning or deletion until the next restart.
ThreadsEnd ==
    \A kind \in ThreadKind, g \in GatewayId : g \in active[kind] ~> g \notin active[kind]
=============================================================================
