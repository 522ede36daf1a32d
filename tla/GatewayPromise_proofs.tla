------------------------ MODULE GatewayPromise_proofs ------------------------
(***************************************************************************)
(* What the sweep can count on, and what GatewayPromise promises, proved of *)
(* GatewayLifecycle for any number of gateways, jobs, threads, crashes and  *)
(* sweeps, where nobody retries and no id comes back:                       *)
(*   PendingIsResumed     Spec => []PendingRecoverable                      *)
(* and where gateways are deleted when READY, by one request at a time, and *)
(* no lock takes the commit of COMPLETED:                                   *)
(*   DeletingIsResumed    Spec => []DeletingRecoverable                     *)
(*   KeepsPromise         every step is one of GatewayPromise, or none      *)
(* MCGatewayLifecycle's PromiseKept adds to KeepsPromise that what is under *)
(* way ends, which TLC checks.                                              *)
(***************************************************************************)
EXTENDS GatewayLifecycle_proofs, FiniteSetTheorems

\* The abstract state: what the gateways' rows and the worker's instances show.
Statuses == [g \in GatewayId |-> gateway[g].status]
Served == {g \in LiveGateways : gateway[g].name \in vm}

Promise == INSTANCE GatewayPromise WITH
    Gateways <- GatewayId, status <- Statuses, served <- Served

-----------------------------------------------------------------------------
(* The conditions *)

\* Nobody retries: retry_strands_pending shows what a retry may do.
NobodyRetries == RetryFrom = {}

\* Gateways are deleted when READY (or again when DELETING), by one request at a
\* time.
DeletedWhenReady ==
    /\ DeleteFrom \subseteq {"ready", "deleting"}
    /\ \A q, r \in Requests : q = r

\* A new row does not get the id of a row that a thread, a request, the sweep or a
\* job still names: what AUTOINCREMENT would give, and nothing else does.
JobIsNew(j) ==
    /\ \A t \in Threads : thread[t].job # j
    /\ \A r \in Requests : request[r].job # j
GatewayIsNew(g) ==
    /\ \A t \in Threads : thread[t].gateway # g
    /\ \A r \in Requests : request[r].gateway # g
    /\ \A j \in LiveJobs : job[j].gateway # g
    /\ sweep.seen[g] = Absent
InsertsNewIds ==
    /\ \A j \in JobId : job[j].status = Absent /\ job'[j].status # Absent => JobIsNew(j)
    /\ \A g \in GatewayId : gateway[g].status = Absent /\ gateway'[g].status # Absent => GatewayIsNew(g)
IdsNotReused == [][InsertsNewIds]_vars

\* Every completed provisioning is recorded in its job, or a crash gets in the way.
CommitNotLocked == \A t \in Threads : thread[t].pc = "complete" => ~ThreadLocked(t)
CompletionsRecorded == [][CommitNotLocked]_vars

-----------------------------------------------------------------------------
(* Jobs and the handlers that work on them *)

IsOpen(status) == status \in {"pending", "running"}
Waits(status) == status \in {"pending", "provisioning"}

\* A gateway has one create job, and it is the first of the gateway's jobs.
OneCreateJob ==
    \A g \in LiveGateways, j, k \in LiveJobs :
        job[j].gateway = g /\ job[j].type = "create" /\ job[k].gateway = g =>
            k = j \/ (j < k /\ job[k].type = "delete")

\* A thread's or a request's job, if it is there, is one of its gateway, and a
\* deletion's is a delete job.  No request is a retry.
OwnJobs ==
    /\ \A t \in Threads : thread[t].pc # "idle" /\ thread[t].job \in LiveJobs =>
         /\ job[thread[t].job].gateway = thread[t].gateway
         /\ thread[t].kind = "delete" => job[thread[t].job].type = "delete"
    /\ \A r \in Requests : request[r].op # "idle" =>
         /\ request[r].op \in {"delete", "join"}
         /\ request[r].job \in LiveJobs =>
              /\ job[request[r].job].gateway = request[r].gateway
              /\ job[request[r].job].type = "delete"

\* A provisioning thread works on its gateway's create job, which is open until
\* the thread closes it; when it does, the gateway waits for nothing.
WorksOnOpenJob(t) ==
    /\ thread[t].job \in LiveJobs
    /\ job[thread[t].job].gateway = thread[t].gateway
    /\ job[thread[t].job].type = "create"
    /\ IsOpen(job[thread[t].job].status)
    /\ thread[t].pc = "complete" => ~Waits(gateway[thread[t].gateway].status)
ThreadsWork ==
    \A t \in Threads :
        /\ thread[t].kind = "provision"
        /\ thread[t].pc \notin {"idle", "exit"}
        /\ thread[t].gateway \in LiveGateways
        => WorksOnOpenJob(t)

\* Who waits has an open create job.
WaitsForOpenJob ==
    \A g \in LiveGateways, j \in LiveJobs :
        Waits(gateway[g].status) /\ job[j].gateway = g /\ job[j].type = "create" =>
            IsOpen(job[j].status)

PInv == OneCreateJob /\ OwnJobs /\ ThreadsWork /\ WaitsForOpenJob

-----------------------------------------------------------------------------
(* Gateways that are deleted when READY *)

OfGateway(j, g, type) == j \in LiveJobs /\ job[j].gateway = g /\ job[j].type = type

\* A provisioning thread is the only one to write its gateway's status until the
\* gateway is READY or ERROR, and knows its VM.
HoldsRow(t) ==
    LET g == thread[t].gateway
        pc == thread[t].pc
    IN /\ pc \in {"process", "status"} => gateway[g].status \in NeedsProvisioning
       /\ pc \in {"launch", "poll", "register", "fail"} => gateway[g].status = "provisioning"
       /\ pc \in {"launch", "poll"} => thread[t].name = gateway[g].name
       /\ pc = "register" => gateway[g].name \in vm
ProvisionHolds ==
    \A t \in Threads : thread[t].kind = "provision" => HoldsRow(t)

\* A deletion thread past its checks has a DELETING gateway and its open job.
Deletes(t) == thread[t].kind = "delete" /\ thread[t].pc \in {"process", "execute", "remove", "fail"}
HoldsJob(t) ==
    /\ gateway[thread[t].gateway].status = "deleting"
    /\ OfGateway(thread[t].job, thread[t].gateway, "delete")
    /\ IsOpen(job[thread[t].job].status)
DeleteHolds ==
    \A t \in Threads : Deletes(t) => HoldsJob(t)

\* A deletion has a job, and so has a request that joins one.
JobsKnown ==
    /\ \A t \in Threads : thread[t].kind = "delete" /\ thread[t].pc \notin {"idle", "exit"} =>
         thread[t].job # 0
    /\ \A r \in Requests : request[r].op = "join" => request[r].job # 0

\* A request that will write DELETING still has a READY gateway before it.
RequestHolds ==
    \A r \in Requests : request[r].op = "delete" =>
        request[r].updates /\ request[r].job = 0 /\ gateway[request[r].gateway].status = "ready"

\* A gateway has an open delete job if and only if it is DELETING, and that job
\* is its latest; what is left of a gateway that has gone is one delete job at most.
DeleteJobs ==
    /\ \A g \in LiveGateways : gateway[g].status = "deleting" =>
         \E j \in JobId : OfGateway(j, g, "delete") /\ IsOpen(job[j].status)
    /\ \A g \in LiveGateways, j \in JobId :
         OfGateway(j, g, "delete") /\ IsOpen(job[j].status) =>
            gateway[g].status = "deleting" /\ IsLatest(j, g, "delete")
    /\ \A g \in GatewayId \ LiveGateways, j, k \in JobId :
         OfGateway(j, g, "delete") /\ OfGateway(k, g, "delete") => j = k

\* A sweep that still believes a gateway ERROR does not find its create job open
\* when it has become READY or DELETING, unless a thread is about to close it;
\* one that believes it DELETING finds a delete job.
SweepHolds ==
    \A g \in LiveGateways :
        /\ sweep.seen[g] = "error" /\ gateway[g].status \in {"ready", "deleting"} =>
             \/ \A j \in JobId : OfGateway(j, g, "create") => ~IsOpen(job[j].status)
             \/ \E t \in Threads : Runs(t, "provision", g) /\ thread[t].pc = "complete"
        /\ sweep.seen[g] = "deleting" => \E j \in JobId : IsLatest(j, g, "delete")

UniqueNames ==
    \A g, h \in LiveGateways : gateway[g].name = gateway[h].name => g = h

DInv ==
    /\ ProvisionHolds /\ DeleteHolds /\ JobsKnown /\ RequestHolds
    /\ DeleteJobs /\ SweepHolds /\ UniqueNames

-----------------------------------------------------------------------------
(* What the writes of a step do to the rows, row by row *)

\* The rows of the two tables stay as they are, but for updated_at; or one row
\* gets another status.
GatewaysStay == \A h \in GatewayId : gateway'[h] = gateway[h]
GatewayBecomes(g, status) == \A h \in GatewayId :
    /\ gateway'[h].name = gateway[h].name
    /\ gateway'[h].status = IF h = g THEN status ELSE gateway[h].status
SameJob(k) == job'[k].gateway = job[k].gateway /\ job'[k].type = job[k].type
JobsStay == \A k \in JobId : SameJob(k) /\ job'[k].status = job[k].status
JobBecomes(j, status) == \A k \in JobId :
    /\ SameJob(k)
    /\ job'[k].status = IF k = j THEN status ELSE job[k].status

\* One thread moves; what it works on stays, until it is about to end.
MovesTo(t, pc) ==
    /\ \A u \in Threads : u # t => thread'[u] = thread[u]
    /\ thread'[t].kind = thread[t].kind
    /\ thread'[t].gateway = thread[t].gateway
    /\ thread'[t].pc = pc
    /\ thread'[t].job = IF pc = "exit" THEN 0 ELSE thread[t].job
    /\ pc = "poll" => thread'[t].name = thread[t].name

LEMMA GotoMoves ==
    ASSUME IInv, NEW t \in Threads, NEW pc, Goto(t, pc)
    PROVE  MovesTo(t, pc)
<1>1. thread \in [Threads -> ThreadState]
  BY DEF IInv, ThreadsInv
<1>. QED  BY <1>1 DEF Goto, MovesTo, ThreadState

LEMMA TouchStays ==
    ASSUME IInv, NEW j, job' = job \/ job' = Touched(job, j)
    PROVE  JobsStay
<1>1. ASSUME NEW k \in JobId PROVE SameJob(k) /\ job'[k].status = job[k].status
  <2>1. job \in [JobId -> JobRow]
    BY DEF IInv, RowsInv
  <2>2. CASE job' = Touched(job, j)
    BY <2>1, <2>2 DEF Touched, SameJob, JobRow, NoJob
  <2>. QED  BY <2>2 DEF SameJob
<1>. QED  BY <1>1 DEF JobsStay

LEMMA StatusBecomes ==
    ASSUME IInv, NEW j, NEW status, job' = WithJobStatus(job, j, status)
    PROVE  JobBecomes(j, status)
<1>1. job \in [JobId -> JobRow]
  BY DEF IInv, RowsInv
<1>2. ASSUME NEW k \in JobId
      PROVE  SameJob(k) /\ job'[k].status = IF k = j THEN status ELSE job[k].status
  <2>1. CASE k = j
    BY <1>1, <2>1 DEF WithJobStatus, SameJob, JobRow, NoJob
  <2>2. CASE k # j
    BY <1>1, <2>2 DEF WithJobStatus, SameJob
  <2>. QED  BY <2>1, <2>2
<1>. QED  BY <1>2 DEF JobBecomes

LEMMA RowBecomes ==
    ASSUME IInv, NEW g \in GatewayId, NEW status, gateway' = [gateway EXCEPT ![g].status = status]
    PROVE  GatewayBecomes(g, status)
<1>1. gateway \in [GatewayId -> GatewayRow]
  BY DEF IInv, RowsInv
<1>2. ASSUME NEW h \in GatewayId
      PROVE  /\ gateway'[h].name = gateway[h].name
             /\ gateway'[h].status = IF h = g THEN status ELSE gateway[h].status
  BY <1>1 DEF GatewayRow, NoGateway
<1>. QED  BY <1>2 DEF GatewayBecomes

\* The steps of a provisioning thread, prepare_provisioning aside: where it goes
\* from where, and what it finds and leaves in its two rows.
ProvisionMoves(t) ==
    LET g == thread[t].gateway
        j == thread[t].job
        pc == thread[t].pc
        status == gateway[g].status
    IN /\ thread[t].kind = "provision"
       /\ \/ /\ pc \in {"once", "process", "status", "poll", "register"} /\ MovesTo(t, "exit")
             /\ GatewaysStay /\ JobsStay /\ vm' = vm
          \/ /\ pc = "once" /\ MovesTo(t, "process") /\ status \in NeedsProvisioning
             /\ GatewaysStay /\ JobsStay /\ vm' = vm
          \/ /\ pc = "process" /\ MovesTo(t, "status")
             /\ GatewaysStay /\ job[j].status # Absent /\ JobBecomes(j, "running") /\ vm' = vm
          \/ /\ pc = "status" /\ MovesTo(t, "launch") /\ thread'[t].name = gateway[g].name
             /\ status # Absent /\ GatewayBecomes(g, "provisioning") /\ JobsStay /\ vm' = vm
          \/ /\ pc = "launch" /\ MovesTo(t, "poll")
             /\ GatewaysStay /\ JobsStay /\ vm' = vm \cup {thread[t].name}
          \/ /\ pc = "launch" /\ MovesTo(t, "fail")
             /\ GatewaysStay /\ JobsStay /\ vm' \in {vm, vm \cup {thread[t].name}}
          \/ /\ pc = "poll" /\ MovesTo(t, "register") /\ thread[t].name \in vm
             /\ GatewaysStay /\ JobsStay /\ vm' = vm
          \/ /\ pc = "register" /\ MovesTo(t, "fail")
             /\ GatewaysStay /\ JobsStay /\ vm' = vm
          \/ /\ pc \in {"poll", "register"} /\ MovesTo(t, "complete")
             /\ status # Absent
             /\ GatewayBecomes(g, "error") \/ (pc = "register" /\ GatewayBecomes(g, "ready"))
             /\ JobsStay /\ vm' = vm
          \/ /\ pc = "complete" /\ MovesTo(t, "exit") /\ vm' = vm
             /\ GatewaysStay
             /\ (job[j].status = Absent /\ JobsStay) \/ (job[j].status # Absent /\ JobBecomes(j, "completed"))
          \/ /\ pc = "fail" /\ MovesTo(t, "exit") /\ vm' = vm
             /\ \/ /\ job[j].status = Absent \/ status = Absent
                   /\ GatewaysStay /\ JobsStay
                \/ /\ job[j].status # Absent /\ status # Absent
                   /\ GatewayBecomes(g, "error") /\ JobBecomes(j, "failed")

\* The same of a deletion thread, its last step aside.
DeleteMoves(t) ==
    LET g == thread[t].gateway
        j == thread[t].job
        pc == thread[t].pc
        status == gateway[g].status
    IN /\ thread[t].kind = "delete"
       /\ \/ /\ pc \in {"once", "execute"} /\ MovesTo(t, "exit") /\ status = Absent
             /\ JobsStay \/ (job[j].status # Absent /\ JobBecomes(j, "completed"))
             /\ GatewaysStay /\ vm' = vm
          \/ /\ pc \in {"once", "process"} /\ MovesTo(t, "exit")
             /\ pc = "process" => job[j].status = Absent
             /\ GatewaysStay /\ JobsStay /\ vm' = vm
          \/ /\ pc = "once" /\ MovesTo(t, "process") /\ status = "deleting" /\ IsOpen(job[j].status)
             /\ JobsStay \/ JobBecomes(j, "pending")
             /\ GatewaysStay /\ vm' = vm
          \/ /\ pc = "process" /\ MovesTo(t, "execute") /\ job[j].status # Absent
             /\ GatewaysStay /\ JobBecomes(j, "running") /\ vm' = vm
          \/ /\ pc = "execute" /\ MovesTo(t, "remove") /\ status # Absent
             /\ GatewaysStay /\ JobsStay /\ vm' \in {vm, vm \ {gateway[g].name}}
          \/ /\ pc = "execute" /\ MovesTo(t, "fail") /\ status # Absent
             /\ GatewaysStay /\ JobsStay /\ vm' = vm
          \/ /\ pc = "fail" /\ MovesTo(t, "exit") /\ vm' = vm
             /\ (job[j].status = Absent /\ JobsStay) \/ (job[j].status # Absent /\ JobBecomes(j, "failed"))
             /\ (status = Absent /\ GatewaysStay) \/ (status # Absent /\ GatewayBecomes(g, "error"))

\* A lock: the thread goes somewhere else, and nothing is written.
LockMoves(t) ==
    /\ thread[t].pc \notin {"idle", "exit", "launch"}
    /\ \E pc \in LockedPc(thread[t].kind, thread[t].pc) : MovesTo(t, pc)
    /\ GatewaysStay /\ JobsStay /\ vm' = vm

LEMMA ProvisionTable ==
    ASSUME IInv, NEW t \in Threads, ProvisionStep(t), ~ProvisionPrepare(t)
    PROVE  ProvisionMoves(t) /\ UNCHANGED <<request, sweep>>
<1> DEFINE g == thread[t].gateway
           j == thread[t].job
<1>0. UNCHANGED <<request, sweep>> /\ thread[t].kind = "provision" /\ thread[t].pc # "idle"
  BY DEF At, ProvisionStep, ProvisionSkip, ProvisionQueue, ProvisionProcess, ProvisionStatus,
     ProvisionLaunch, ProvisionLaunchFails, ProvisionTimeout, ProvisionHealthy,
     ProvisionRegisterFails, ProvisionFinalizeFails, ProvisionReady, ProvisionComplete, ProvisionFail
<1>00. g \in GatewayId
  BY <1>0 DEF IInv, ThreadsInv
<1>1. CASE ProvisionSkip(t)
  BY <1>0, <1>1, GotoMoves, TouchStays DEF ProvisionSkip, At, ProvisionMoves, GatewaysStay
<1>2. CASE ProvisionQueue(t)
  BY <1>0, <1>2, GotoMoves, TouchStays DEF ProvisionQueue, At, ProvisionMoves, GatewaysStay
<1>3. CASE ProvisionProcess(t)
  <2>1. gateway' = gateway /\ vm' = vm /\ thread[t].pc = "process"
    BY <1>3 DEF ProvisionProcess, At
  <2>2. CASE StatusOfJob(j) = Absent \/ gateway[g].status = Absent
    BY <1>0, <1>3, <2>1, <2>2, GotoMoves, TouchStays DEF ProvisionProcess, ProvisionMoves, GatewaysStay
  <2>3. CASE StatusOfJob(j) # Absent /\ gateway[g].status # Absent
    <3>1. job' = WithJobStatus(job, j, "running") /\ Goto(t, "status") /\ job[j].status # Absent
      BY <1>3, <2>3 DEF ProvisionProcess, StatusOfJob
    <3>. QED  BY <1>0, <2>1, <3>1, GotoMoves, StatusBecomes DEF ProvisionMoves, GatewaysStay
  <2>. QED  BY <2>2, <2>3
<1>4. CASE ProvisionStatus(t)
  <2>1. vm' = vm /\ thread[t].pc = "status"
    BY <1>4 DEF ProvisionStatus, At
  <2>2. CASE gateway[g].status = Absent
    BY <1>0, <1>4, <2>1, <2>2, GotoMoves, TouchStays DEF ProvisionStatus, ProvisionMoves, GatewaysStay
  <2>3. CASE gateway[g].status # Absent
    <3>1. /\ gateway' = [gateway EXCEPT ![g].status = "provisioning"] /\ job' = Touched(job, j)
          /\ thread' = [thread EXCEPT ![t].pc = "launch", ![t].name = gateway[g].name]
      BY <1>4, <2>3 DEF ProvisionStatus
    <3>2. MovesTo(t, "launch") /\ thread'[t].name = gateway[g].name
      BY <3>1 DEF MovesTo, IInv, ThreadsInv, ThreadState
    <3>3. GatewayBecomes(g, "provisioning") /\ JobsStay
      BY <1>00, <3>1, RowBecomes, TouchStays
    <3>. QED  BY <1>0, <2>1, <2>3, <3>2, <3>3 DEF ProvisionMoves
  <2>. QED  BY <2>2, <2>3
<1>5. CASE ProvisionLaunch(t) \/ ProvisionLaunchFails(t)
  BY <1>0, <1>5, GotoMoves, TouchStays
     DEF ProvisionLaunch, ProvisionLaunchFails, At, ProvisionMoves, GatewaysStay
<1>6. CASE ProvisionHealthy(t)
  BY <1>0, <1>6, GotoMoves, TouchStays DEF ProvisionHealthy, At, ProvisionMoves, GatewaysStay
<1>7. CASE ProvisionRegisterFails(t)
  BY <1>0, <1>7, GotoMoves, TouchStays DEF ProvisionRegisterFails, At, ProvisionMoves, GatewaysStay
<1>8. CASE ProvisionTimeout(t) \/ ProvisionFinalizeFails(t) \/ ProvisionReady(t)
  <2>1. /\ thread[t].pc \in {"poll", "register"} /\ vm' = vm
        /\ job' = job \/ job' = Touched(job, j)
        /\ \/ WriteStatus(t, "error", "complete")
           \/ thread[t].pc = "register" /\ WriteStatus(t, "ready", "complete")
    BY <1>8 DEF ProvisionTimeout, ProvisionFinalizeFails, ProvisionReady, At
  <2>2. JobsStay
    BY <2>1, TouchStays
  <2>3. CASE gateway[g].status = Absent
    <3>1. MovesTo(t, "exit") /\ GatewaysStay
      BY <2>1, <2>3, GotoMoves DEF WriteStatus, GatewaysStay
    <3>. QED  BY <1>0, <2>1, <2>2, <3>1 DEF ProvisionMoves
  <2>4. CASE gateway[g].status # Absent
    <3>1. MovesTo(t, "complete")
      BY <2>1, <2>4, GotoMoves DEF WriteStatus
    <3>2. GatewayBecomes(g, "error") \/ (thread[t].pc = "register" /\ GatewayBecomes(g, "ready"))
      BY <1>00, <2>1, <2>4, RowBecomes DEF WriteStatus
    <3>. QED  BY <1>0, <2>1, <2>2, <2>4, <3>1, <3>2 DEF ProvisionMoves
  <2>. QED  BY <2>3, <2>4
<1>9. CASE ProvisionComplete(t)
  <2>1. MovesTo(t, "exit") /\ GatewaysStay /\ vm' = vm /\ thread[t].pc = "complete"
    BY <1>9, GotoMoves DEF ProvisionComplete, At, GatewaysStay
  <2>2. (job[j].status = Absent /\ JobsStay) \/ (job[j].status # Absent /\ JobBecomes(j, "completed"))
    BY <1>9, TouchStays, StatusBecomes DEF ProvisionComplete
  <2>. QED  BY <1>0, <2>1, <2>2 DEF ProvisionMoves
<1>10. CASE ProvisionFail(t)
  <2>1. MovesTo(t, "exit") /\ vm' = vm /\ thread[t].pc = "fail"
    BY <1>10, GotoMoves DEF ProvisionFail, At
  <2>2. CASE job[j].status = Absent \/ gateway[g].status = Absent
    <3>1. GatewaysStay /\ JobsStay
      BY <1>10, <2>2, TouchStays DEF ProvisionFail, GatewaysStay
    <3>. QED  BY <1>0, <2>1, <2>2, <3>1 DEF ProvisionMoves
  <2>3. CASE job[j].status # Absent /\ gateway[g].status # Absent
    <3>1. GatewayBecomes(g, "error") /\ JobBecomes(j, "failed")
      BY <1>00, <1>10, <2>3, RowBecomes, StatusBecomes DEF ProvisionFail
    <3>. QED  BY <1>0, <2>1, <2>3, <3>1 DEF ProvisionMoves
  <2>. QED  BY <2>2, <2>3
<1>. QED  BY <1>0, <1>1, <1>2, <1>3, <1>4, <1>5, <1>6, <1>7, <1>8, <1>9, <1>10 DEF ProvisionStep

LEMMA DeleteTable ==
    ASSUME IInv, NEW t \in Threads, DeleteStep(t), ~DeleteRemove(t)
    PROVE  DeleteMoves(t) /\ UNCHANGED <<request, sweep>>
<1> DEFINE g == thread[t].gateway
           j == thread[t].job
<1>0. UNCHANGED <<request, sweep>> /\ thread[t].kind = "delete" /\ thread[t].pc # "idle"
  BY DEF At, DeleteStep, DeleteGone, DeleteSkip, DeleteTake, DeleteProcess, DeleteExecute,
     DeleteExecuteFails, DeleteFail
<1>00. g \in GatewayId
  BY <1>0 DEF IInv, ThreadsInv
<1>1. CASE DeleteGone(t)
  <2>1. /\ thread[t].pc \in {"once", "execute"} /\ MovesTo(t, "exit") /\ gateway[g].status = Absent
        /\ GatewaysStay /\ vm' = vm
    BY <1>1, GotoMoves DEF DeleteGone, At, GatewaysStay
  <2>2. JobsStay \/ (job[j].status # Absent /\ JobBecomes(j, "completed"))
    BY <1>1, TouchStays, StatusBecomes DEF DeleteGone, CompleteIfThere
  <2>. QED  BY <1>0, <2>1, <2>2 DEF DeleteMoves
<1>2. CASE DeleteSkip(t)
  BY <1>0, <1>2, GotoMoves, TouchStays DEF DeleteSkip, At, DeleteMoves, GatewaysStay
<1>3. CASE DeleteTake(t)
  <2>1. /\ thread[t].pc = "once" /\ MovesTo(t, "process") /\ gateway[g].status = "deleting"
        /\ IsOpen(job[j].status) /\ GatewaysStay /\ vm' = vm
    BY <1>3, GotoMoves DEF DeleteTake, At, GatewaysStay, IsOpen
  <2>2. JobsStay \/ JobBecomes(j, "pending")
    BY <1>3, TouchStays, StatusBecomes DEF DeleteTake
  <2>. QED  BY <1>0, <2>1, <2>2 DEF DeleteMoves
<1>4. CASE DeleteProcess(t)
  <2>1. thread[t].pc = "process" /\ GatewaysStay /\ vm' = vm
    BY <1>4 DEF DeleteProcess, At, GatewaysStay
  <2>2. CASE job[j].status = Absent
    <3>1. MovesTo(t, "exit") /\ JobsStay
      BY <1>4, <2>2, GotoMoves, TouchStays DEF DeleteProcess
    <3>. QED  BY <1>0, <2>1, <2>2, <3>1 DEF DeleteMoves
  <2>3. CASE job[j].status # Absent
    <3>1. MovesTo(t, "execute") /\ JobBecomes(j, "running")
      BY <1>4, <2>3, GotoMoves, StatusBecomes DEF DeleteProcess
    <3>. QED  BY <1>0, <2>1, <2>3, <3>1 DEF DeleteMoves
  <2>. QED  BY <2>2, <2>3
<1>5. CASE DeleteExecute(t)
  BY <1>0, <1>5, GotoMoves, TouchStays DEF DeleteExecute, At, DeleteMoves, GatewaysStay
<1>6. CASE DeleteExecuteFails(t)
  BY <1>0, <1>6, GotoMoves, TouchStays DEF DeleteExecuteFails, At, DeleteMoves, GatewaysStay
<1>7. CASE DeleteFail(t)
  <2>1. MovesTo(t, "exit") /\ vm' = vm /\ thread[t].pc = "fail"
    BY <1>7, GotoMoves DEF DeleteFail, At
  <2>2. (job[j].status = Absent /\ JobsStay) \/ (job[j].status # Absent /\ JobBecomes(j, "failed"))
    BY <1>7, TouchStays, StatusBecomes DEF DeleteFail
  <2>3. (gateway[g].status = Absent /\ GatewaysStay)
        \/ (gateway[g].status # Absent /\ GatewayBecomes(g, "error"))
    BY <1>00, <1>7, RowBecomes DEF DeleteFail, GatewaysStay
  <2>. QED  BY <1>0, <2>1, <2>2, <2>3 DEF DeleteMoves
<1>. QED  BY <1>1, <1>2, <1>3, <1>4, <1>5, <1>6, <1>7 DEF DeleteStep

LEMMA LockTable ==
    ASSUME IInv, NEW t \in Threads, ThreadLocked(t)
    PROVE  LockMoves(t) /\ UNCHANGED <<request, sweep>>
  BY GotoMoves, TouchStays DEF ThreadLocked, LockMoves, GatewaysStay

-----------------------------------------------------------------------------
(* Who waits can be resumed: what a step takes away, and what it leaves *)

\* A step brings no row, and lets no handler take up a job.
RowsFrom == \A j \in JobId : job'[j].status # Absent => job[j].status # Absent /\ SameJob(j)
GatewaysFrom == \A g \in GatewayId : gateway'[g].status # Absent => gateway[g].status # Absent
ThreadsFrom == \A t \in Threads : thread'[t].pc # "idle" =>
    /\ thread[t].pc # "idle"
    /\ thread'[t].kind = thread[t].kind /\ thread'[t].gateway = thread[t].gateway
    /\ thread'[t].job \in {thread[t].job, 0}
RequestsFrom == \A r \in Requests : request'[r].op # "idle" => request'[r] = request[r]

LEMMA CreateJobKept ==
    ASSUME OneCreateJob, RowsFrom, GatewaysFrom
    PROVE  OneCreateJob'
  BY DEF OneCreateJob, RowsFrom, GatewaysFrom, SameJob, LiveGateways, LiveJobs

LEMMA OwnJobsKept ==
    ASSUME OwnJobs, RowsFrom, ThreadsFrom, RequestsFrom
    PROVE  OwnJobs'
<1>1. 0 \notin JobId
  BY BoundsAssumption DEF JobId
<1>. QED  BY <1>1 DEF OwnJobs, RowsFrom, ThreadsFrom, RequestsFrom, SameJob, LiveJobs

\* A move of a thread is such a step.
LEMMA MoveTakesUpNothing ==
    ASSUME NEW t \in Threads, NEW pc, MovesTo(t, pc), thread[t].pc # "idle",
           UNCHANGED <<request, sweep>>,
           GatewaysStay \/ \E status : gateway[thread[t].gateway].status # Absent
                                       /\ GatewayBecomes(thread[t].gateway, status),
           JobsStay \/ \E status : job[thread[t].job].status # Absent /\ JobBecomes(thread[t].job, status)
    PROVE  RowsFrom /\ GatewaysFrom /\ ThreadsFrom /\ RequestsFrom
<1>1. RowsFrom
  BY DEF RowsFrom, JobsStay, JobBecomes
<1>2. GatewaysFrom
  BY DEF GatewaysFrom, GatewaysStay, GatewayBecomes
<1>3. ThreadsFrom
  BY DEF ThreadsFrom, MovesTo
<1>. QED  BY <1>1, <1>2, <1>3 DEF RequestsFrom

\* Two provisioning threads have two gateways and two jobs.
LEMMA NobodyElse ==
    ASSUME IInv, PInv, NEW t \in Threads, NEW u \in Threads, u # t,
           thread[t].kind = "provision", thread[t].pc # "idle",
           thread[u].kind = "provision", thread[u].pc # "idle", thread[u].job \in LiveJobs
    PROVE  thread[u].gateway # thread[t].gateway /\ thread[u].job # thread[t].job
<1>1. thread[t].gateway \in GatewayId
  BY DEF IInv, ThreadsInv
<1>2. thread[u].gateway # thread[t].gateway
  BY <1>1 DEF IInv, ThreadsInv, OneThreadPerGateway, Runs, ThreadKind
<1>. QED  BY <1>2 DEF PInv, OwnJobs

\* A step of a provisioning thread leaves whoever waits an open job.
LEMMA ProvisionKeepsPInv ==
    ASSUME IInv, PInv, NEW t \in Threads, ProvisionMoves(t), UNCHANGED <<request, sweep>>
    PROVE  PInv'
<1> DEFINE g == thread[t].gateway
           j == thread[t].job
<1>0. /\ thread[t].kind = "provision" /\ thread[t].pc \notin {"idle", "exit"}
      /\ g \in GatewayId /\ 0 \notin JobId
  BY BoundsAssumption DEF ProvisionMoves, IInv, ThreadsInv, JobId
<1>1. \E pc : MovesTo(t, pc)
  BY DEF ProvisionMoves
<1>2. GatewaysStay \/ \E status : gateway[g].status # Absent /\ GatewayBecomes(g, status)
  BY DEF ProvisionMoves
<1>3. JobsStay \/ \E status : job[j].status # Absent /\ JobBecomes(j, status)
  BY DEF ProvisionMoves
<1>4. RowsFrom /\ GatewaysFrom /\ ThreadsFrom /\ RequestsFrom
  BY <1>0, <1>1, <1>2, <1>3, MoveTakesUpNothing
<1>5. OneCreateJob' /\ OwnJobs'
  BY <1>4, CreateJobKept, OwnJobsKept DEF PInv
<1>6. g \in LiveGateways => WorksOnOpenJob(t)
  BY <1>0 DEF PInv, ThreadsWork
<1>7. ASSUME NEW u \in Threads, thread'[u].kind = "provision", thread'[u].pc \notin {"idle", "exit"},
             thread'[u].gateway \in LiveGateways'
      PROVE  WorksOnOpenJob(u)'
  <2>1. CASE u # t
    <3>1. thread'[u] = thread[u] /\ thread[u].gateway \in LiveGateways
      BY <1>1, <1>4, <1>7, <2>1 DEF MovesTo, LiveGateways, GatewaysFrom
    <3>2. WorksOnOpenJob(u)
      BY <1>7, <3>1 DEF PInv, ThreadsWork
    <3>3. thread[u].gateway # g /\ thread[u].job # j
      BY <1>0, <1>7, <2>1, <3>1, <3>2, NobodyElse DEF WorksOnOpenJob
    <3>4. gateway'[thread[u].gateway].status = gateway[thread[u].gateway].status
      BY <1>2, <3>1, <3>3 DEF GatewaysStay, GatewayBecomes, LiveGateways
    <3>5. SameJob(thread[u].job) /\ job'[thread[u].job].status = job[thread[u].job].status
      BY <1>3, <3>2, <3>3 DEF JobsStay, JobBecomes, WorksOnOpenJob, LiveJobs
    <3>. QED  BY <3>1, <3>2, <3>4, <3>5 DEF WorksOnOpenJob, SameJob, LiveJobs, IsOpen
  <2>2. CASE u = t
    <3>1. /\ thread'[t].gateway = g /\ g \in LiveGateways /\ thread'[t].job = j
          /\ thread'[t].pc \notin {"idle", "exit"}
      BY <1>1, <1>4, <1>7, <2>2 DEF MovesTo, LiveGateways, GatewaysFrom
    <3>2. j \in JobId /\ SameJob(j)
      BY <1>3, <1>6, <3>1 DEF JobsStay, JobBecomes, WorksOnOpenJob, LiveJobs
    <3>3. IsOpen(job'[j].status)
      BY <1>6, <3>1, <3>2 DEF ProvisionMoves, WorksOnOpenJob, MovesTo, JobsStay, JobBecomes, IsOpen
    <3>4. thread'[t].pc = "complete" => ~Waits(gateway'[g].status)
      BY <1>0, <3>1 DEF ProvisionMoves, MovesTo, GatewayBecomes, Waits
    <3>. QED  BY <1>6, <2>2, <3>1, <3>2, <3>3, <3>4
           DEF WorksOnOpenJob, SameJob, LiveJobs, IsOpen, Absent
  <2>. QED  BY <2>1, <2>2
<1>8. ASSUME NEW h \in LiveGateways', NEW k \in LiveJobs', Waits(gateway'[h].status),
             job'[k].gateway = h, job'[k].type = "create"
      PROVE  IsOpen(job'[k].status)
  <2>1. h \in LiveGateways /\ k \in LiveJobs /\ job[k].gateway = h /\ job[k].type = "create"
    BY <1>4, <1>8 DEF RowsFrom, GatewaysFrom, LiveGateways, LiveJobs, SameJob
  <2>2. CASE h # g
    <3>1. gateway'[h].status = gateway[h].status
      BY <1>2, <2>1, <2>2 DEF GatewaysStay, GatewayBecomes, LiveGateways
    <3>2. k # j
      BY <1>0, <2>1, <2>2 DEF PInv, OwnJobs
    <3>3. job'[k].status = job[k].status
      BY <1>3, <2>1, <3>2 DEF JobsStay, JobBecomes, LiveJobs
    <3>. QED  BY <1>8, <2>1, <3>1, <3>3 DEF PInv, WaitsForOpenJob
  <2>3. CASE h = g
    <3>1. k = j
      BY <1>6, <2>1, <2>3 DEF WorksOnOpenJob, PInv, OneCreateJob
    <3>2. IsOpen(job[j].status) /\ k \in JobId
      BY <1>6, <2>1, <2>3 DEF WorksOnOpenJob, LiveJobs
    <3>3. JobsStay \/ JobBecomes(j, "running") \/ ~Waits(gateway'[g].status)
      BY <1>0, <1>6, <2>1, <2>3 DEF ProvisionMoves, WorksOnOpenJob, GatewaysStay, GatewayBecomes, Waits
    <3>. QED  BY <1>8, <2>3, <3>1, <3>2, <3>3 DEF JobsStay, JobBecomes, IsOpen
  <2>. QED  BY <2>2, <2>3
<1>. QED  BY <1>5, <1>7, <1>8 DEF PInv, ThreadsWork, WaitsForOpenJob

\* So does a step of a deletion thread, whose job is no create job.
LEMMA DeleteKeepsPInv ==
    ASSUME IInv, PInv, NEW t \in Threads, DeleteMoves(t), UNCHANGED <<request, sweep>>
    PROVE  PInv'
<1> DEFINE g == thread[t].gateway
           j == thread[t].job
<1>0. /\ thread[t].kind = "delete" /\ thread[t].pc \notin {"idle", "exit"}
      /\ g \in GatewayId /\ 0 \notin JobId
  BY BoundsAssumption DEF DeleteMoves, IInv, ThreadsInv, JobId
<1>1. \E pc : MovesTo(t, pc)
  BY DEF DeleteMoves
<1>2. GatewaysStay \/ (gateway[g].status # Absent /\ GatewayBecomes(g, "error"))
  BY DEF DeleteMoves
<1>3. JobsStay \/ \E status : job[j].status # Absent /\ JobBecomes(j, status)
  BY DEF DeleteMoves, IsOpen, Absent
<1>4. RowsFrom /\ GatewaysFrom /\ ThreadsFrom /\ RequestsFrom
  BY <1>0, <1>1, <1>2, <1>3, MoveTakesUpNothing
<1>5. OneCreateJob' /\ OwnJobs'
  BY <1>4, CreateJobKept, OwnJobsKept DEF PInv
<1>6. ASSUME NEW k \in LiveJobs, job[k].type = "create"
      PROVE  job'[k].status = job[k].status /\ SameJob(k) /\ k \in LiveJobs'
  <2>1. k # j
    BY <1>0, <1>6 DEF PInv, OwnJobs
  <2>. QED  BY <1>3, <2>1 DEF JobsStay, JobBecomes, LiveJobs
<1>7. ASSUME NEW h \in GatewayId
      PROVE  gateway'[h].status = gateway[h].status \/ ~Waits(gateway'[h].status)
  BY <1>2 DEF GatewaysStay, GatewayBecomes, Waits
<1>8. ASSUME NEW u \in Threads, thread'[u].kind = "provision", thread'[u].pc \notin {"idle", "exit"},
             thread'[u].gateway \in LiveGateways'
      PROVE  WorksOnOpenJob(u)'
  <2>1. thread'[u] = thread[u] /\ thread[u].gateway \in LiveGateways
    BY <1>0, <1>1, <1>4, <1>8 DEF MovesTo, LiveGateways, GatewaysFrom
  <2>2. WorksOnOpenJob(u)
    BY <1>8, <2>1 DEF PInv, ThreadsWork
  <2>. QED  BY <1>6, <1>7, <2>1, <2>2 DEF WorksOnOpenJob, SameJob, LiveGateways
<1>9. ASSUME NEW h \in LiveGateways', NEW k \in LiveJobs', Waits(gateway'[h].status),
             job'[k].gateway = h, job'[k].type = "create"
      PROVE  IsOpen(job'[k].status)
  <2>1. h \in LiveGateways /\ k \in LiveJobs /\ job[k].gateway = h /\ job[k].type = "create"
    BY <1>4, <1>9 DEF RowsFrom, GatewaysFrom, LiveGateways, LiveJobs, SameJob
  <2>. QED  BY <1>6, <1>7, <1>9, <2>1 DEF PInv, WaitsForOpenJob, LiveGateways
<1>. QED  BY <1>5, <1>8, <1>9 DEF PInv, ThreadsWork, WaitsForOpenJob

\* A lock writes nothing, and the thread goes back or ends.
LEMMA LockKeepsPInv ==
    ASSUME IInv, PInv, NEW t \in Threads, LockMoves(t), UNCHANGED <<request, sweep>>
    PROVE  PInv'
<1>1. PICK pc \in LockedPc(thread[t].kind, thread[t].pc) : MovesTo(t, pc)
  BY DEF LockMoves
<1>2. RowsFrom /\ GatewaysFrom /\ ThreadsFrom /\ RequestsFrom
  BY <1>1, MoveTakesUpNothing DEF LockMoves
<1>3. OneCreateJob' /\ OwnJobs'
  BY <1>2, CreateJobKept, OwnJobsKept DEF PInv
<1>4. LiveGateways' = LiveGateways /\ LiveJobs' = LiveJobs
  BY DEF LockMoves, GatewaysStay, JobsStay, LiveGateways, LiveJobs
<1>5. ASSUME NEW u \in Threads, thread'[u].kind = "provision", thread'[u].pc \notin {"idle", "exit"},
             thread'[u].gateway \in LiveGateways'
      PROVE  WorksOnOpenJob(u)'
  <2>1. /\ thread[u].kind = "provision" /\ thread[u].pc \notin {"idle", "exit"}
        /\ thread[u].gateway = thread'[u].gateway /\ thread[u].job = thread'[u].job
        /\ thread'[u].pc = "complete" => thread[u].pc = "complete"
    <3>1. CASE u = t
      BY <1>1, <1>5, <3>1 DEF MovesTo, LockMoves, LockedPc
    <3>2. CASE u # t
      BY <1>1, <1>5, <3>2 DEF MovesTo
    <3>. QED  BY <3>1, <3>2
  <2>2. WorksOnOpenJob(u)
    BY <1>4, <1>5, <2>1 DEF PInv, ThreadsWork
  <2>. QED  BY <1>4, <1>5, <2>1, <2>2
         DEF WorksOnOpenJob, LockMoves, GatewaysStay, JobsStay, SameJob, LiveJobs, LiveGateways
<1>6. WaitsForOpenJob'
  BY <1>4 DEF PInv, WaitsForOpenJob, LockMoves, GatewaysStay, JobsStay, SameJob, LiveJobs, LiveGateways
<1>. QED  BY <1>3, <1>5, <1>6 DEF PInv, ThreadsWork

\* The end of a deletion takes rows and leaves the others as they are.
LEMMA RemoveKeepsPInv ==
    ASSUME IInv, PInv, NEW t \in Threads, DeleteRemove(t)
    PROVE  PInv'
<1> DEFINE g == thread[t].gateway
<1>0. thread[t].kind = "delete" /\ thread[t].pc = "remove" /\ UNCHANGED <<request, sweep>>
  BY DEF DeleteRemove, At
<1>1. MovesTo(t, "exit")
  BY GotoMoves DEF DeleteRemove
<1>2. \A h \in GatewayId : gateway'[h] = IF h = g THEN NoGateway ELSE gateway[h]
  BY DEF DeleteRemove, IInv, RowsInv
<1>3. \A k \in JobId : job'[k] = IF job[k].gateway = g THEN NoJob ELSE job[k]
  BY DEF DeleteRemove
<1>4. RowsFrom /\ GatewaysFrom
  BY <1>2, <1>3 DEF RowsFrom, GatewaysFrom, SameJob, NoJob, NoGateway
<1>5. ThreadsFrom /\ RequestsFrom
  BY <1>0, <1>1 DEF ThreadsFrom, RequestsFrom, MovesTo
<1>6. OneCreateJob' /\ OwnJobs'
  BY <1>4, <1>5, CreateJobKept, OwnJobsKept DEF PInv
<1>7. ASSUME NEW u \in Threads, thread'[u].kind = "provision", thread'[u].pc \notin {"idle", "exit"},
             thread'[u].gateway \in LiveGateways'
      PROVE  WorksOnOpenJob(u)'
  <2>1. thread'[u] = thread[u] /\ thread[u].gateway \in LiveGateways /\ thread[u].gateway # g
    BY <1>0, <1>1, <1>2, <1>7 DEF MovesTo, LiveGateways, NoGateway
  <2>2. WorksOnOpenJob(u)
    BY <1>7, <2>1 DEF PInv, ThreadsWork
  <2>3. gateway'[thread[u].gateway] = gateway[thread[u].gateway]
        /\ thread[u].job \in JobId /\ job'[thread[u].job] = job[thread[u].job]
    BY <1>2, <1>3, <2>1, <2>2 DEF WorksOnOpenJob, LiveGateways, LiveJobs
  <2>. QED  BY <2>1, <2>2, <2>3 DEF WorksOnOpenJob, LiveJobs
<1>8. WaitsForOpenJob'
  BY <1>2, <1>3 DEF PInv, WaitsForOpenJob, LiveGateways, LiveJobs, NoGateway, NoJob
<1>. QED  BY <1>6, <1>7, <1>8 DEF PInv, ThreadsWork

-----------------------------------------------------------------------------
(* Who waits can be resumed: what is started and inserted *)

\* Rows stay, but that a job may be set to PENDING; new jobs are PENDING.
Keeps == \A k \in JobId :
    /\ job[k].status # Absent => SameJob(k) /\ job'[k].status \in {job[k].status, "pending"}
    /\ job[k].status = Absent => job'[k].status \in {Absent, "pending"}
\* A gateway that has come is new; one that waits from now on has no thread, and
\* its create job is PENDING.
Arrives == \A h \in GatewayId : gateway'[h].status # Absent =>
    \/ gateway[h].status = Absent /\ GatewayIsNew(h)
    \/ gateway[h].status # Absent /\ (Waits(gateway'[h].status) => Waits(gateway[h].status))
    \/ /\ gateway[h].status # Absent
       /\ h \notin active["provision"]
       /\ \A k \in LiveJobs : job[k].gateway = h /\ job[k].type = "create" => job'[k].status = "pending"
\* start_provisioning, start_deletion: a slot that was idle gets the thread.
StartsOnly(kind, g, j) == \A u \in Threads :
    \/ thread'[u] = thread[u]
    \/ /\ thread[u].pc = "idle" /\ g \notin active[kind]
       /\ thread'[u] = [kind |-> kind, pc |-> "once", gateway |-> g, job |-> j, name |-> NoName]

LEMMA StartEffect ==
    ASSUME IInv, NEW kind, NEW g, NEW j, Start(kind, g, j)
    PROVE  StartsOnly(kind, g, j)
  BY DEF Start, StartsOnly, IInv, ThreadsInv

\* What was under way goes on: threads and requests have the jobs they had.
LEMMA StartKeepsOwn ==
    ASSUME PInv, Keeps, InsertsNewIds, NEW kind, NEW g, NEW j, StartsOnly(kind, g, j),
           j \in LiveJobs' => job'[j].gateway = g /\ (kind = "delete" => job'[j].type = "delete"),
           RequestsFrom
    PROVE  OwnJobs'
<1>1. \A k \in LiveJobs' : (k \in LiveJobs /\ SameJob(k)) \/ JobIsNew(k)
  BY DEF Keeps, InsertsNewIds, LiveJobs
<1>2. ASSUME NEW u \in Threads, thread'[u].pc # "idle", thread'[u].job \in LiveJobs'
      PROVE  /\ job'[thread'[u].job].gateway = thread'[u].gateway
             /\ thread'[u].kind = "delete" => job'[thread'[u].job].type = "delete"
  <2>1. CASE thread'[u] = thread[u]
    BY <1>1, <1>2, <2>1 DEF PInv, OwnJobs, JobIsNew, SameJob
  <2>2. CASE thread'[u] # thread[u]
    BY <1>2, <2>2 DEF StartsOnly
  <2>. QED  BY <2>1, <2>2
<1>3. ASSUME NEW r \in Requests, request'[r].op # "idle"
      PROVE  /\ request'[r].op \in {"delete", "join"}
             /\ request'[r].job \in LiveJobs' =>
                  /\ job'[request'[r].job].gateway = request'[r].gateway
                  /\ job'[request'[r].job].type = "delete"
  <2>1. request'[r] = request[r]
    BY <1>3 DEF RequestsFrom
  <2>. QED  BY <1>1, <1>3, <2>1 DEF PInv, OwnJobs, JobIsNew, SameJob
<1>. QED  BY <1>2, <1>3 DEF OwnJobs

LEMMA StartKeepsWork ==
    ASSUME IInv, PInv, Keeps, Arrives, NEW kind, NEW g, NEW j, StartsOnly(kind, g, j),
           kind = "provision" /\ g \in LiveGateways' =>
               j \in LiveJobs' /\ job'[j].gateway = g /\ job'[j].type = "create" /\ IsOpen(job'[j].status)
    PROVE  ThreadsWork'
<1>1. ASSUME NEW u \in Threads, thread'[u].kind = "provision", thread'[u].pc \notin {"idle", "exit"},
             thread'[u].gateway \in LiveGateways'
      PROVE  WorksOnOpenJob(u)'
  <2>1. CASE thread'[u] # thread[u]
    BY <1>1, <2>1 DEF StartsOnly, WorksOnOpenJob
  <2>2. CASE thread'[u] = thread[u]
    <3> DEFINE h == thread[u].gateway
    <3>1. h \in GatewayId /\ gateway'[h].status # Absent
      BY <1>1, <2>2 DEF LiveGateways
    <3>2. h \in active["provision"]
      BY <1>1, <2>2, <3>1 DEF IInv, ThreadsInv, ActiveIsExact, Runs, ThreadKind
    <3>3. h \in LiveGateways /\ (Waits(gateway'[h].status) => Waits(gateway[h].status))
      BY <3>1, <3>2 DEF Arrives, GatewayIsNew, LiveGateways
    <3>4. WorksOnOpenJob(u)
      BY <1>1, <2>2, <3>3 DEF PInv, ThreadsWork
    <3>5. thread[u].job \in LiveJobs' /\ SameJob(thread[u].job) /\ IsOpen(job'[thread[u].job].status)
      BY <3>4 DEF Keeps, WorksOnOpenJob, LiveJobs, IsOpen, Absent
    <3>. QED  BY <2>2, <3>3, <3>4, <3>5 DEF WorksOnOpenJob, SameJob
  <2>. QED  BY <2>1, <2>2
<1>. QED  BY <1>1 DEF ThreadsWork

LEMMA StartKeepsWaiting ==
    ASSUME PInv, Keeps, Arrives
    PROVE  WaitsForOpenJob'
<1>1. ASSUME NEW h \in LiveGateways', NEW k \in LiveJobs', Waits(gateway'[h].status),
             job'[k].gateway = h, job'[k].type = "create"
      PROVE  IsOpen(job'[k].status)
  <2>1. CASE k \notin LiveJobs
    BY <1>1, <2>1 DEF Keeps, LiveJobs, IsOpen
  <2>2. CASE k \in LiveJobs
    <3>1. job[k].gateway = h /\ job[k].type = "create" /\ job'[k].status \in {job[k].status, "pending"}
      BY <1>1, <2>2 DEF Keeps, LiveJobs, SameJob
    <3>2. h \in GatewayId /\ gateway'[h].status # Absent
      BY <1>1 DEF LiveGateways
    <3>3. (h \in LiveGateways /\ Waits(gateway[h].status)) \/ job'[k].status = "pending"
      BY <1>1, <2>2, <3>1, <3>2 DEF Arrives, GatewayIsNew, LiveGateways
    <3>. QED  BY <2>2, <3>1, <3>3 DEF PInv, WaitsForOpenJob, IsOpen
  <2>. QED  BY <2>1, <2>2
<1>. QED  BY <1>1 DEF WaitsForOpenJob

\* An inserted job comes after all that are there.
Inserts(n, type, g) ==
    /\ n = NextId(LiveJobs, JobId) /\ n # 0
    /\ job' = [job EXCEPT ![n] = NewJob(type, g)]

LEMMA InsertEffect ==
    ASSUME IInv, NEW n, NEW type, NEW g, Inserts(n, type, g)
    PROVE  /\ n \in JobId /\ n \notin LiveJobs /\ LiveJobs' = LiveJobs \cup {n}
           /\ \A k \in LiveJobs : k < n /\ job'[k] = job[k]
           /\ job'[n] = NewJob(type, g)
           /\ Keeps
<1>1. n \in JobId /\ \A k \in LiveJobs : k < n
  BY NextIdFresh DEF Inserts
<1>2. n \notin LiveJobs
  BY <1>1 DEF JobId
<1>3. job'[n] = NewJob(type, g) /\ \A k \in JobId : k # n => job'[k] = job[k]
  BY <1>1 DEF Inserts, IInv, RowsInv
<1>4. NewJob(type, g).status = "pending"
  BY DEF NewJob
<1>. QED  BY <1>1, <1>2, <1>3, <1>4 DEF Keeps, LiveJobs, SameJob, Absent

\* A new delete job comes after the create job.
LEMMA DeleteJobComesAfter ==
    ASSUME IInv, PInv, NEW n, NEW g, Inserts(n, "delete", g), GatewaysFrom
    PROVE  OneCreateJob'
<1>1. /\ n \in JobId /\ n \notin LiveJobs /\ LiveJobs' = LiveJobs \cup {n}
      /\ \A k \in LiveJobs : k < n /\ job'[k] = job[k]
      /\ job'[n].type = "delete"
  <2>1. /\ n \in JobId /\ n \notin LiveJobs /\ LiveJobs' = LiveJobs \cup {n}
        /\ \A k \in LiveJobs : k < n /\ job'[k] = job[k]
        /\ job'[n] = NewJob("delete", g)
    BY InsertEffect
  <2>. QED  BY <2>1 DEF NewJob
<1>2. LiveGateways' \subseteq LiveGateways
  BY DEF GatewaysFrom, LiveGateways
<1>. QED  BY <1>1, <1>2 DEF PInv, OneCreateJob

-----------------------------------------------------------------------------
(* Who waits can be resumed: the steps that prepare, start and insert *)

\* A live gateway's create job is its latest, and its first pending one when it
\* is pending.
LEMMA CreateJobIsFound ==
    ASSUME OneCreateJob, CreateJobExists, NEW g \in LiveGateways
    PROVE  /\ OfGateway(LatestJob(g, "create"), g, "create")
           /\ LatestJob(g, "create") # 0
           /\ \A j \in JobId : OfGateway(j, g, "create") => j = LatestJob(g, "create")
<1>1. PICK j \in LiveJobs : job[j].gateway = g /\ job[j].type = "create"
  BY DEF CreateJobExists, JobsOf
<1>2. ASSUME NEW k \in LiveJobs, job[k].gateway = g, job[k].type = "create" PROVE k = j
  <2>1. k = j \/ job[k].type = "delete"
    BY <1>1, <1>2 DEF OneCreateJob
  <2>. QED  BY <1>2, <2>1
<1>3. j \in JobId /\ j # 0 /\ j <= j
  BY <1>1, BoundsAssumption DEF LiveJobs, JobId
<1>4. IsLatest(j, g, "create")
  BY <1>1, <1>2, <1>3 DEF IsLatest, JobsOf
<1>5. \A k \in JobId : IsLatest(k, g, "create") => k = j
  BY <1>2 DEF IsLatest, JobsOf
<1>6. LatestJob(g, "create") = j
  BY <1>3, <1>4, <1>5 DEF LatestJob
<1>. QED  BY <1>1, <1>2, <1>3, <1>6 DEF OfGateway, LiveJobs

\* get_pending_for_gateway returns a pending job of the gateway, or none.
LEMMA PendingJobIs ==
    ASSUME NEW g, NEW jobs, PendingJob(g, jobs) # 0
    PROVE  PendingJob(g, jobs) \in JobId /\ IsPendingOf(PendingJob(g, jobs), g, jobs)
<1>1. \E j \in JobId : IsFirstPending(j, g, jobs)
  BY DEF PendingJob
<1>2. IsFirstPending(CHOOSE j \in JobId : IsFirstPending(j, g, jobs), g, jobs)
  BY <1>1
<1>. QED  BY <1>1, <1>2 DEF PendingJob, IsFirstPending

\* prepare_provisioning of a live gateway whose create job is open: the job is
\* PENDING after it, and the first that the gateway's handlers will find.
LEMMA PrepareEffect ==
    ASSUME IInv, PInv, CreateJobExists, NEW g \in LiveGateways, NEW seen, NEW j,
           j = LatestJob(g, "create"), IsOpen(job[j].status),
           Prepare(g, Revives(seen, StatusOfJob(j)), j, Resets(StatusOfJob(j)))
    PROVE  /\ JobBecomes(j, "pending")
           /\ (seen = "error" /\ GatewayBecomes(g, "pending")) \/ (seen # "error" /\ gateway' = gateway)
           /\ PendingJob(g, job') = j
<1>1. OfGateway(j, g, "create") /\ j # 0 /\ j \in JobId
  BY CreateJobIsFound DEF PInv, OfGateway, LiveJobs
<1>2. StatusOfJob(j) = job[j].status /\ job[j].status \in {"pending", "running"}
  BY <1>1 DEF StatusOfJob, IsOpen
<1>3. (Revives(seen, StatusOfJob(j)) <=> seen = "error") /\ (Resets(StatusOfJob(j)) <=> job[j].status = "running")
  BY <1>2 DEF Revives, Resets
<1>4. JobBecomes(j, "pending")
  <2>1. CASE job[j].status = "running"
    BY <1>1, <1>3, <2>1, StatusBecomes DEF Prepare
  <2>2. CASE job[j].status = "pending"
    BY <1>1, <1>3, <2>2 DEF Prepare, JobBecomes, SameJob
  <2>. QED  BY <1>2, <2>1, <2>2
<1>5. (seen = "error" /\ GatewayBecomes(g, "pending")) \/ (seen # "error" /\ gateway' = gateway)
  BY <1>3, RowBecomes DEF Prepare, LiveGateways
<1>6. ASSUME NEW k \in JobId, IsPendingOf(k, g, job') PROVE j <= k
  <2>1. k \in LiveJobs /\ job[k].gateway = g
    BY <1>1, <1>4, <1>6 DEF IsPendingOf, JobBecomes, SameJob, LiveJobs, OfGateway, Absent
  <2>2. k = j \/ j < k
    BY <1>1, <2>1 DEF PInv, OneCreateJob, OfGateway
  <2>. QED  BY <1>1, <2>2, BoundsAssumption DEF JobId
<1>7. IsPendingOf(j, g, job')
  BY <1>1, <1>4 DEF IsPendingOf, JobBecomes, SameJob, OfGateway
<1>8. IsFirstPending(j, g, job')
  BY <1>6, <1>7 DEF IsFirstPending
<1>9. ASSUME NEW k \in JobId, IsFirstPending(k, g, job') PROVE k = j
  <2>1. k <= j /\ j <= k
    BY <1>1, <1>6, <1>7, <1>9 DEF IsFirstPending
  <2>. QED  BY <1>1, <2>1, BoundsAssumption DEF JobId
<1>10. PendingJob(g, job') = j
  BY <1>1, <1>8, <1>9 DEF PendingJob
<1>. QED  BY <1>4, <1>5, <1>10

\* The thread that finds its job abandoned: it is at the same place as after
\* ProvisionQueue, and the gateway is PENDING if it was ERROR.
PrepareMoves(t) ==
    LET g == thread[t].gateway
        j == thread[t].job
    IN /\ thread[t].kind = "provision" /\ thread[t].pc = "once" /\ MovesTo(t, "process")
       /\ g \in LiveGateways /\ gateway[g].status \in NeedsProvisioning
       /\ JobBecomes(j, "pending") /\ vm' = vm
       /\ \/ gateway[g].status = "error" /\ GatewayBecomes(g, "pending")
          \/ gateway[g].status # "error" /\ GatewaysStay

LEMMA PrepareTable ==
    ASSUME IInv, PInv, CreateJobExists, NEW t \in Threads, ProvisionPrepare(t)
    PROVE  PrepareMoves(t) /\ WorksOnOpenJob(t) /\ UNCHANGED <<request, sweep>>
<1> DEFINE g == thread[t].gateway
           j == thread[t].job
           latest == LatestJob(g, "create")
<1>1. /\ thread[t].kind = "provision" /\ thread[t].pc = "once" /\ vm' = vm
      /\ gateway[g].status \in NeedsProvisioning
      /\ UNCHANGED <<request, sweep>>
      /\ Prepare(g, Revives(gateway[g].status, StatusOfJob(latest)), latest, Resets(StatusOfJob(latest)))
      /\ thread' = [thread EXCEPT ![t].pc = "process", ![t].job = PendingJob(g, job')]
  BY DEF ProvisionPrepare, At
<1>2. g \in LiveGateways
  BY <1>1 DEF IInv, ThreadsInv, LiveGateways, NeedsProvisioning, Absent
<1>3. WorksOnOpenJob(t)
  BY <1>1, <1>2 DEF PInv, ThreadsWork
<1>4. j = latest
  BY <1>2, <1>3, CreateJobIsFound DEF WorksOnOpenJob, PInv, OfGateway, LiveJobs
<1>5. /\ JobBecomes(j, "pending")
      /\ \/ gateway[g].status = "error" /\ GatewayBecomes(g, "pending")
         \/ gateway[g].status # "error" /\ gateway' = gateway
      /\ PendingJob(g, job') = j
  <2>1. IsOpen(job[j].status)
    BY <1>3 DEF WorksOnOpenJob
  <2>2. Prepare(g, Revives(gateway[g].status, StatusOfJob(j)), j, Resets(StatusOfJob(j)))
    BY <1>1, <1>4
  <2>. HIDE DEF g, j, latest
  <2>3. j = LatestJob(g, "create")
    BY <1>4 DEF latest
  <2>. QED  BY <1>2, <2>1, <2>2, <2>3, PrepareEffect
<1>6. MovesTo(t, "process")
  BY <1>1, <1>5 DEF MovesTo, IInv, ThreadsInv, ThreadState
<1>. QED  BY <1>1, <1>2, <1>3, <1>5, <1>6 DEF PrepareMoves, GatewaysStay

LEMMA PrepareKeepsPInv ==
    ASSUME IInv, PInv, NEW t \in Threads, PrepareMoves(t), WorksOnOpenJob(t),
           UNCHANGED <<request, sweep>>
    PROVE  PInv'
<1> DEFINE g == thread[t].gateway
           j == thread[t].job
<1>0. /\ thread[t].kind = "provision" /\ thread[t].pc = "once" /\ MovesTo(t, "process")
      /\ g \in LiveGateways /\ j \in LiveJobs /\ job[j].gateway = g /\ job[j].type = "create"
      /\ JobBecomes(j, "pending")
      /\ GatewayBecomes(g, "pending") \/ GatewaysStay
  BY DEF PrepareMoves, WorksOnOpenJob
<1>1. RowsFrom /\ GatewaysFrom /\ ThreadsFrom /\ RequestsFrom
  <2>1. GatewaysStay \/ \E status : gateway[g].status # Absent /\ GatewayBecomes(g, status)
    BY <1>0 DEF LiveGateways
  <2>2. \E status : job[j].status # Absent /\ JobBecomes(j, status)
    BY <1>0 DEF LiveJobs
  <2>. QED  BY <1>0, <2>1, <2>2, MoveTakesUpNothing
<1>2. OneCreateJob' /\ OwnJobs'
  BY <1>1, CreateJobKept, OwnJobsKept DEF PInv
<1>3. ASSUME NEW u \in Threads, thread'[u].kind = "provision", thread'[u].pc \notin {"idle", "exit"},
             thread'[u].gateway \in LiveGateways'
      PROVE  WorksOnOpenJob(u)'
  <2>1. CASE u # t
    <3>1. thread'[u] = thread[u] /\ thread[u].gateway \in LiveGateways
      BY <1>0, <1>1, <1>3, <2>1 DEF MovesTo, LiveGateways, GatewaysFrom
    <3>2. WorksOnOpenJob(u)
      BY <1>3, <3>1 DEF PInv, ThreadsWork
    <3>3. thread[u].gateway # g /\ thread[u].job # j
      BY <1>0, <1>3, <2>1, <3>1, <3>2, NobodyElse DEF WorksOnOpenJob
    <3>. QED  BY <1>0, <3>1, <3>2, <3>3
           DEF WorksOnOpenJob, SameJob, LiveJobs, LiveGateways, GatewaysStay, GatewayBecomes, JobBecomes
  <2>2. CASE u = t
    <3>1. thread'[t].gateway = g /\ thread'[t].job = j /\ thread'[t].pc = "process"
      BY <1>0 DEF MovesTo
    <3>. QED  BY <1>0, <2>2, <3>1 DEF WorksOnOpenJob, SameJob, LiveJobs, JobBecomes, IsOpen, Absent
  <2>. QED  BY <2>1, <2>2
<1>4. ASSUME NEW h \in LiveGateways', NEW k \in LiveJobs', Waits(gateway'[h].status),
             job'[k].gateway = h, job'[k].type = "create"
      PROVE  IsOpen(job'[k].status)
  <2>1. h \in LiveGateways /\ k \in LiveJobs /\ job[k].gateway = h /\ job[k].type = "create"
    BY <1>1, <1>4 DEF RowsFrom, GatewaysFrom, LiveGateways, LiveJobs, SameJob
  <2>2. CASE h # g
    BY <1>0, <1>4, <2>1, <2>2
       DEF PInv, WaitsForOpenJob, JobBecomes, GatewayBecomes, GatewaysStay, LiveGateways, LiveJobs
  <2>3. CASE h = g
    <3>1. k = j
      BY <1>0, <2>1, <2>3 DEF PInv, OneCreateJob
    <3>. QED  BY <1>0, <3>1 DEF JobBecomes, LiveJobs, IsOpen
  <2>. QED  BY <2>2, <2>3
<1>. QED  BY <1>2, <1>3, <1>4 DEF PInv, ThreadsWork, WaitsForOpenJob

\* Steps that write neither table, but for updated_at, and start nothing.
Quiet ==
    /\ GatewaysStay /\ JobsStay
    /\ \A u \in Threads : thread'[u] = thread[u] \/ thread'[u].pc = "idle"

LEMMA QuietKeepsPInv ==
    ASSUME PInv, Quiet, OwnJobs'
    PROVE  PInv'
<1>1. LiveGateways' = LiveGateways /\ LiveJobs' = LiveJobs
  BY DEF Quiet, GatewaysStay, JobsStay, LiveGateways, LiveJobs
<1>2. OneCreateJob'
  BY <1>1 DEF PInv, OneCreateJob, Quiet, JobsStay, SameJob, LiveJobs
<1>3. ThreadsWork'
  BY <1>1 DEF PInv, ThreadsWork, WorksOnOpenJob, Quiet, JobsStay, GatewaysStay, SameJob, LiveJobs, LiveGateways
<1>4. WaitsForOpenJob'
  BY <1>1 DEF PInv, WaitsForOpenJob, Quiet, JobsStay, GatewaysStay, SameJob, LiveJobs, LiveGateways
<1>. QED  BY <1>2, <1>3, <1>4 DEF PInv

LEMMA QuietOwnJobs ==
    ASSUME PInv, Quiet, RequestsFrom
    PROVE  OwnJobs'
<1>1. RowsFrom /\ ThreadsFrom
  BY DEF Quiet, JobsStay, RowsFrom, ThreadsFrom
<1>. QED  BY <1>1, OwnJobsKept DEF PInv

LEMMA CreateEffect ==
    ASSUME IInv, InsertsNewIds, NEW name \in Names, NEW g, NEW j, CreateGateway(name),
           g = NextId(LiveGateways, GatewayId), j = NextId(LiveJobs, JobId)
    PROVE  /\ g \in GatewayId /\ gateway[g].status = Absent /\ GatewayIsNew(g)
           /\ gateway'[g] = [status |-> "pending", name |-> name]
           /\ \A h \in GatewayId : h # g => gateway'[h] = gateway[h]
           /\ LiveGateways' = LiveGateways \cup {g}
           /\ j \in JobId /\ j \notin LiveJobs /\ LiveJobs' = LiveJobs \cup {j}
           /\ \A k \in LiveJobs : job'[k] = job[k]
           /\ job'[j] = NewJob("create", g)
           /\ Keeps /\ StartsOnly("provision", g, j)
           /\ UNCHANGED <<vm, request, sweep>>
<1>1. /\ g # 0 /\ j # 0
      /\ gateway' = [gateway EXCEPT ![g] = [status |-> "pending", name |-> name]]
      /\ job' = [job EXCEPT ![j] = NewJob("create", g)]
      /\ Start("provision", g, j)
      /\ UNCHANGED <<vm, request, sweep>>
  BY DEF CreateGateway
<1>2. g \in GatewayId /\ g \notin LiveGateways
  <2>1. g \in GatewayId /\ \A i \in LiveGateways : i < g
    BY <1>1, NextIdFresh
  <2>. QED  BY <2>1 DEF GatewayId
<1>3. gateway'[g] = [status |-> "pending", name |-> name] /\ \A h \in GatewayId : h # g => gateway'[h] = gateway[h]
  BY <1>1, <1>2 DEF IInv, RowsInv
<1>4. gateway[g].status = Absent /\ gateway'[g].status # Absent
  BY <1>2, <1>3 DEF LiveGateways, Absent
<1>5. GatewayIsNew(g)
  BY <1>2, <1>4 DEF InsertsNewIds
<1>6. LiveGateways' = LiveGateways \cup {g}
  BY <1>2, <1>3, <1>4 DEF LiveGateways
<1>7. /\ j \in JobId /\ j \notin LiveJobs /\ LiveJobs' = LiveJobs \cup {j}
      /\ \A k \in LiveJobs : k < j /\ job'[k] = job[k]
      /\ job'[j] = NewJob("create", g)
      /\ Keeps
  <2>1. Inserts(j, "create", g)
    BY <1>1 DEF Inserts
  <2>. QED  BY <2>1, InsertEffect
<1>8. StartsOnly("provision", g, j)
  BY <1>1, StartEffect
<1>. QED  BY <1>1, <1>2, <1>3, <1>4, <1>5, <1>6, <1>7, <1>8

\* create_gateway brings a gateway together with its create job, which nobody knew.
LEMMA CreateKeepsPInv ==
    ASSUME IInv, PInv, InsertsNewIds, NEW name \in Names, CreateGateway(name)
    PROVE  PInv'
<1> DEFINE g == NextId(LiveGateways, GatewayId)
           j == NextId(LiveJobs, JobId)
<1>1. /\ g \in GatewayId /\ gateway[g].status = Absent /\ GatewayIsNew(g)
      /\ gateway'[g] = [status |-> "pending", name |-> name]
      /\ \A h \in GatewayId : h # g => gateway'[h] = gateway[h]
      /\ LiveGateways' = LiveGateways \cup {g}
      /\ j \in JobId /\ j \notin LiveJobs /\ LiveJobs' = LiveJobs \cup {j}
      /\ \A k \in LiveJobs : job'[k] = job[k]
      /\ job'[j] = NewJob("create", g)
      /\ Keeps /\ StartsOnly("provision", g, j)
      /\ UNCHANGED <<vm, request, sweep>>
  <2>1. g = NextId(LiveGateways, GatewayId) /\ j = NextId(LiveJobs, JobId)
    OBVIOUS
  <2>. HIDE DEF g, j
  <2>. QED  BY <2>1, CreateEffect
<1> HIDE DEF g, j
<1>2. job'[j].gateway = g /\ job'[j].type = "create" /\ job'[j].status = "pending"
  BY <1>1 DEF NewJob
<1>3. \A k \in LiveJobs : job[k].gateway # g
  BY <1>1 DEF GatewayIsNew
<1>4. Arrives
  BY <1>1 DEF Arrives
<1>5. OneCreateJob'
  BY <1>1, <1>2, <1>3 DEF PInv, OneCreateJob
<1>6. OwnJobs'
  BY <1>1, <1>2, StartKeepsOwn DEF RequestsFrom
<1>7. ThreadsWork'
  BY <1>1, <1>2, <1>4, StartKeepsWork DEF IsOpen
<1>8. WaitsForOpenJob'
  BY <1>1, <1>4, StartKeepsWaiting
<1>. QED  BY <1>5, <1>6, <1>7, <1>8 DEF PInv

\* request_delete_gateway, to its commit.
LEMMA CommitEffect ==
    ASSUME IInv, PInv, InsertsNewIds, NEW r \in Requests, DeleteCommit(r), NEW g, g = request[r].gateway
    PROVE  /\ g \in GatewayId
           /\ \/ request[r].updates /\ g \in LiveGateways /\ GatewayBecomes(g, "deleting")
              \/ ~request[r].updates /\ GatewaysStay
           /\ \/ job' = job /\ request[r].job # 0
              \/ request[r].job = 0 /\ \E n : Inserts(n, "delete", g)
           /\ \E j : /\ j \in LiveJobs' => job'[j].gateway = g /\ job'[j].type = "delete"
                     /\ j # 0 /\ StartsOnly("delete", g, j)
           /\ request[r].op = "delete" /\ request'[r].op = "idle"
           /\ RequestsFrom /\ UNCHANGED <<vm, sweep>>
<1> DEFINE j == IF request[r].job # 0 THEN request[r].job ELSE NextId(LiveJobs, JobId)
<1>1. /\ request[r].op = "delete" /\ j # 0
      /\ request[r].updates => gateway[g].status # Absent
      /\ gateway' = IF request[r].updates THEN [gateway EXCEPT ![g].status = "deleting"] ELSE gateway
      /\ job' = IF request[r].job # 0 THEN job ELSE [job EXCEPT ![j] = NewJob("delete", g)]
      /\ UNCHANGED <<active, thread>> \/ Start("delete", g, j)
      /\ Finish(r) /\ UNCHANGED <<vm, sweep>>
  BY DEF DeleteCommit
<1>2. g \in GatewayId
  BY <1>1 DEF IInv, HandlersInv
<1>3. \/ request[r].updates /\ g \in LiveGateways /\ GatewayBecomes(g, "deleting")
      \/ ~request[r].updates /\ GatewaysStay
  BY <1>1, <1>2, RowBecomes DEF LiveGateways, GatewaysStay
<1>4. \/ job' = job /\ request[r].job # 0
      \/ request[r].job = 0 /\ Inserts(j, "delete", g)
  BY <1>1 DEF Inserts
<1>5. j \in LiveJobs' => job'[j].gateway = g /\ job'[j].type = "delete"
  <2>1. CASE request[r].job # 0
    BY <1>1, <2>1 DEF PInv, OwnJobs, LiveJobs
  <2>2. CASE request[r].job = 0
    <3>1. Inserts(j, "delete", g)
      BY <1>4, <2>2
    <3>. HIDE DEF j
    <3>2. job'[j] = NewJob("delete", g)
      BY <3>1, InsertEffect
    <3>. QED  BY <3>2 DEF NewJob
  <2>. QED  BY <2>1, <2>2
<1>6. StartsOnly("delete", g, j)
  BY <1>1, StartEffect DEF StartsOnly
<1>7. RequestsFrom /\ request'[r].op = "idle"
  BY <1>1 DEF RequestsFrom, Finish, IdleRequest, NewRequest, IInv, HandlersInv
<1>. QED  BY <1>1, <1>2, <1>3, <1>4, <1>5, <1>6, <1>7

LEMMA CommitKeepsPInv ==
    ASSUME IInv, PInv, InsertsNewIds, NEW r \in Requests, DeleteCommit(r)
    PROVE  PInv'
<1> DEFINE g == request[r].gateway
<1>1. /\ g \in GatewayId
      /\ (g \in LiveGateways /\ GatewayBecomes(g, "deleting")) \/ GatewaysStay
      /\ job' = job \/ \E n : Inserts(n, "delete", g)
      /\ \E j : /\ j \in LiveJobs' => job'[j].gateway = g /\ job'[j].type = "delete"
                /\ StartsOnly("delete", g, j)
      /\ RequestsFrom
  <2>1. g = request[r].gateway
    OBVIOUS
  <2>. HIDE DEF g
  <2>. QED  BY <2>1, CommitEffect
<1> HIDE DEF g
<1>2. PICK j : /\ j \in LiveJobs' => job'[j].gateway = g /\ job'[j].type = "delete"
               /\ StartsOnly("delete", g, j)
  BY <1>1
<1>3. Keeps
  BY <1>1, InsertEffect DEF Keeps, SameJob
<1>4. Arrives /\ GatewaysFrom
  BY <1>1 DEF Arrives, GatewaysFrom, GatewayBecomes, GatewaysStay, LiveGateways, Waits
<1>5. OneCreateJob'
  <2>1. CASE job' = job
    BY <1>4, <2>1, CreateJobKept DEF PInv, RowsFrom, SameJob
  <2>. QED  BY <1>1, <1>4, <2>1, DeleteJobComesAfter
<1>6. OwnJobs'
  BY <1>1, <1>2, <1>3, StartKeepsOwn
<1>7. ThreadsWork'
  BY <1>2, <1>3, <1>4, StartKeepsWork
<1>8. WaitsForOpenJob'
  BY <1>3, <1>4, StartKeepsWaiting
<1>. QED  BY <1>5, <1>6, <1>7, <1>8 DEF PInv

\* The steps of requests that read, join or give up.
LEMMA RequestsKeepPInv ==
    ASSUME IInv, PInv, NobodyRetries, InsertsNewIds, NEW r \in Requests, RequestBegins(r) \/ RequestStep(r)
    PROVE  PInv'
<1>1. CASE DeleteCommit(r)
  BY <1>1, CommitKeepsPInv
<1>2. CASE DeleteJoin(r)
  <2> DEFINE g == request[r].gateway
             j == request[r].job
  <2>1. /\ Start("delete", g, j) /\ Finish(r) /\ UNCHANGED <<gateway, job>>
        /\ request[r].op # "idle"
    BY <1>2 DEF DeleteJoin
  <2>2. StartsOnly("delete", g, j)
    BY <2>1, StartEffect
  <2>3. j \in LiveJobs' => job'[j].gateway = g /\ job'[j].type = "delete"
    BY <2>1 DEF PInv, OwnJobs, LiveJobs
  <2>4. Keeps /\ Arrives /\ RowsFrom /\ GatewaysFrom
    BY <2>1 DEF Keeps, Arrives, SameJob, RowsFrom, GatewaysFrom
  <2>5. RequestsFrom
    BY <2>1 DEF RequestsFrom, Finish, IdleRequest, NewRequest, IInv, HandlersInv
  <2> HIDE DEF g, j
  <2>6. OwnJobs'
    BY <2>2, <2>3, <2>4, <2>5, StartKeepsOwn
  <2>7. ThreadsWork'
    BY <2>2, <2>4, StartKeepsWork
  <2>. QED  BY <2>4, <2>6, <2>7, CreateJobKept, StartKeepsWaiting DEF PInv
<1>3. CASE DeleteStale(r)
  <2>1. Quiet /\ RequestsFrom
    BY <1>3 DEF DeleteStale, Quiet, GatewaysStay, JobsStay, SameJob, RequestsFrom, Finish,
         IdleRequest, NewRequest, IInv, HandlersInv
  <2>. QED  BY <2>1, QuietOwnJobs, QuietKeepsPInv
<1>4. ASSUME NEW g \in GatewayId, DeleteRead(r, g)
      PROVE  PInv'
  <2> DEFINE existing == LatestJob(g, "delete")
  <2>1. Quiet
    BY <1>4 DEF DeleteRead, Quiet, GatewaysStay, JobsStay, SameJob
  <2>2. \A q \in Requests : q # r => request'[q] = request[q]
    BY <1>4 DEF DeleteRead, IInv, HandlersInv
  <2>3. /\ request'[r].op \in {"delete", "join"} /\ request'[r].gateway = g
        /\ request'[r].job \in {existing, 0}
    BY <1>4 DEF DeleteRead, NewRequest, IInv, HandlersInv
  <2>4. job' = job /\ thread' = thread
    BY <1>4 DEF DeleteRead
  <2>5. existing # 0 => job[existing].gateway = g /\ job[existing].type = "delete"
    BY LatestJobLive DEF JobsOf
  <2>6. 0 \notin JobId
    BY BoundsAssumption DEF JobId
  <2> HIDE DEF existing
  <2>7. OwnJobs'
    BY <2>2, <2>3, <2>4, <2>5, <2>6 DEF PInv, OwnJobs, LiveJobs
  <2>. QED  BY <2>1, <2>7, QuietKeepsPInv
<1>5. request[r].op \notin {"retry", "pick"}
  BY DEF PInv, OwnJobs
<1>. QED  BY <1>1, <1>2, <1>3, <1>4, <1>5
       DEF RequestBegins, RequestStep, RetryRead, RetryPrepare, RetryPick, NobodyRetries

-----------------------------------------------------------------------------
(* Who waits can be resumed: the sweep, and the invariant *)

\* What prepare_provisioning does to the row and the jobs when the sweep calls it.
LEMMA SweepPrepares ==
    ASSUME IInv, PInv, CreateJobExists, NEW g \in GatewayId, NEW seen, NEW j,
           j = LatestJob(g, "create"), StatusOfJob(j) \in {"running", Absent},
           CanPrepare(g, Revives(seen, StatusOfJob(j)), j, Resets(StatusOfJob(j))),
           Prepare(g, Revives(seen, StatusOfJob(j)), j, Resets(StatusOfJob(j)))
    PROVE  \/ /\ g \in LiveGateways /\ OfGateway(j, g, "create") /\ IsOpen(job[j].status)
              /\ JobBecomes(j, "pending") /\ PendingJob(g, job') = j
              /\ (seen = "error" /\ GatewayBecomes(g, "pending")) \/ (seen # "error" /\ GatewaysStay)
           \/ /\ g \notin LiveGateways /\ GatewaysStay
              /\ \/ OfGateway(j, g, "create") /\ JobBecomes(j, "pending")
                 \/ j = 0 /\ \E n : Inserts(n, "create", g)
<1>1. j # 0 => OfGateway(j, g, "create") /\ StatusOfJob(j) = job[j].status /\ job[j].status # Absent
  BY LatestJobLive DEF JobsOf, OfGateway, StatusOfJob, LiveJobs
<1>2. CASE g \in LiveGateways
  <2>1. j # 0
    BY <1>2, CreateJobIsFound DEF PInv
  <2>2. IsOpen(job[j].status)
    BY <1>1, <2>1 DEF IsOpen
  <2>3. /\ JobBecomes(j, "pending")
        /\ (seen = "error" /\ GatewayBecomes(g, "pending")) \/ (seen # "error" /\ gateway' = gateway)
        /\ PendingJob(g, job') = j
    BY <1>2, <2>2, PrepareEffect
  <2>. QED  BY <1>1, <1>2, <2>1, <2>2, <2>3 DEF GatewaysStay
<1>3. CASE g \notin LiveGateways
  <2>1. ~Revives(seen, StatusOfJob(j))
    BY <1>3 DEF CanPrepare, LiveGateways
  <2>2. GatewaysStay
    BY <2>1 DEF Prepare, GatewaysStay
  <2>3. CASE j # 0
    <3>1. Resets(StatusOfJob(j))
      BY <1>1, <2>3 DEF Resets
    <3>2. JobBecomes(j, "pending")
      BY <3>1, StatusBecomes DEF Prepare
    <3>. QED  BY <1>1, <1>3, <2>2, <2>3, <3>2
  <2>4. CASE j = 0
    <3>1. ~Resets(StatusOfJob(j))
      BY <2>4 DEF Resets, StatusOfJob, Absent
    <3>2. Inserts(NextId(LiveJobs, JobId), "create", g)
      BY <2>4, <3>1 DEF Prepare, CanPrepare, Inserts
    <3>. QED  BY <1>3, <2>2, <2>4, <3>2
  <2>. QED  BY <2>3, <2>4
<1>. QED  BY <1>2, <1>3

\* resume_incomplete_provisioning starts the create job of a live gateway; what it
\* does for one that has gone concerns no gateway.
LEMMA SweepProvisionKeepsPInv ==
    ASSUME IInv, PInv, CreateJobExists, InsertsNewIds, NEW g \in GatewayId, SweepProvision(g)
    PROVE  PInv'
<1> DEFINE j == LatestJob(g, "create")
           seen == SeenNow(g)
<1>0. RequestsFrom /\ g \notin active["provision"] /\ StatusOfJob(j) \in {"pending", "running", Absent}
  BY DEF SweepProvision, RequestsFrom
<1>1. j # 0 => OfGateway(j, g, "create") /\ StatusOfJob(j) = job[j].status
  BY LatestJobLive DEF JobsOf, OfGateway, StatusOfJob
<1>2. CASE StatusOfJob(j) = "pending"
  <2>1. Start("provision", g, j) /\ UNCHANGED <<gateway, job>>
    BY <1>2 DEF SweepProvision
  <2>2. OfGateway(j, g, "create") /\ job[j].status = "pending"
    BY <1>1, <1>2 DEF StatusOfJob, Absent
  <2>3. StartsOnly("provision", g, j)
    BY <2>1, StartEffect
  <2>4. Keeps /\ Arrives /\ RowsFrom /\ GatewaysFrom
    BY <2>1 DEF Keeps, Arrives, SameJob, RowsFrom, GatewaysFrom
  <2>5. j \in LiveJobs' /\ job'[j].gateway = g /\ job'[j].type = "create" /\ IsOpen(job'[j].status)
    BY <2>1, <2>2 DEF OfGateway, LiveJobs, IsOpen
  <2> HIDE DEF j
  <2>6. OwnJobs'
    BY <1>0, <2>3, <2>4, <2>5, StartKeepsOwn
  <2>7. ThreadsWork'
    BY <2>3, <2>4, <2>5, StartKeepsWork
  <2>. QED  BY <2>4, <2>6, <2>7, CreateJobKept, StartKeepsWaiting DEF PInv
<1>3. CASE /\ StatusOfJob(j) # "pending"
           /\ CanPrepare(g, Revives(seen, StatusOfJob(j)), j, Resets(StatusOfJob(j)))
  <2> DEFINE p == PendingJob(g, job')
  <2>1. /\ Prepare(g, Revives(seen, StatusOfJob(j)), j, Resets(StatusOfJob(j)))
        /\ Start("provision", g, p)
    BY <1>3 DEF SweepProvision
  <2>2. \/ /\ g \in LiveGateways /\ OfGateway(j, g, "create") /\ IsOpen(job[j].status)
           /\ JobBecomes(j, "pending") /\ p = j
           /\ GatewayBecomes(g, "pending") \/ GatewaysStay
        \/ /\ g \notin LiveGateways /\ GatewaysStay
           /\ \/ OfGateway(j, g, "create") /\ JobBecomes(j, "pending")
              \/ \E n : Inserts(n, "create", g)
    <3>1. j = LatestJob(g, "create") /\ StatusOfJob(j) \in {"running", Absent}
      BY <1>0, <1>3
    <3>2. p = PendingJob(g, job')
      OBVIOUS
    <3>. HIDE DEF j, p, seen
    <3>. QED  BY <1>3, <2>1, <3>1, <3>2, SweepPrepares
  <2>3. StartsOnly("provision", g, p)
    BY <2>1, StartEffect
  <2>4. p # 0 => p \in JobId /\ job'[p].gateway = g
    <3>1. p # 0 => p \in JobId /\ IsPendingOf(p, g, job')
      BY PendingJobIs
    <3>. QED  BY <3>1 DEF IsPendingOf
  <2> HIDE DEF j, p, seen
  <2>5. Keeps
    <3>1. CASE \E n : Inserts(n, "create", g)
      BY <3>1, InsertEffect
    <3>2. CASE OfGateway(j, g, "create") /\ JobBecomes(j, "pending")
      BY <3>2 DEF Keeps, JobBecomes, OfGateway, LiveJobs
    <3>. QED  BY <2>2, <3>1, <3>2
  <2>6. LiveGateways' = LiveGateways
    BY <2>2 DEF GatewaysStay, GatewayBecomes, LiveGateways, Absent
  <2>7. g \in LiveGateways => \A k \in LiveJobs : job[k].gateway = g /\ job[k].type = "create" => k = j
    BY <2>2 DEF PInv, OneCreateJob, OfGateway
  <2>8. Arrives
    <3>1. CASE GatewaysStay
      BY <3>1 DEF Arrives, GatewaysStay
    <3>2. CASE g \in LiveGateways /\ GatewayBecomes(g, "pending")
      <4>1. JobBecomes(j, "pending")
        BY <2>2, <3>2
      <4>. QED  BY <1>0, <2>7, <3>2, <4>1
             DEF Arrives, GatewayBecomes, JobBecomes, LiveGateways, LiveJobs
    <3>. QED  BY <2>2, <3>1, <3>2
  <2>9. OneCreateJob'
    <3>1. CASE \E n : Inserts(n, "create", g) /\ g \notin LiveGateways
      <4>1. PICK n : Inserts(n, "create", g)
        BY <3>1
      <4>2. /\ LiveJobs' = LiveJobs \cup {n} /\ job'[n] = NewJob("create", g)
            /\ \A k \in LiveJobs : job'[k] = job[k]
        BY <4>1, InsertEffect
      <4>3. job'[n].gateway = g
        BY <4>2 DEF NewJob
      <4>. QED  BY <2>6, <3>1, <4>2, <4>3 DEF PInv, OneCreateJob
    <3>2. CASE OfGateway(j, g, "create") /\ JobBecomes(j, "pending")
      <4>1. RowsFrom /\ GatewaysFrom
        BY <2>6, <3>2 DEF RowsFrom, GatewaysFrom, JobBecomes, OfGateway, LiveJobs, LiveGateways
      <4>. QED  BY <4>1, CreateJobKept DEF PInv
    <3>. QED  BY <2>2, <3>1, <3>2
  <2>10. OwnJobs'
    <3>1. p \in LiveJobs' => job'[p].gateway = g
      BY <2>4, BoundsAssumption DEF LiveJobs, JobId
    <3>. QED  BY <1>0, <2>3, <2>5, <3>1, StartKeepsOwn
  <2>11. ThreadsWork'
    <3>1. g \in LiveGateways' =>
            p \in LiveJobs' /\ job'[p].gateway = g /\ job'[p].type = "create" /\ IsOpen(job'[p].status)
      BY <2>2, <2>6 DEF OfGateway, JobBecomes, SameJob, LiveJobs, IsOpen, Absent
    <3>. QED  BY <2>3, <2>5, <2>8, <3>1, StartKeepsWork
  <2>. QED  BY <2>5, <2>8, <2>9, <2>10, <2>11, StartKeepsWaiting DEF PInv
<1>4. CASE /\ StatusOfJob(j) # "pending"
           /\ ~CanPrepare(g, Revives(seen, StatusOfJob(j)), j, Resets(StatusOfJob(j)))
  <2>1. Quiet
    BY <1>4 DEF SweepProvision, Quiet, GatewaysStay, JobsStay, SameJob
  <2>. QED  BY <1>0, <2>1, QuietOwnJobs, QuietKeepsPInv
<1>. QED  BY <1>2, <1>3, <1>4

\* resume_incomplete_deletions starts a delete job of the gateway it names.
LEMMA SweepDeleteKeepsPInv ==
    ASSUME IInv, PInv, InsertsNewIds, NEW g \in GatewayId, SweepDelete(g)
    PROVE  PInv'
<1> DEFINE latest == LatestJob(g, "delete")
           j == IF latest = 0 THEN NextId(LiveJobs, JobId) ELSE latest
<1>0. /\ RequestsFrom /\ GatewaysFrom /\ GatewaysStay /\ Start("delete", g, j) /\ j # 0
      /\ job' = IF latest = 0 THEN [job EXCEPT ![j] = NewJob("delete", g)]
                ELSE WithJobStatus(job, j, "pending")
  BY DEF SweepDelete, RequestsFrom, GatewaysFrom, GatewaysStay
<1>1. StartsOnly("delete", g, j)
  BY <1>0, StartEffect
<1>2. Arrives
  BY <1>0 DEF Arrives, GatewaysStay
<1>3. Keeps /\ OneCreateJob' /\ job'[j].gateway = g /\ job'[j].type = "delete"
  <2>1. CASE latest = 0
    <3>1. Inserts(j, "delete", g)
      BY <1>0, <2>1 DEF Inserts
    <3>. HIDE DEF j
    <3>2. Keeps /\ job'[j] = NewJob("delete", g)
      BY <3>1, InsertEffect
    <3>3. OneCreateJob'
      BY <1>0, <3>1, DeleteJobComesAfter
    <3>. QED  BY <3>2, <3>3 DEF NewJob
  <2>2. CASE latest # 0
    <3>1. j \in LiveJobs /\ job[j].gateway = g /\ job[j].type = "delete"
      BY <2>2, LatestJobLive DEF JobsOf
    <3>2. JobBecomes(j, "pending")
      BY <1>0, <2>2, StatusBecomes
    <3>. HIDE DEF j
    <3>3. Keeps /\ RowsFrom
      BY <3>1, <3>2 DEF Keeps, RowsFrom, JobBecomes, LiveJobs
    <3>4. job'[j].gateway = g /\ job'[j].type = "delete"
      BY <3>1, <3>2 DEF JobBecomes, SameJob, LiveJobs
    <3>. QED  BY <1>0, <3>3, <3>4, CreateJobKept DEF PInv
  <2>. QED  BY <2>1, <2>2
<1> HIDE DEF j
<1>4. OwnJobs'
  BY <1>0, <1>1, <1>3, StartKeepsOwn
<1>5. ThreadsWork'
  BY <1>1, <1>2, <1>3, StartKeepsWork
<1>. QED  BY <1>2, <1>3, <1>4, <1>5, StartKeepsWaiting DEF PInv

LEMMA SweepKeepsPInv ==
    ASSUME IInv, PInv, CreateJobExists, InsertsNewIds, SweepStep
    PROVE  PInv'
<1>1. CASE SweepBegin \/ SweepTurn \/ SweepEnd \/ \E g \in GatewayId : SweepRaises(g) \/ SweepSkip(g)
  <2>1. Quiet /\ RequestsFrom
    BY <1>1 DEF SweepBegin, SweepTurn, SweepEnd, SweepRaises, SweepSkip, Quiet, GatewaysStay,
         JobsStay, SameJob, RequestsFrom
  <2>. QED  BY <2>1, QuietOwnJobs, QuietKeepsPInv
<1>2. CASE \E g \in GatewayId : SweepProvision(g) \/ SweepDelete(g)
  BY <1>2, SweepProvisionKeepsPInv, SweepDeleteKeepsPInv
<1>. QED  BY <1>1, <1>2 DEF SweepStep

LEMMA PInvStep ==
    ASSUME NobodyRetries, IInv, CreateJobExists, PInv, [Next]_vars, [InsertsNewIds]_vars
    PROVE  PInv'
<1>1. CASE UNCHANGED vars
  <2>1. Quiet /\ RequestsFrom
    BY <1>1 DEF vars, Quiet, GatewaysStay, JobsStay, SameJob, RequestsFrom
  <2>. QED  BY <2>1, QuietOwnJobs, QuietKeepsPInv
<1>2. ASSUME NEW t \in Threads, ThreadStep(t) \/ ThreadLocked(t), InsertsNewIds
      PROVE  PInv'
  <2>1. CASE ProvisionStep(t) /\ ~ProvisionPrepare(t)
    BY <2>1, ProvisionTable, ProvisionKeepsPInv
  <2>2. CASE ProvisionPrepare(t)
    BY <2>2, PrepareTable, PrepareKeepsPInv
  <2>3. CASE DeleteStep(t) /\ ~DeleteRemove(t)
    BY <2>3, DeleteTable, DeleteKeepsPInv
  <2>4. CASE DeleteRemove(t)
    BY <2>4, RemoveKeepsPInv
  <2>5. CASE ThreadLocked(t)
    BY <2>5, LockTable, LockKeepsPInv
  <2>6. CASE ThreadExit(t)
    <3>1. Quiet /\ RequestsFrom
      BY <2>6 DEF ThreadExit, Quiet, GatewaysStay, JobsStay, SameJob, RequestsFrom, IdleThread,
           IInv, ThreadsInv
    <3>. QED  BY <3>1, QuietOwnJobs, QuietKeepsPInv
  <2>. QED  BY <1>2, <2>1, <2>2, <2>3, <2>4, <2>5, <2>6 DEF ThreadStep
<1>3. ASSUME NEW j \in JobId, Age(j)
      PROVE  PInv'
  <2>1. JobsStay
    BY <1>3 DEF Age, JobsStay, SameJob, IInv, RowsInv, JobRow, NoJob
  <2>2. Quiet /\ RequestsFrom
    BY <1>3, <2>1 DEF Age, Quiet, GatewaysStay, RequestsFrom
  <2>. QED  BY <2>2, QuietOwnJobs, QuietKeepsPInv
<1>4. CASE Crash
  <2>1. Quiet /\ RequestsFrom
    BY <1>4 DEF Crash, Quiet, GatewaysStay, JobsStay, SameJob, RequestsFrom, IdleThread,
         IdleRequest, NewRequest
  <2>. QED  BY <2>1, QuietOwnJobs, QuietKeepsPInv
<1>5. CASE Next /\ InsertsNewIds
  BY <1>2, <1>3, <1>4, <1>5, CreateKeepsPInv, RequestsKeepPInv, SweepKeepsPInv DEF Next
<1>. QED  BY <1>1, <1>5

LEMMA PInvHolds ==
    ASSUME NobodyRetries
    PROVE  Spec /\ IdsNotReused => []PInv
<1>1. Init => PInv
  BY BoundsAssumption DEF Init, PInv, OneCreateJob, OwnJobs, ThreadsWork, WaitsForOpenJob, LiveGateways,
     LiveJobs, NoGateway, NoJob, IdleThread, IdleRequest, NewRequest
<1>2. IInv /\ CreateJobExists /\ PInv /\ [Next]_vars /\ [InsertsNewIds]_vars => PInv'
  BY PInvStep
<1>. QED  BY <1>1, <1>2, IInvHolds, AlwaysACreateJob, PTL DEF Spec, IdsNotReused

\* resume_incomplete_provisioning finds whatever waits: where nobody retries and
\* no id comes back, a gateway that is PENDING or PROVISIONING has an open create
\* job, however the crashes, the locks, the sweeps and the deletions fall.
THEOREM PendingIsResumed ==
    ASSUME NobodyRetries
    PROVE  Spec /\ IdsNotReused => []PendingRecoverable
<1>1. PInv /\ CreateJobExists => PendingRecoverable
  <2> SUFFICES ASSUME PInv, CreateJobExists, NEW g \in LiveGateways,
                      gateway[g].status \in {"pending", "provisioning"}
               PROVE  StatusOfJob(LatestJob(g, "create")) \in {"pending", "running"}
    BY DEF PendingRecoverable
  <2>1. OfGateway(LatestJob(g, "create"), g, "create") /\ LatestJob(g, "create") # 0
    BY CreateJobIsFound DEF PInv
  <2>. QED  BY <2>1 DEF PInv, WaitsForOpenJob, OfGateway, Waits, IsOpen, StatusOfJob
<1>. QED  BY <1>1, PInvHolds, AlwaysACreateJob, PTL

-----------------------------------------------------------------------------
(* Gateways that are deleted when READY: what a step leaves alone *)

\* The steps below are those of a gateway's life where DeletedWhenReady holds.
Gentle == NobodyRetries /\ DeletedWhenReady

SameGateway(h) ==
    /\ gateway'[h].status = gateway[h].status /\ gateway'[h].name = gateway[h].name
    /\ gateway[h].name \in vm => gateway[h].name \in vm'
AtWork(t) ==
    thread[t].kind = "provision"
    /\ thread[t].pc \in {"process", "status", "launch", "poll", "register", "fail"}

\* The same job rows are there, and the same gateways under the same names.
SameRows == \A k \in JobId : SameJob(k) /\ (job'[k].status = Absent <=> job[k].status = Absent)
NamesFrom == \A h \in GatewayId : gateway'[h].status # Absent =>
    gateway[h].status # Absent /\ gateway'[h].name = gateway[h].name

LEMMA SameRowsSameLatest ==
    ASSUME SameRows, NEW g, NEW type, NEW j
    PROVE  /\ OfGateway(j, g, type)' <=> OfGateway(j, g, type)
           /\ IsLatest(j, g, type)' <=> IsLatest(j, g, type)
  BY DEF SameRows, SameJob, OfGateway, IsLatest, JobsOf, LiveJobs

LEMMA NamesKept ==
    ASSUME UniqueNames, NamesFrom
    PROVE  UniqueNames'
  BY DEF UniqueNames, NamesFrom, LiveGateways

LEMMA JobsKnownKept ==
    ASSUME IInv, JobsKnown, RequestsFrom,
           \A u \in Threads : thread'[u] = thread[u] \/ thread'[u].pc \in {"idle", "exit"}
                             \/ (thread'[u].kind = "delete" => thread'[u].job # 0)
    PROVE  JobsKnown'
  BY DEF JobsKnown, RequestsFrom, IInv, HandlersInv

LEMMA MoveKeepsJobsKnown ==
    ASSUME IInv, JobsKnown, RequestsFrom, NEW t \in Threads, thread[t].pc \notin {"idle", "exit"},
           NEW pc, MovesTo(t, pc)
    PROVE  JobsKnown'
<1>1. \A u \in Threads : u # t => thread'[u] = thread[u]
  BY DEF MovesTo
<1>2. thread'[t].pc # "exit" => thread'[t].job = thread[t].job /\ thread'[t].kind = thread[t].kind
  BY DEF MovesTo
<1>3. thread[t].kind = "delete" => thread[t].job # 0
  BY DEF JobsKnown
<1>4. ASSUME NEW u \in Threads
      PROVE  thread'[u] = thread[u] \/ thread'[u].pc \in {"idle", "exit"}
             \/ (thread'[u].kind = "delete" => thread'[u].job # 0)
  BY <1>1, <1>2, <1>3
<1>. QED  BY <1>4, JobsKnownKept

LEMMA RequestHoldsKept ==
    ASSUME IInv, RequestHolds, RequestsFrom,
           \A h \in GatewayId : gateway[h].status = "ready" => gateway'[h].status = "ready"
    PROVE  RequestHolds'
  BY DEF RequestHolds, RequestsFrom, IInv, HandlersInv

LEMMA ProvisionHoldsKept ==
    ASSUME ProvisionHolds,
           \A u \in Threads :
             \/ thread'[u].pc \in {"idle", "once", "exit"}
             \/ thread'[u] = thread[u] /\ (AtWork(u) => SameGateway(thread[u].gateway))
             \/ thread'[u].kind = "provision" => HoldsRow(u)'
    PROVE  ProvisionHolds'
<1>1. ASSUME NEW u \in Threads, thread'[u].kind = "provision"
      PROVE  HoldsRow(u)'
  <2>1. CASE thread'[u].pc \in {"idle", "once", "exit"}
    BY <2>1 DEF HoldsRow
  <2>2. CASE thread'[u] = thread[u] /\ (AtWork(u) => SameGateway(thread[u].gateway))
    BY <1>1, <2>2 DEF ProvisionHolds, HoldsRow, AtWork, SameGateway
  <2>. QED  BY <1>1, <2>1, <2>2
<1>. QED  BY <1>1 DEF ProvisionHolds

LEMMA DeleteHoldsKept ==
    ASSUME DeleteHolds,
           \A u \in Threads :
             \/ thread'[u].pc \in {"idle", "once", "exit"}
             \/ /\ thread'[u] = thread[u]
                /\ Deletes(u) =>
                     /\ gateway'[thread[u].gateway].status = gateway[thread[u].gateway].status
                     /\ SameJob(thread[u].job) /\ IsOpen(job'[thread[u].job].status)
             \/ Deletes(u)' => HoldsJob(u)'
    PROVE  DeleteHolds'
<1>1. ASSUME NEW u \in Threads, Deletes(u)'
      PROVE  HoldsJob(u)'
  <2>1. thread'[u].pc \notin {"idle", "once", "exit"}
    BY <1>1 DEF Deletes
  <2>2. CASE /\ thread'[u] = thread[u]
             /\ Deletes(u) =>
                  /\ gateway'[thread[u].gateway].status = gateway[thread[u].gateway].status
                  /\ SameJob(thread[u].job) /\ IsOpen(job'[thread[u].job].status)
    <3>1. Deletes(u)
      BY <1>1, <2>2 DEF Deletes
    <3>. QED  BY <2>2, <3>1
           DEF DeleteHolds, HoldsJob, OfGateway, SameJob, LiveJobs, IsOpen, Absent
  <2>. QED  BY <1>1, <2>1, <2>2
<1>. QED  BY <1>1 DEF DeleteHolds

LEMMA DeleteJobsKept ==
    ASSUME DeleteJobs, SameRows, LiveGateways' = LiveGateways,
           \A h \in LiveGateways : gateway'[h].status = "deleting" <=> gateway[h].status = "deleting",
           \A h \in LiveGateways, k \in JobId :
               OfGateway(k, h, "delete") => (IsOpen(job'[k].status) <=> IsOpen(job[k].status))
    PROVE  DeleteJobs'
<1>1. ASSUME NEW h \in LiveGateways, gateway'[h].status = "deleting"
      PROVE  \E k \in JobId : OfGateway(k, h, "delete")' /\ IsOpen(job'[k].status)
  <2>1. PICK k \in JobId : OfGateway(k, h, "delete") /\ IsOpen(job[k].status)
    BY <1>1 DEF DeleteJobs
  <2>2. OfGateway(k, h, "delete")'
    BY <2>1, SameRowsSameLatest
  <2>. QED  BY <2>1, <2>2
<1>2. ASSUME NEW h \in LiveGateways, NEW k \in JobId, OfGateway(k, h, "delete")', IsOpen(job'[k].status)
      PROVE  gateway'[h].status = "deleting" /\ IsLatest(k, h, "delete")'
  <2>1. OfGateway(k, h, "delete") /\ (IsLatest(k, h, "delete")' <=> IsLatest(k, h, "delete"))
    BY <1>2, SameRowsSameLatest
  <2>2. IsOpen(job[k].status)
    BY <1>2, <2>1
  <2>. QED  BY <2>1, <2>2 DEF DeleteJobs
<1>3. ASSUME NEW h \in GatewayId \ LiveGateways, NEW j \in JobId, NEW k \in JobId,
             OfGateway(j, h, "delete")', OfGateway(k, h, "delete")'
      PROVE  j = k
  <2>1. OfGateway(j, h, "delete") /\ OfGateway(k, h, "delete")
    BY <1>3, SameRowsSameLatest
  <2>. QED  BY <2>1 DEF DeleteJobs
<1>. QED  BY <1>1, <1>2, <1>3 DEF DeleteJobs

\* What the sweep believes: the step makes no gateway READY or DELETING that was
\* neither, opens no create job of one that is, and leaves threads at their commit.
LEMMA SweepHoldsKept ==
    ASSUME SweepHolds, SameRows, GatewaysFrom,
           \A h \in LiveGateways' : sweep'.seen[h] \in {sweep.seen[h], Absent, Expired},
           \A h \in LiveGateways' : gateway'[h].status \in {"ready", "deleting"} =>
             /\ gateway[h].status \in {"ready", "deleting"}
             /\ \A k \in JobId : OfGateway(k, h, "create") /\ ~IsOpen(job[k].status) => ~IsOpen(job'[k].status)
             /\ \A u \in Threads : Runs(u, "provision", h) /\ thread[u].pc = "complete" =>
                  \/ Runs(u, "provision", h)' /\ thread'[u].pc = "complete"
                  \/ \A k \in JobId : OfGateway(k, h, "create") => ~IsOpen(job'[k].status)
    PROVE  SweepHolds'
<1>1. ASSUME NEW h \in LiveGateways', sweep'.seen[h] = "error", gateway'[h].status \in {"ready", "deleting"}
      PROVE  \/ \A k \in JobId : OfGateway(k, h, "create")' => ~IsOpen(job'[k].status)
             \/ \E u \in Threads : Runs(u, "provision", h)' /\ thread'[u].pc = "complete"
  <2>1. h \in LiveGateways /\ sweep.seen[h] = "error"
    BY <1>1 DEF GatewaysFrom, LiveGateways, Absent, Expired
  <2>2. \A k \in JobId : OfGateway(k, h, "create")' => OfGateway(k, h, "create")
    BY SameRowsSameLatest
  <2>3. \/ \A k \in JobId : OfGateway(k, h, "create") => ~IsOpen(job[k].status)
        \/ \E u \in Threads : Runs(u, "provision", h) /\ thread[u].pc = "complete"
    BY <1>1, <2>1 DEF SweepHolds
  <2>. QED  BY <1>1, <2>2, <2>3
<1>2. ASSUME NEW h \in LiveGateways', sweep'.seen[h] = "deleting"
      PROVE  \E j \in JobId : IsLatest(j, h, "delete")'
  <2>1. h \in LiveGateways /\ sweep.seen[h] = "deleting"
    BY <1>2 DEF GatewaysFrom, LiveGateways, Absent, Expired
  <2>2. PICK j \in JobId : IsLatest(j, h, "delete")
    BY <2>1 DEF SweepHolds
  <2>. QED  BY <2>2, SameRowsSameLatest
<1>. QED  BY <1>1, <1>2 DEF SweepHolds

-----------------------------------------------------------------------------
(* Gateways that are deleted when READY: the steps of threads *)

\* Two threads of a kind have two gateways.
LEMMA TwoGateways ==
    ASSUME IInv, NEW t \in Threads, NEW u \in Threads, u # t, thread[t].kind = thread[u].kind,
           thread[t].pc # "idle", thread[u].pc # "idle"
    PROVE  thread[u].gateway # thread[t].gateway
<1>1. thread[t].gateway \in GatewayId /\ thread[t].kind \in ThreadKind
  BY DEF IInv, ThreadsInv, ThreadState
<1>. QED  BY <1>1 DEF IInv, ThreadsInv, OneThreadPerGateway, Runs

\* What a step of a provisioning thread writes: the status of a gateway that needs
\* provisioning, and its own job.
ProvisionWrites(t) ==
    LET g == thread[t].gateway
        j == thread[t].job
    IN /\ \/ GatewaysStay
          \/ /\ gateway[g].status \in NeedsProvisioning
             /\ \E status \in {"pending", "provisioning", "error"} : GatewayBecomes(g, status)
          \/ /\ gateway[g].status = "provisioning" /\ GatewayBecomes(g, "ready")
             /\ MovesTo(t, "complete")
       /\ \/ JobsStay
          \/ /\ job[j].status # Absent
             /\ \E status \in {"pending", "running", "completed", "failed"} : JobBecomes(j, status)
       /\ vm \subseteq vm'

LEMMA ProvisionMovesWrites ==
    ASSUME DInv, NEW t \in Threads, ProvisionMoves(t) \/ (PrepareMoves(t) /\ WorksOnOpenJob(t))
    PROVE  ProvisionWrites(t)
<1> DEFINE g == thread[t].gateway
           j == thread[t].job
           pc == thread[t].pc
<1>1. thread[t].kind = "provision" => HoldsRow(t)
  BY DEF DInv, ProvisionHolds
<1>2. vm \subseteq vm'
  BY DEF ProvisionMoves, PrepareMoves
<1>3. CASE PrepareMoves(t) /\ WorksOnOpenJob(t)
  <2>1. gateway[g].status \in NeedsProvisioning
    BY <1>3 DEF PrepareMoves
  <2>2. GatewaysStay \/ GatewayBecomes(g, "pending")
    BY <1>3 DEF PrepareMoves
  <2>3. job[j].status # Absent /\ JobBecomes(j, "pending")
    BY <1>3 DEF PrepareMoves, WorksOnOpenJob, LiveJobs
  <2>. QED  BY <1>2, <2>1, <2>2, <2>3 DEF ProvisionWrites
<1>4. CASE ProvisionMoves(t)
  <2>1. JobsStay \/ (job[j].status # Absent
                     /\ \E status \in {"pending", "running", "completed", "failed"} : JobBecomes(j, status))
    BY <1>4 DEF ProvisionMoves
  <2>2. \/ GatewaysStay
        \/ /\ gateway[g].status \in NeedsProvisioning
           /\ GatewayBecomes(g, "provisioning") \/ GatewayBecomes(g, "error")
        \/ /\ gateway[g].status = "provisioning" /\ GatewayBecomes(g, "ready") /\ MovesTo(t, "complete")
    BY <1>1, <1>4 DEF ProvisionMoves, HoldsRow, NeedsProvisioning
  <2>. QED  BY <1>2, <2>1, <2>2 DEF ProvisionWrites
<1>. QED  BY <1>3, <1>4

LEMMA ProvisionKeepsDInv ==
    ASSUME IInv, PInv, DInv, NEW t \in Threads,
           ProvisionMoves(t) \/ (PrepareMoves(t) /\ WorksOnOpenJob(t)), UNCHANGED <<request, sweep>>
    PROVE  DInv'
<1> DEFINE g == thread[t].gateway
           j == thread[t].job
<1>0. /\ thread[t].kind = "provision" /\ thread[t].pc \notin {"idle", "exit"}
      /\ g \in GatewayId /\ HoldsRow(t) /\ \E pc : MovesTo(t, pc)
  BY DEF ProvisionMoves, PrepareMoves, IInv, ThreadsInv, DInv, ProvisionHolds
<1>1. ProvisionWrites(t)
  BY ProvisionMovesWrites
<1>2. ASSUME NEW u \in Threads, u # t
      PROVE  thread'[u] = thread[u]
  BY <1>0, <1>2 DEF MovesTo
<1>3. /\ thread'[t].kind = "provision" /\ thread'[t].gateway = g
  BY <1>0 DEF MovesTo
<1>4. ASSUME NEW h \in GatewayId
      PROVE  /\ h # g => SameGateway(h)
             /\ gateway'[h].name = gateway[h].name
             /\ gateway'[h].status = Absent <=> gateway[h].status = Absent
             /\ gateway[h].status \in {"ready", "deleting"} => gateway'[h].status = gateway[h].status
             /\ gateway'[h].status = "deleting" => gateway[h].status = "deleting"
  BY <1>1 DEF ProvisionWrites, GatewaysStay, GatewayBecomes, SameGateway, NeedsProvisioning, Absent
<1>5. SameRows
  BY <1>1 DEF ProvisionWrites, JobsStay, JobBecomes, SameRows, Absent
<1>6. ASSUME NEW h \in LiveGateways, NEW k \in JobId, NEW type, OfGateway(k, h, type),
             h # g \/ type = "delete"
      PROVE  SameJob(k) /\ job'[k].status = job[k].status
  <2>1. CASE k = j
    <3>1. job[k].gateway = g /\ h = g
      BY <1>0, <1>6, <2>1 DEF PInv, OwnJobs, OfGateway
    <3>2. job[k].type = "create"
      BY <1>0, <1>6, <2>1, <3>1 DEF PInv, ThreadsWork, WorksOnOpenJob
    <3>. QED  BY <1>6, <3>1, <3>2 DEF OfGateway
  <2>2. CASE k # j
    BY <1>1, <2>2 DEF ProvisionWrites, JobsStay, JobBecomes
  <2>. QED  BY <2>1, <2>2
<1>7. ProvisionHolds'
  <2>1. HoldsRow(t)'
    BY <1>0, <1>3 DEF ProvisionMoves, PrepareMoves, HoldsRow, MovesTo, GatewaysStay, GatewayBecomes,
       NeedsProvisioning
  <2>2. ASSUME NEW u \in Threads, u # t, AtWork(u) PROVE SameGateway(thread[u].gateway)
    <3>1. thread[u].gateway # g
      BY <1>0, <2>2, TwoGateways DEF AtWork
    <3>2. thread[u].gateway \in GatewayId
      BY <2>2 DEF AtWork, IInv, ThreadsInv
    <3>. QED  BY <1>4, <3>1, <3>2
  <2>. QED  BY <1>2, <2>1, <2>2, ProvisionHoldsKept DEF DInv
<1>8. DeleteHolds'
  <2>1. ASSUME NEW u \in Threads, u # t, Deletes(u)
        PROVE  /\ gateway'[thread[u].gateway].status = gateway[thread[u].gateway].status
               /\ SameJob(thread[u].job) /\ IsOpen(job'[thread[u].job].status)
    <3>1. HoldsJob(u) /\ thread[u].gateway \in GatewayId
      BY <2>1 DEF DInv, DeleteHolds, Deletes, IInv, ThreadsInv
    <3>2. thread[u].gateway \in LiveGateways /\ thread[u].job \in JobId
      BY <3>1 DEF HoldsJob, LiveGateways, Absent, OfGateway, LiveJobs
    <3>. QED  BY <1>4, <1>6, <3>1, <3>2 DEF HoldsJob
  <2>2. ~Deletes(t)'
    BY <1>3 DEF Deletes
  <2>. QED  BY <1>2, <2>1, <2>2, DeleteHoldsKept DEF DInv
<1>9. RequestHolds'
  BY <1>4, RequestHoldsKept DEF DInv, RequestsFrom
<1>10. DeleteJobs'
  <2>1. LiveGateways' = LiveGateways
    BY <1>4 DEF LiveGateways
  <2>2. \A h \in LiveGateways : gateway'[h].status = "deleting" <=> gateway[h].status = "deleting"
    BY <1>4 DEF LiveGateways
  <2>3. \A h \in LiveGateways, k \in JobId :
            OfGateway(k, h, "delete") => (IsOpen(job'[k].status) <=> IsOpen(job[k].status))
    BY <1>6
  <2>. QED  BY <1>5, <2>1, <2>2, <2>3, DeleteJobsKept DEF DInv
<1>11. SweepHolds'
  <2>1. GatewaysFrom
    BY <1>4 DEF GatewaysFrom
  <2>2. ASSUME NEW h \in LiveGateways', h # g, gateway'[h].status \in {"ready", "deleting"}
        PROVE  /\ gateway[h].status \in {"ready", "deleting"}
               /\ \A k \in JobId : OfGateway(k, h, "create") /\ ~IsOpen(job[k].status) => ~IsOpen(job'[k].status)
               /\ \A u \in Threads : Runs(u, "provision", h) /\ thread[u].pc = "complete" =>
                    Runs(u, "provision", h)' /\ thread'[u].pc = "complete"
    <3>1. h \in GatewayId /\ h \in LiveGateways
      BY <2>1, <2>2 DEF LiveGateways, GatewaysFrom
    <3>. QED  BY <1>2, <1>4, <1>6, <2>2, <3>1 DEF Runs, SameGateway
  <2>3. CASE gateway[g].status \notin {"ready", "deleting"} /\ gateway'[g].status \in {"ready", "deleting"}
    <3>1. thread'[t].pc = "complete"
      BY <1>0, <1>1, <2>3 DEF ProvisionWrites, GatewaysStay, GatewayBecomes, MovesTo
    <3>11. \A h : h = g => Runs(t, "provision", h)'
      BY <1>3, <3>1 DEF Runs
    <3>2. ASSUME NEW h \in LiveGateways', sweep'.seen[h] = "error", gateway'[h].status \in {"ready", "deleting"},
                 h # g
          PROVE  \/ \A k \in JobId : OfGateway(k, h, "create")' => ~IsOpen(job'[k].status)
                 \/ \E u \in Threads : Runs(u, "provision", h)' /\ thread'[u].pc = "complete"
      <4>1. h \in LiveGateways /\ gateway[h].status \in {"ready", "deleting"}
        BY <2>1, <2>2, <3>2 DEF LiveGateways, GatewaysFrom
      <4>2. \/ \A k \in JobId : OfGateway(k, h, "create") => ~IsOpen(job[k].status)
            \/ \E u \in Threads : Runs(u, "provision", h) /\ thread[u].pc = "complete"
        BY <3>2, <4>1 DEF DInv, SweepHolds
      <4>3. \A k \in JobId : OfGateway(k, h, "create")' => OfGateway(k, h, "create")
        BY <1>5, SameRowsSameLatest
      <4>. QED  BY <2>2, <3>2, <4>2, <4>3
    <3>3. ASSUME NEW h \in LiveGateways', sweep'.seen[h] = "deleting"
          PROVE  \E k \in JobId : IsLatest(k, h, "delete")'
      <4>1. h \in LiveGateways /\ sweep.seen[h] = "deleting"
        BY <2>1, <3>3 DEF LiveGateways, GatewaysFrom
      <4>. QED  BY <1>5, <4>1, SameRowsSameLatest DEF DInv, SweepHolds
    <3> HIDE DEF g
    <3>. QED  BY <3>1, <3>11, <3>2, <3>3 DEF SweepHolds
  <2>4. CASE gateway'[g].status \in {"ready", "deleting"} => gateway[g].status \in {"ready", "deleting"}
    <3>1. ASSUME g \in LiveGateways', gateway'[g].status \in {"ready", "deleting"}
          PROVE  /\ \A k \in JobId : OfGateway(k, g, "create") /\ ~IsOpen(job[k].status) => ~IsOpen(job'[k].status)
                 /\ \A u \in Threads : Runs(u, "provision", g) /\ thread[u].pc = "complete" =>
                      \/ thread'[u] = thread[u]
                      \/ \A k \in JobId : OfGateway(k, g, "create") => ~IsOpen(job'[k].status)
      <4>1. gateway[g].status \in {"ready", "deleting"} /\ g \in LiveGateways
        BY <2>1, <2>4, <3>1 DEF GatewaysFrom, LiveGateways
      <4>2. WorksOnOpenJob(t)
        BY <1>0, <4>1 DEF PInv, ThreadsWork
      <4>3. \A k \in JobId : OfGateway(k, g, "create") => k = j
        BY <4>1, <4>2 DEF PInv, OneCreateJob, WorksOnOpenJob, OfGateway
      <4>4. ProvisionMoves(t) /\ thread[t].pc \in {"once", "complete"}
        BY <1>0, <4>1 DEF ProvisionMoves, PrepareMoves, HoldsRow, NeedsProvisioning
      <4>5. CASE thread[t].pc = "complete"
        <5>1. JobBecomes(j, "completed")
          BY <1>0, <4>2, <4>4, <4>5 DEF ProvisionMoves, WorksOnOpenJob, LiveJobs
        <5>. QED  BY <4>3, <5>1 DEF JobBecomes, IsOpen
      <4>6. CASE thread[t].pc = "once"
        <5>1. JobsStay
          BY <4>1, <4>4, <4>6 DEF ProvisionMoves, NeedsProvisioning
        <5>2. \A u \in Threads : thread[u].pc = "complete" => thread'[u] = thread[u]
          BY <1>2, <4>6
        <5>. QED  BY <5>1, <5>2 DEF JobsStay
      <4>. QED  BY <4>4, <4>5, <4>6
    <3>2. \A h \in LiveGateways' : gateway'[h].status \in {"ready", "deleting"} =>
             /\ gateway[h].status \in {"ready", "deleting"}
             /\ \A k \in JobId : OfGateway(k, h, "create") /\ ~IsOpen(job[k].status) => ~IsOpen(job'[k].status)
             /\ \A u \in Threads : Runs(u, "provision", h) /\ thread[u].pc = "complete" =>
                  \/ Runs(u, "provision", h)' /\ thread'[u].pc = "complete"
                  \/ \A k \in JobId : OfGateway(k, h, "create") => ~IsOpen(job'[k].status)
      <4> HIDE DEF g
      <4>. QED  BY <2>2, <2>4, <3>1 DEF Runs
    <3>. QED  BY <1>5, <2>1, <3>2, SweepHoldsKept DEF DInv
  <2>. QED  BY <2>3, <2>4
<1>12. UniqueNames'
  BY <1>4, NamesKept DEF DInv, NamesFrom
<1>13. JobsKnown'
  BY <1>0, MoveKeepsJobsKnown DEF DInv, RequestsFrom
<1>. QED  BY <1>7, <1>8, <1>9, <1>10, <1>11, <1>12, <1>13 DEF DInv

LEMMA DeleteKeepsDInv ==
    ASSUME IInv, PInv, DInv, NEW t \in Threads, DeleteMoves(t), UNCHANGED <<request, sweep>>
    PROVE  DInv'
<1> DEFINE g == thread[t].gateway
           j == thread[t].job
           pc == thread[t].pc
<1>0. /\ thread[t].kind = "delete" /\ pc \notin {"idle", "exit"} /\ g \in GatewayId
      /\ \E to : MovesTo(t, to)
  BY DEF DeleteMoves, IInv, ThreadsInv
<1>00. pc \in {"process", "execute", "remove", "fail"} => HoldsJob(t)
  BY <1>0 DEF DInv, DeleteHolds, Deletes
<1>1. \/ GatewaysStay
      \/ /\ pc = "fail" /\ HoldsJob(t) /\ MovesTo(t, "exit") /\ GatewayBecomes(g, "error")
         /\ JobBecomes(j, "failed")
  BY <1>00 DEF DeleteMoves, HoldsJob, OfGateway, LiveJobs, Absent
<1>2. \/ JobsStay
      \/ /\ job[j].status # Absent
         /\ \E status \in {"pending", "running", "completed", "failed"} : JobBecomes(j, status)
  BY DEF DeleteMoves, IsOpen, Absent
<1>3. vm' = vm \/ (vm' = vm \ {gateway[g].name} /\ HoldsJob(t))
  BY <1>00 DEF DeleteMoves
<1>4. \A u \in Threads : u # t => thread'[u] = thread[u]
  BY <1>0 DEF MovesTo
<1>5. /\ thread'[t].kind = "delete" /\ thread'[t].gateway = g
  BY <1>0 DEF MovesTo
<1>6. ASSUME NEW h \in GatewayId
      PROVE  /\ h # g => gateway'[h].status = gateway[h].status
             /\ gateway'[h].name = gateway[h].name
             /\ gateway'[h].status = Absent <=> gateway[h].status = Absent
             /\ gateway[h].status # "deleting" => gateway'[h].status = gateway[h].status
             /\ gateway'[h].status \in {"ready", "deleting"} => gateway'[h].status = gateway[h].status
  BY <1>1 DEF HoldsJob, GatewaysStay, GatewayBecomes, Absent
<1>7. SameRows
  BY <1>2 DEF JobsStay, JobBecomes, SameRows, Absent
<1>8. ASSUME NEW h \in LiveGateways, NEW k \in JobId, NEW type, OfGateway(k, h, type),
             h # g \/ type = "create"
      PROVE  SameJob(k) /\ job'[k].status = job[k].status
  <2>1. k # j
    BY <1>0, <1>8 DEF PInv, OwnJobs, OfGateway
  <2>. QED  BY <1>2, <2>1 DEF JobsStay, JobBecomes
<1>9. ProvisionHolds'
  <2>1. ASSUME NEW u \in Threads, AtWork(u)
        PROVE  SameGateway(thread[u].gateway)
    <3> DEFINE h == thread[u].gateway
    <3>1. h \in GatewayId /\ HoldsRow(u) /\ gateway[h].status \in NeedsProvisioning
      BY <2>1 DEF AtWork, IInv, ThreadsInv, DInv, ProvisionHolds, HoldsRow, NeedsProvisioning
    <3>2. gateway'[h].status = gateway[h].status /\ gateway'[h].name = gateway[h].name
      BY <1>6, <3>1 DEF NeedsProvisioning
    <3>3. HoldsJob(t) => gateway[h].name # gateway[g].name
      <4>1. ASSUME HoldsJob(t) PROVE gateway[h].name # gateway[g].name
        <5>1. h \in LiveGateways /\ g \in LiveGateways /\ h # g
          BY <1>0, <3>1, <4>1 DEF HoldsJob, LiveGateways, NeedsProvisioning, Absent
        <5>. QED  BY <5>1 DEF DInv, UniqueNames
      <4>. QED  BY <4>1
    <3>. QED  BY <1>3, <3>2, <3>3 DEF SameGateway
  <2>2. thread'[t].kind # "provision"
    BY <1>5
  <2>. QED  BY <1>4, <2>1, <2>2, ProvisionHoldsKept DEF DInv
<1>10. DeleteHolds'
  <2>1. ASSUME NEW u \in Threads, u # t, Deletes(u)
        PROVE  /\ gateway'[thread[u].gateway].status = gateway[thread[u].gateway].status
               /\ SameJob(thread[u].job) /\ IsOpen(job'[thread[u].job].status)
    <3>1. HoldsJob(u) /\ thread[u].gateway \in GatewayId
      BY <2>1 DEF DInv, DeleteHolds, Deletes, IInv, ThreadsInv
    <3>2. thread[u].gateway # g
      BY <1>0, <2>1, TwoGateways DEF Deletes
    <3>3. thread[u].gateway \in LiveGateways /\ thread[u].job \in JobId
      BY <3>1 DEF HoldsJob, LiveGateways, Absent, OfGateway, LiveJobs
    <3>. QED  BY <1>6, <1>8, <3>1, <3>2, <3>3 DEF HoldsJob
  <2>2. ASSUME Deletes(t)'
        PROVE  HoldsJob(t)'
    <3>1. /\ GatewaysStay /\ thread'[t].job = j /\ gateway[g].status = "deleting"
          /\ IsOpen(job[j].status) /\ job[j].status # Absent
          /\ JobsStay \/ JobBecomes(j, "pending") \/ JobBecomes(j, "running")
      BY <1>00, <2>2 DEF DeleteMoves, Deletes, MovesTo, HoldsJob, IsOpen, Absent
    <3>2. OfGateway(j, g, "delete")
      <4>1. j \in LiveJobs
        <5>1. j # 0
          BY <1>0 DEF DInv, JobsKnown
        <5>2. j \in JobId \cup {0}
          BY DEF IInv, ThreadsInv, ThreadState
        <5>. QED  BY <3>1, <5>1, <5>2 DEF LiveJobs
      <4>. QED  BY <1>0, <4>1 DEF PInv, OwnJobs, OfGateway
    <3>. QED  BY <1>0, <1>5, <3>1, <3>2
           DEF HoldsJob, OfGateway, LiveJobs, JobsStay, JobBecomes, GatewaysStay, SameJob, IsOpen, Absent
  <2>. QED  BY <1>4, <2>1, <2>2, DeleteHoldsKept DEF DInv
<1>11. RequestHolds'
  BY <1>6, RequestHoldsKept DEF DInv, RequestsFrom
<1>12. LiveGateways' = LiveGateways
  BY <1>6 DEF LiveGateways
<1>13. DeleteJobs'
  <2>1. CASE GatewaysStay /\ pc \in {"once", "execute"} /\ g \notin LiveGateways
    <3>1. \A h \in LiveGateways, k \in JobId :
            OfGateway(k, h, "delete") => (IsOpen(job'[k].status) <=> IsOpen(job[k].status))
      BY <1>8, <2>1
    <3>. QED  BY <1>7, <1>12, <2>1, <3>1, DeleteJobsKept DEF DInv, GatewaysStay, LiveGateways
  <2>2. CASE GatewaysStay /\ ~(pc \in {"once", "execute"} /\ g \notin LiveGateways)
    <3>1. JobsStay \/ ((JobBecomes(j, "pending") \/ JobBecomes(j, "running")) /\ IsOpen(job[j].status))
      BY <1>0, <1>00, <2>2 DEF DeleteMoves, HoldsJob, OfGateway, LiveJobs, LiveGateways, Absent,
         GatewaysStay, GatewayBecomes
    <3>2. \A k \in JobId : IsOpen(job'[k].status) <=> IsOpen(job[k].status)
      BY <3>1 DEF JobsStay, JobBecomes, IsOpen
    <3>. QED  BY <1>7, <1>12, <2>2, <3>2, DeleteJobsKept DEF DInv, GatewaysStay, LiveGateways
  <2>3. CASE HoldsJob(t) /\ GatewayBecomes(g, "error") /\ JobBecomes(j, "failed")
    <3>1. ASSUME NEW h \in LiveGateways, gateway'[h].status = "deleting"
          PROVE  \E k \in JobId : OfGateway(k, h, "delete")' /\ IsOpen(job'[k].status)
      <4>1. h # g /\ gateway[h].status = "deleting"
        BY <2>3, <3>1 DEF GatewayBecomes, LiveGateways
      <4>2. PICK k \in JobId : OfGateway(k, h, "delete") /\ IsOpen(job[k].status)
        BY <4>1 DEF DInv, DeleteJobs
      <4>3. OfGateway(k, h, "delete")' /\ IsOpen(job'[k].status)
        BY <1>7, <1>8, <4>1, <4>2, SameRowsSameLatest
      <4>. QED  BY <4>3
    <3>2. ASSUME NEW h \in LiveGateways, NEW k \in JobId, OfGateway(k, h, "delete")', IsOpen(job'[k].status)
          PROVE  gateway'[h].status = "deleting" /\ IsLatest(k, h, "delete")'
      <4>1. k # j /\ job'[k].status = job[k].status
        BY <2>3, <3>2 DEF JobBecomes, IsOpen
      <4>2. OfGateway(k, h, "delete") /\ (IsLatest(k, h, "delete")' <=> IsLatest(k, h, "delete"))
        BY <1>7, <3>2, SameRowsSameLatest
      <4>3. gateway[h].status = "deleting" /\ IsLatest(k, h, "delete")
        BY <3>2, <4>1, <4>2 DEF DInv, DeleteJobs
      <4>4. h # g
        <5>1. ASSUME h = g PROVE FALSE
          <6>1. OfGateway(j, g, "delete") /\ IsOpen(job[j].status) /\ j \in JobId /\ g \in LiveGateways
            BY <2>3, <5>1 DEF HoldsJob, OfGateway, LiveJobs
          <6>2. IsLatest(j, g, "delete")
            BY <6>1 DEF DInv, DeleteJobs
          <6>3. j <= k /\ k <= j
            BY <4>3, <5>1, <6>2 DEF IsLatest
          <6>. QED  BY <4>1, <6>1, <6>3, BoundsAssumption DEF JobId
        <5>. QED  BY <5>1
      <4>. QED  BY <2>3, <4>2, <4>3, <4>4 DEF GatewayBecomes, LiveGateways
    <3>3. ASSUME NEW h \in GatewayId \ LiveGateways, NEW i \in JobId, NEW k \in JobId,
                 OfGateway(i, h, "delete")', OfGateway(k, h, "delete")'
          PROVE  i = k
      <4>1. OfGateway(i, h, "delete") /\ OfGateway(k, h, "delete")
        BY <1>7, <3>3, SameRowsSameLatest
      <4>. QED  BY <4>1 DEF DInv, DeleteJobs
    <3>. QED  BY <1>12, <3>1, <3>2, <3>3 DEF DeleteJobs
  <2>. QED  BY <1>1, <2>1, <2>2, <2>3
<1>14. SweepHolds'
  <2>1. \A h \in LiveGateways' : gateway'[h].status \in {"ready", "deleting"} =>
             /\ gateway[h].status \in {"ready", "deleting"}
             /\ \A k \in JobId : OfGateway(k, h, "create") /\ ~IsOpen(job[k].status) => ~IsOpen(job'[k].status)
             /\ \A u \in Threads : Runs(u, "provision", h) /\ thread[u].pc = "complete" =>
                  Runs(u, "provision", h)' /\ thread'[u].pc = "complete"
    BY <1>0, <1>4, <1>6, <1>8, <1>12 DEF Runs, LiveGateways
  <2>. QED  BY <1>6, <1>7, <2>1, SweepHoldsKept DEF DInv, GatewaysFrom
<1>15. UniqueNames'
  BY <1>6, NamesKept DEF DInv, NamesFrom
<1>16. JobsKnown'
  BY <1>0, MoveKeepsJobsKnown DEF DInv, RequestsFrom
<1>. QED  BY <1>9, <1>10, <1>11, <1>13, <1>14, <1>15, <1>16 DEF DInv

\* Steps that write no row, but for updated_at.
SeesNoMore == \A h \in GatewayId : sweep'.seen[h] \in {sweep.seen[h], Absent, Expired}
\* A thread goes on, ends, begins, or fails a deletion.
ThreadsRest == \A u \in Threads :
    \/ thread'[u] = thread[u]
    \/ thread'[u].pc \in {"idle", "once", "exit"}
    \/ /\ thread[u].kind = "delete" /\ thread[u].pc = "remove"
       /\ thread'[u].gateway = thread[u].gateway /\ thread'[u].job = thread[u].job
       /\ thread'[u].kind = "delete"

LEMMA RestKeepsSweepHolds ==
    ASSUME DInv, GatewaysStay, JobsStay, SeesNoMore,
           \A u \in Threads : thread[u].pc = "complete" => thread'[u] = thread[u]
    PROVE  SweepHolds'
<1>1. SameRows /\ GatewaysFrom
  BY DEF GatewaysStay, JobsStay, SameRows, GatewaysFrom
<1>2. LiveGateways' \subseteq GatewayId
  BY DEF LiveGateways
<1>3. \A h \in LiveGateways' : gateway'[h].status \in {"ready", "deleting"} =>
             /\ gateway[h].status \in {"ready", "deleting"}
             /\ \A k \in JobId : OfGateway(k, h, "create") /\ ~IsOpen(job[k].status) => ~IsOpen(job'[k].status)
             /\ \A u \in Threads : Runs(u, "provision", h) /\ thread[u].pc = "complete" =>
                  Runs(u, "provision", h)' /\ thread'[u].pc = "complete"
  BY <1>2 DEF GatewaysStay, JobsStay, Runs
<1>. QED  BY <1>1, <1>2, <1>3, SweepHoldsKept DEF DInv, SeesNoMore

LEMMA RestKeepsDInv ==
    ASSUME IInv, DInv, GatewaysStay, JobsStay, vm' = vm, ThreadsRest, JobsKnown', RequestHolds', SweepHolds'
    PROVE  DInv'
<1>1. \A h \in GatewayId : SameGateway(h)
  BY DEF GatewaysStay, SameGateway
<1>2. ProvisionHolds'
  <2>1. ASSUME NEW u \in Threads
        PROVE  \/ thread'[u].pc \in {"idle", "once", "exit"}
               \/ thread'[u] = thread[u] /\ (AtWork(u) => SameGateway(thread[u].gateway))
               \/ thread'[u].kind # "provision"
    BY <1>1 DEF ThreadsRest, AtWork, IInv, ThreadsInv
  <2>. QED  BY <2>1, ProvisionHoldsKept DEF DInv
<1>3. DeleteHolds'
  <2>1. ASSUME NEW u \in Threads, Deletes(u)
        PROVE  /\ HoldsJob(u) /\ gateway'[thread[u].gateway] = gateway[thread[u].gateway]
               /\ SameJob(thread[u].job) /\ job'[thread[u].job].status = job[thread[u].job].status
               /\ thread[u].job \in JobId
    <3>1. HoldsJob(u) /\ thread[u].gateway \in GatewayId
      BY <2>1 DEF DInv, DeleteHolds, Deletes, IInv, ThreadsInv
    <3>. QED  BY <3>1 DEF GatewaysStay, JobsStay, HoldsJob, OfGateway, LiveJobs
  <2>2. ASSUME NEW u \in Threads
        PROVE  \/ thread'[u].pc \in {"idle", "once", "exit"}
               \/ /\ thread'[u] = thread[u]
                  /\ Deletes(u) =>
                       /\ gateway'[thread[u].gateway].status = gateway[thread[u].gateway].status
                       /\ SameJob(thread[u].job) /\ IsOpen(job'[thread[u].job].status)
               \/ (Deletes(u)' => HoldsJob(u)')
    <3>1. CASE thread'[u] = thread[u]
      BY <2>1, <3>1 DEF HoldsJob
    <3>2. CASE /\ thread[u].kind = "delete" /\ thread[u].pc = "remove"
               /\ thread'[u].gateway = thread[u].gateway /\ thread'[u].job = thread[u].job
      <4>1. Deletes(u)
        BY <3>2 DEF Deletes
      <4>. QED  BY <2>1, <3>2, <4>1 DEF HoldsJob, OfGateway, SameJob, LiveJobs
    <3>. QED  BY <3>1, <3>2 DEF ThreadsRest
  <2>. QED  BY <2>2, DeleteHoldsKept DEF DInv
<1>4. DeleteJobs'
  <2>1. SameRows /\ LiveGateways' = LiveGateways
    BY DEF GatewaysStay, JobsStay, SameRows, LiveGateways
  <2>. QED  BY <2>1, DeleteJobsKept DEF DInv, GatewaysStay, JobsStay, LiveGateways
<1>5. UniqueNames'
  BY NamesKept DEF DInv, NamesFrom, GatewaysStay
<1>. QED  BY <1>2, <1>3, <1>4, <1>5 DEF DInv

LEMMA LockKeepsDInv ==
    ASSUME IInv, DInv, NEW t \in Threads, LockMoves(t), thread[t].pc # "complete", UNCHANGED <<request, sweep>>
    PROVE  DInv'
<1>1. PICK pc \in LockedPc(thread[t].kind, thread[t].pc) : MovesTo(t, pc)
  BY DEF LockMoves
<1>2. ThreadsRest
  <2>1. pc \in {"once", "exit"} \/ (pc = "fail" /\ thread[t].pc = "remove" /\ thread[t].kind # "provision")
    BY <1>1 DEF LockedPc
  <2>2. thread[t].kind \in {"provision", "delete"}
    BY DEF IInv, ThreadsInv, ThreadState, ThreadKind
  <2>. QED  BY <1>1, <2>1, <2>2 DEF ThreadsRest, MovesTo
<1>3. JobsKnown' /\ RequestHolds'
  <2>1. RequestsFrom /\ thread[t].pc \notin {"idle", "exit"} /\ GatewaysStay
    BY DEF LockMoves, RequestsFrom
  <2>. QED  BY <1>1, <2>1, MoveKeepsJobsKnown, RequestHoldsKept DEF DInv, GatewaysStay
<1>4. SweepHolds'
  BY <1>1, RestKeepsSweepHolds DEF LockMoves, MovesTo, SeesNoMore
<1>. QED  BY <1>2, <1>3, <1>4, RestKeepsDInv DEF LockMoves

\* The end of a deletion takes the rows of a DELETING gateway, and only those.
LEMMA RemoveKeepsDInv ==
    ASSUME IInv, DInv, NEW t \in Threads, DeleteRemove(t)
    PROVE  DInv'
<1> DEFINE g == thread[t].gateway
<1>0. /\ thread[t].kind = "delete" /\ thread[t].pc = "remove" /\ UNCHANGED <<request, sweep, vm>>
      /\ MovesTo(t, "exit") /\ g \in GatewayId
  BY GotoMoves DEF DeleteRemove, At, IInv, ThreadsInv
<1>1. HoldsJob(t)
  BY <1>0 DEF DInv, DeleteHolds, Deletes
<1>2. gateway[g].status = "deleting" /\ gateway'[g].status = Absent
      /\ \A h \in GatewayId : h # g => gateway'[h] = gateway[h]
  BY <1>0, <1>1 DEF DeleteRemove, IInv, RowsInv, HoldsJob, NoGateway
<1>3. \A k \in JobId : /\ job[k].gateway = g => job'[k].status = Absent
                       /\ job[k].gateway # g => job'[k] = job[k]
  BY DEF DeleteRemove, NoJob
<1>4. \A u \in Threads : u # t => thread'[u] = thread[u]
  BY <1>0 DEF MovesTo
<1>5. thread'[t].pc = "exit"
  BY <1>0 DEF MovesTo
<1>6. LiveGateways' = LiveGateways \ {g}
  BY <1>0, <1>2 DEF LiveGateways
<1>7. ASSUME NEW h, h # g, NEW k, NEW type
      PROVE  /\ OfGateway(k, h, type)' <=> OfGateway(k, h, type)
             /\ OfGateway(k, h, type) => job'[k] = job[k]
             /\ IsLatest(k, h, type)' <=> IsLatest(k, h, type)
  <2>1. LiveJobs' = {i \in LiveJobs : job[i].gateway # g}
    BY <1>3 DEF LiveJobs
  <2>2. \A i \in JobId : i \in JobsOf(h, type)' <=> i \in JobsOf(h, type)
    BY <1>3, <1>7, <2>1 DEF JobsOf, LiveJobs
  <2>3. JobsOf(h, type)' = JobsOf(h, type)
    BY <2>2 DEF JobsOf, LiveJobs
  <2>4. OfGateway(k, h, type) => job'[k] = job[k]
    BY <1>3, <1>7 DEF OfGateway, LiveJobs
  <2>5. OfGateway(k, h, type)' <=> OfGateway(k, h, type)
    BY <1>3, <1>7, <2>1 DEF OfGateway, LiveJobs
  <2>. QED  BY <2>3, <2>4, <2>5 DEF IsLatest
<1>8. ProvisionHolds'
  <2>1. ASSUME NEW u \in Threads, AtWork(u)
        PROVE  SameGateway(thread[u].gateway)
    <3>1. thread[u].gateway \in GatewayId /\ gateway[thread[u].gateway].status # "deleting"
      BY <2>1 DEF AtWork, IInv, ThreadsInv, DInv, ProvisionHolds, HoldsRow, NeedsProvisioning
    <3>. QED  BY <1>0, <1>2, <3>1 DEF SameGateway
  <2>. QED  BY <1>4, <1>5, <2>1, ProvisionHoldsKept DEF DInv
<1>9. DeleteHolds'
  <2>1. ASSUME NEW u \in Threads, u # t, Deletes(u)
        PROVE  /\ gateway'[thread[u].gateway].status = gateway[thread[u].gateway].status
               /\ SameJob(thread[u].job) /\ IsOpen(job'[thread[u].job].status)
    <3>1. HoldsJob(u) /\ thread[u].gateway \in GatewayId
      BY <2>1 DEF DInv, DeleteHolds, Deletes, IInv, ThreadsInv
    <3>2. thread[u].gateway # g
      BY <1>0, <2>1, TwoGateways DEF Deletes
    <3>. QED  BY <1>2, <1>7, <3>1, <3>2 DEF HoldsJob, SameJob
  <2>. QED  BY <1>4, <1>5, <2>1, DeleteHoldsKept DEF DInv
<1>10. RequestHolds' /\ JobsKnown'
  <2>1. RequestsFrom
    BY <1>0 DEF RequestsFrom
  <2>. QED  BY <1>0, <1>2, <2>1, RequestHoldsKept, MoveKeepsJobsKnown DEF DInv
<1>11. DeleteJobs'
  <2>1. ASSUME NEW h \in LiveGateways', gateway'[h].status = "deleting"
        PROVE  \E k \in JobId : OfGateway(k, h, "delete")' /\ IsOpen(job'[k].status)
    <3>1. h # g /\ h \in LiveGateways /\ gateway[h].status = "deleting"
      BY <1>2, <1>6, <2>1 DEF LiveGateways
    <3>2. PICK k \in JobId : OfGateway(k, h, "delete") /\ IsOpen(job[k].status)
      BY <3>1 DEF DInv, DeleteJobs
    <3>3. OfGateway(k, h, "delete")' /\ IsOpen(job'[k].status)
      BY <1>7, <3>1, <3>2
    <3>. QED  BY <3>3
  <2>2. ASSUME NEW h \in LiveGateways', NEW k \in JobId, OfGateway(k, h, "delete")', IsOpen(job'[k].status)
        PROVE  gateway'[h].status = "deleting" /\ IsLatest(k, h, "delete")'
    <3>1. h # g /\ h \in LiveGateways /\ gateway'[h] = gateway[h]
      BY <1>2, <1>6, <2>2 DEF LiveGateways
    <3>2. OfGateway(k, h, "delete") /\ IsOpen(job[k].status)
      BY <1>7, <2>2, <3>1
    <3>3. gateway[h].status = "deleting" /\ IsLatest(k, h, "delete")
      BY <3>1, <3>2 DEF DInv, DeleteJobs
    <3>. QED  BY <1>7, <3>1, <3>3
  <2>3. ASSUME NEW h \in GatewayId \ LiveGateways', NEW i \in JobId, NEW k \in JobId,
               OfGateway(i, h, "delete")', OfGateway(k, h, "delete")'
        PROVE  i = k
    <3>1. h # g
      BY <1>3, <2>3 DEF OfGateway, LiveJobs
    <3>2. h \in GatewayId \ LiveGateways /\ OfGateway(i, h, "delete") /\ OfGateway(k, h, "delete")
      BY <1>6, <1>7, <2>3, <3>1
    <3>. QED  BY <3>2 DEF DInv, DeleteJobs
  <2>. QED  BY <2>1, <2>2, <2>3 DEF DeleteJobs
<1>12. SweepHolds'
  <2>1. ASSUME NEW h \in LiveGateways', sweep'.seen[h] = "error", gateway'[h].status \in {"ready", "deleting"}
        PROVE  \/ \A k \in JobId : OfGateway(k, h, "create")' => ~IsOpen(job'[k].status)
               \/ \E u \in Threads : Runs(u, "provision", h)' /\ thread'[u].pc = "complete"
    <3>1. h # g /\ h \in LiveGateways /\ gateway'[h] = gateway[h] /\ sweep.seen[h] = "error"
      BY <1>0, <1>2, <1>6, <2>1 DEF LiveGateways
    <3>2. \/ \A k \in JobId : OfGateway(k, h, "create") => ~IsOpen(job[k].status)
          \/ \E u \in Threads : Runs(u, "provision", h) /\ thread[u].pc = "complete"
      BY <2>1, <3>1 DEF DInv, SweepHolds
    <3>3. CASE \A k \in JobId : OfGateway(k, h, "create") => ~IsOpen(job[k].status)
      BY <1>7, <3>1, <3>3
    <3>4. CASE \E u \in Threads : Runs(u, "provision", h) /\ thread[u].pc = "complete"
      BY <1>0, <1>4, <3>4 DEF Runs
    <3>. QED  BY <3>2, <3>3, <3>4
  <2>2. ASSUME NEW h \in LiveGateways', sweep'.seen[h] = "deleting"
        PROVE  \E k \in JobId : IsLatest(k, h, "delete")'
    <3>1. h # g /\ h \in LiveGateways /\ sweep.seen[h] = "deleting"
      BY <1>0, <1>6, <2>2
    <3>. QED  BY <1>7, <3>1 DEF DInv, SweepHolds
  <2>. QED  BY <2>1, <2>2 DEF SweepHolds
<1>13. UniqueNames'
  BY <1>2, <1>6 DEF DInv, UniqueNames, LiveGateways
<1>. QED  BY <1>8, <1>9, <1>10, <1>11, <1>12, <1>13 DEF DInv

-----------------------------------------------------------------------------
(* Gateways that are deleted when READY: requests *)

\* A started thread disturbs no other.
LEMMA StartRests ==
    ASSUME IInv, NEW kind, NEW g, NEW j, StartsOnly(kind, g, j)
    PROVE  /\ ThreadsRest
           /\ \A u \in Threads : thread'[u] = thread[u] \/ thread'[u].pc \in {"idle", "once", "exit"}
           /\ \A u \in Threads : thread[u].pc # "idle" => thread'[u] = thread[u]
           /\ \A u \in Threads : thread'[u] = thread[u] \/ (thread'[u].kind = kind /\ thread'[u].job = j)
<1>1. ASSUME NEW u \in Threads, thread'[u] # thread[u]
      PROVE  thread[u].pc = "idle" /\ thread'[u].pc = "once" /\ thread'[u].kind = kind /\ thread'[u].job = j
  BY <1>1 DEF StartsOnly
<1>. QED  BY <1>1 DEF ThreadsRest

LEMMA CreateKeepsDInv ==
    ASSUME IInv, PInv, DInv, InsertsNewIds, NEW name \in Names, CreateGateway(name)
    PROVE  DInv'
<1> DEFINE g == NextId(LiveGateways, GatewayId)
           j == NextId(LiveJobs, JobId)
<1>1. /\ g \in GatewayId /\ gateway[g].status = Absent /\ GatewayIsNew(g)
      /\ gateway'[g] = [status |-> "pending", name |-> name]
      /\ \A h \in GatewayId : h # g => gateway'[h] = gateway[h]
      /\ LiveGateways' = LiveGateways \cup {g}
      /\ j \in JobId /\ j \notin LiveJobs /\ LiveJobs' = LiveJobs \cup {j}
      /\ \A k \in LiveJobs : job'[k] = job[k]
      /\ job'[j] = NewJob("create", g)
      /\ Keeps /\ StartsOnly("provision", g, j)
      /\ UNCHANGED <<vm, request, sweep>>
  <2>1. g = NextId(LiveGateways, GatewayId) /\ j = NextId(LiveJobs, JobId)
    OBVIOUS
  <2>. HIDE DEF g, j
  <2>. QED  BY <2>1, CreateEffect
<1>2. \A i \in LiveGateways : gateway[i].name # name
  BY DEF CreateGateway
<1> HIDE DEF g, j
<1>3. job'[j].gateway = g /\ job'[j].type = "create"
  BY <1>1 DEF NewJob
<1>4. \A k \in LiveJobs : job[k].gateway # g
  BY <1>1 DEF GatewayIsNew
<1>5. ASSUME NEW h, NEW k, NEW type, h # g \/ type = "delete"
      PROVE  /\ OfGateway(k, h, type)' <=> OfGateway(k, h, type)
             /\ OfGateway(k, h, type) => job'[k] = job[k] /\ h # g
             /\ IsLatest(k, h, type)' <=> IsLatest(k, h, type)
  <2>1. OfGateway(k, h, type) => job'[k] = job[k] /\ h # g
    BY <1>1, <1>4 DEF OfGateway
  <2>2. OfGateway(k, h, type)' <=> OfGateway(k, h, type)
    BY <1>1, <1>3, <1>5 DEF OfGateway
  <2>3. JobsOf(h, type)' = JobsOf(h, type)
    BY <1>1, <1>3, <1>5 DEF JobsOf
  <2>. QED  BY <2>1, <2>2, <2>3 DEF IsLatest
<1>6. /\ \A u \in Threads : thread'[u] = thread[u] \/ thread'[u].pc \in {"idle", "once", "exit"}
      /\ \A u \in Threads : thread[u].pc # "idle" => thread'[u] = thread[u]
      /\ \A u \in Threads : thread'[u] = thread[u] \/ thread'[u].kind = "provision"
  BY <1>1, StartRests
<1>7. \A u \in Threads : thread[u].gateway # g
  BY <1>1 DEF GatewayIsNew
<1>8. ProvisionHolds'
  <2>1. ASSUME NEW u \in Threads, AtWork(u)
        PROVE  SameGateway(thread[u].gateway)
    BY <1>1, <1>7, <2>1 DEF AtWork, SameGateway, IInv, ThreadsInv
  <2>. QED  BY <1>6, <2>1, ProvisionHoldsKept DEF DInv
<1>9. DeleteHolds'
  <2>1. ASSUME NEW u \in Threads, Deletes(u)
        PROVE  /\ gateway'[thread[u].gateway].status = gateway[thread[u].gateway].status
               /\ SameJob(thread[u].job) /\ IsOpen(job'[thread[u].job].status)
    <3>1. HoldsJob(u) /\ thread[u].gateway \in GatewayId
      BY <2>1 DEF DInv, DeleteHolds, Deletes, IInv, ThreadsInv
    <3>. QED  BY <1>1, <1>5, <1>7, <3>1 DEF HoldsJob, SameJob
  <2>. QED  BY <1>6, <2>1, DeleteHoldsKept DEF DInv
<1>10. RequestHolds' /\ JobsKnown'
  <2>1. RequestsFrom
    BY <1>1 DEF RequestsFrom
  <2>2. \A u \in Threads : thread'[u] = thread[u] \/ thread'[u].pc \in {"idle", "exit"}
                         \/ (thread'[u].kind = "delete" => thread'[u].job # 0)
    BY <1>6
  <2>3. \A h \in GatewayId : gateway[h].status = "ready" => gateway'[h].status = "ready"
    BY <1>1 DEF Absent
  <2>. QED  BY <2>1, <2>2, <2>3, RequestHoldsKept, JobsKnownKept DEF DInv
<1>11. DeleteJobs'
  <2>1. ASSUME NEW h \in LiveGateways', gateway'[h].status = "deleting"
        PROVE  \E k \in JobId : OfGateway(k, h, "delete")' /\ IsOpen(job'[k].status)
    <3>1. h # g /\ h \in LiveGateways /\ gateway[h].status = "deleting"
      BY <1>1, <2>1 DEF LiveGateways
    <3>2. PICK k \in JobId : OfGateway(k, h, "delete") /\ IsOpen(job[k].status)
      BY <3>1 DEF DInv, DeleteJobs
    <3>3. OfGateway(k, h, "delete")' /\ IsOpen(job'[k].status)
      BY <1>5, <3>2
    <3>. QED  BY <3>3
  <2>2. ASSUME NEW h \in LiveGateways', NEW k \in JobId, OfGateway(k, h, "delete")', IsOpen(job'[k].status)
        PROVE  gateway'[h].status = "deleting" /\ IsLatest(k, h, "delete")'
    <3>1. OfGateway(k, h, "delete") /\ IsOpen(job[k].status) /\ h # g
      BY <1>5, <2>2
    <3>2. h \in LiveGateways /\ gateway'[h] = gateway[h]
      BY <1>1, <3>1 DEF LiveGateways
    <3>3. gateway[h].status = "deleting" /\ IsLatest(k, h, "delete")
      BY <3>1, <3>2 DEF DInv, DeleteJobs
    <3>. QED  BY <1>5, <3>2, <3>3
  <2>3. ASSUME NEW h \in GatewayId \ LiveGateways', NEW i \in JobId, NEW k \in JobId,
               OfGateway(i, h, "delete")', OfGateway(k, h, "delete")'
        PROVE  i = k
    <3>1. h \in GatewayId \ LiveGateways /\ OfGateway(i, h, "delete") /\ OfGateway(k, h, "delete")
      BY <1>1, <1>5, <2>3
    <3>. QED  BY <3>1 DEF DInv, DeleteJobs
  <2>. QED  BY <2>1, <2>2, <2>3 DEF DeleteJobs
<1>12. SweepHolds'
  <2>0. sweep'.seen[g] = Absent
    BY <1>1 DEF GatewayIsNew
  <2>1. ASSUME NEW h \in LiveGateways', sweep'.seen[h] = "error", gateway'[h].status \in {"ready", "deleting"}
        PROVE  \/ \A k \in JobId : OfGateway(k, h, "create")' => ~IsOpen(job'[k].status)
               \/ \E u \in Threads : Runs(u, "provision", h)' /\ thread'[u].pc = "complete"
    <3>1. h # g /\ h \in LiveGateways /\ gateway'[h] = gateway[h] /\ sweep.seen[h] = "error"
      BY <1>1, <2>0, <2>1 DEF LiveGateways, Absent
    <3>2. \/ \A k \in JobId : OfGateway(k, h, "create") => ~IsOpen(job[k].status)
          \/ \E u \in Threads : Runs(u, "provision", h) /\ thread[u].pc = "complete"
      BY <2>1, <3>1 DEF DInv, SweepHolds
    <3>3. CASE \A k \in JobId : OfGateway(k, h, "create") => ~IsOpen(job[k].status)
      BY <1>5, <3>1, <3>3
    <3>4. CASE \E u \in Threads : Runs(u, "provision", h) /\ thread[u].pc = "complete"
      BY <1>6, <3>4 DEF Runs
    <3>. QED  BY <3>2, <3>3, <3>4
  <2>2. ASSUME NEW h \in LiveGateways', sweep'.seen[h] = "deleting"
        PROVE  \E k \in JobId : IsLatest(k, h, "delete")'
    <3>1. h # g /\ h \in LiveGateways /\ sweep.seen[h] = "deleting"
      BY <1>1, <2>0, <2>2 DEF Absent
    <3>. QED  BY <1>5, <3>1 DEF DInv, SweepHolds
  <2>. QED  BY <2>1, <2>2 DEF SweepHolds
<1>13. UniqueNames'
  <2>1. gateway'[g].name = name
    BY <1>1
  <2>2. \A h \in LiveGateways : gateway'[h].name = gateway[h].name \/ h = g
    BY <1>1 DEF LiveGateways
  <2>3. g \notin LiveGateways
    BY <1>1 DEF LiveGateways
  <2>. QED  BY <1>1, <1>2, <2>1, <2>2, <2>3 DEF DInv, UniqueNames
<1>. QED  BY <1>8, <1>9, <1>10, <1>11, <1>12, <1>13 DEF DInv

\* request_delete_gateway commits: the READY gateway becomes DELETING together with
\* its delete job, the only open one and the latest.
LEMMA CommitKeepsDInv ==
    ASSUME IInv, PInv, DInv, Gentle, InsertsNewIds, NEW r \in Requests, DeleteCommit(r)
    PROVE  DInv'
<1> PICK g : g = request[r].gateway
  OBVIOUS
<1>1. /\ g \in GatewayId
      /\ (request[r].updates /\ g \in LiveGateways /\ GatewayBecomes(g, "deleting"))
         \/ (~request[r].updates /\ GatewaysStay)
      /\ request[r].job = 0 => \E n : Inserts(n, "delete", g)
      /\ \E j : j # 0 /\ StartsOnly("delete", g, j)
      /\ request[r].op = "delete" /\ request'[r].op = "idle"
      /\ RequestsFrom /\ UNCHANGED <<vm, sweep>>
  BY CommitEffect
<1>2. g \in LiveGateways /\ GatewayBecomes(g, "deleting") /\ gateway[g].status = "ready"
      /\ \E n : Inserts(n, "delete", g)
  BY <1>1 DEF DInv, RequestHolds
<1>3. PICK n : Inserts(n, "delete", g)
  BY <1>2
<1>4. /\ n \in JobId /\ n \notin LiveJobs /\ LiveJobs' = LiveJobs \cup {n}
      /\ \A k \in LiveJobs : k < n /\ job'[k] = job[k]
      /\ job'[n].gateway = g /\ job'[n].type = "delete" /\ IsOpen(job'[n].status)
  <2>1. /\ n \in JobId /\ n \notin LiveJobs /\ LiveJobs' = LiveJobs \cup {n}
        /\ \A k \in LiveJobs : k < n /\ job'[k] = job[k]
        /\ job'[n] = NewJob("delete", g)
    BY <1>3, InsertEffect
  <2>. QED  BY <2>1 DEF NewJob, IsOpen
<1>5. PICK j : j # 0 /\ StartsOnly("delete", g, j)
  BY <1>1
<1>6. /\ \A u \in Threads : thread'[u] = thread[u] \/ thread'[u].pc \in {"idle", "once", "exit"}
      /\ \A u \in Threads : thread[u].pc # "idle" => thread'[u] = thread[u]
      /\ \A u \in Threads : thread'[u] = thread[u] \/ (thread'[u].kind = "delete" /\ thread'[u].job = j)
  BY <1>5, StartRests
<1>7. ASSUME NEW h, NEW k, NEW type, h # g \/ type = "create"
      PROVE  /\ OfGateway(k, h, type)' <=> OfGateway(k, h, type)
             /\ OfGateway(k, h, type) => job'[k] = job[k]
             /\ IsLatest(k, h, type)' <=> IsLatest(k, h, type)
  <2>1. OfGateway(k, h, type) => job'[k] = job[k]
    BY <1>4 DEF OfGateway
  <2>2. OfGateway(k, h, type)' <=> OfGateway(k, h, type)
    BY <1>4, <1>7 DEF OfGateway
  <2>3. JobsOf(h, type)' = JobsOf(h, type)
    BY <1>4, <1>7 DEF JobsOf
  <2>. QED  BY <2>1, <2>2, <2>3 DEF IsLatest
<1>8. ASSUME NEW h \in GatewayId
      PROVE  /\ h # g => SameGateway(h)
             /\ gateway'[h].name = gateway[h].name
             /\ gateway'[h].status = Absent <=> gateway[h].status = Absent
  BY <1>1, <1>2 DEF GatewayBecomes, SameGateway, Absent
<1>9. LiveGateways' = LiveGateways
  BY <1>8 DEF LiveGateways
<1>10. IsLatest(n, g, "delete")' /\ OfGateway(n, g, "delete")'
  <2>1. n \in JobsOf(g, "delete")' /\ \A k \in JobsOf(g, "delete")' : k = n \/ k < n
    BY <1>4 DEF JobsOf
  <2>2. JobsOf(g, "delete")' \subseteq Int
    BY BoundsAssumption DEF JobsOf, LiveJobs, JobId
  <2>. QED  BY <1>4, <2>1, <2>2 DEF IsLatest, OfGateway
<1>11. ProvisionHolds'
  <2>1. ASSUME NEW u \in Threads, AtWork(u)
        PROVE  SameGateway(thread[u].gateway)
    <3>1. thread[u].gateway \in GatewayId /\ gateway[thread[u].gateway].status # "ready"
      BY <2>1 DEF AtWork, IInv, ThreadsInv, DInv, ProvisionHolds, HoldsRow, NeedsProvisioning
    <3>. QED  BY <1>2, <1>8, <3>1
  <2>. QED  BY <1>6, <2>1, ProvisionHoldsKept DEF DInv
<1>12. DeleteHolds'
  <2>1. ASSUME NEW u \in Threads, Deletes(u)
        PROVE  /\ gateway'[thread[u].gateway].status = gateway[thread[u].gateway].status
               /\ SameJob(thread[u].job) /\ IsOpen(job'[thread[u].job].status)
    <3>1. HoldsJob(u) /\ thread[u].gateway \in GatewayId
      BY <2>1 DEF DInv, DeleteHolds, Deletes, IInv, ThreadsInv
    <3>2. thread[u].gateway # g
      BY <1>2, <3>1 DEF HoldsJob
    <3>. QED  BY <1>7, <1>8, <3>1, <3>2 DEF HoldsJob, SameJob, SameGateway
  <2>. QED  BY <1>6, <2>1, DeleteHoldsKept DEF DInv
<1>13. RequestHolds'
  <2>1. \A q \in Requests : q = r
    BY DEF Gentle, DeletedWhenReady
  <2>. QED  BY <1>1, <2>1 DEF RequestHolds
<1>14. JobsKnown'
  <2>1. \A u \in Threads : thread'[u] = thread[u] \/ thread'[u].pc \in {"idle", "exit"}
                         \/ (thread'[u].kind = "delete" => thread'[u].job # 0)
    BY <1>5, <1>6
  <2>. QED  BY <1>1, <2>1, JobsKnownKept DEF DInv
<1>15. DeleteJobs'
  <2>1. ASSUME NEW h \in LiveGateways', gateway'[h].status = "deleting"
        PROVE  \E k \in JobId : OfGateway(k, h, "delete")' /\ IsOpen(job'[k].status)
    <3>1. CASE h = g
      BY <1>4, <1>10, <3>1
    <3>2. CASE h # g
      <4>1. h \in LiveGateways /\ gateway[h].status = "deleting"
        BY <1>8, <1>9, <2>1, <3>2 DEF LiveGateways, SameGateway
      <4>2. PICK k \in JobId : OfGateway(k, h, "delete") /\ IsOpen(job[k].status)
        BY <4>1 DEF DInv, DeleteJobs
      <4>3. OfGateway(k, h, "delete")' /\ IsOpen(job'[k].status)
        BY <1>7, <3>2, <4>2
      <4>. QED  BY <4>3
    <3>. QED  BY <3>1, <3>2
  <2>2. ASSUME NEW h \in LiveGateways', NEW k \in JobId, OfGateway(k, h, "delete")', IsOpen(job'[k].status)
        PROVE  gateway'[h].status = "deleting" /\ IsLatest(k, h, "delete")'
    <3>1. CASE h = g
      <4>1. k = n
        <5>1. ASSUME k # n PROVE FALSE
          <6>1. OfGateway(k, g, "delete") /\ IsOpen(job[k].status)
            BY <1>4, <2>2, <3>1, <5>1 DEF OfGateway
          <6>2. gateway[g].status = "deleting"
            BY <1>2, <6>1 DEF DInv, DeleteJobs
          <6>. QED  BY <1>2, <6>2
        <5>. QED  BY <5>1
      <4>. QED  BY <1>1, <1>2, <1>10, <3>1, <4>1 DEF GatewayBecomes
    <3>2. CASE h # g
      <4>1. OfGateway(k, h, "delete") /\ IsOpen(job[k].status) /\ h \in LiveGateways
        BY <1>7, <1>9, <2>2, <3>2
      <4>2. gateway[h].status = "deleting" /\ IsLatest(k, h, "delete")
        BY <4>1 DEF DInv, DeleteJobs
      <4>3. gateway'[h].status = gateway[h].status
        BY <1>8, <3>2, <4>1 DEF LiveGateways, SameGateway
      <4>. QED  BY <1>7, <3>2, <4>2, <4>3
    <3>. QED  BY <3>1, <3>2
  <2>3. ASSUME NEW h \in GatewayId \ LiveGateways', NEW i \in JobId, NEW k \in JobId,
               OfGateway(i, h, "delete")', OfGateway(k, h, "delete")'
        PROVE  i = k
    <3>1. h \in GatewayId \ LiveGateways /\ h # g
      BY <1>2, <1>9, <2>3
    <3>2. OfGateway(i, h, "delete") /\ OfGateway(k, h, "delete")
      BY <1>7, <2>3, <3>1
    <3>. QED  BY <3>1, <3>2 DEF DInv, DeleteJobs
  <2>. QED  BY <2>1, <2>2, <2>3 DEF DeleteJobs
<1>16. SweepHolds'
  <2>1. ASSUME NEW h \in LiveGateways', sweep'.seen[h] = "error", gateway'[h].status \in {"ready", "deleting"}
        PROVE  \/ \A k \in JobId : OfGateway(k, h, "create")' => ~IsOpen(job'[k].status)
               \/ \E u \in Threads : Runs(u, "provision", h)' /\ thread'[u].pc = "complete"
    <3>1. h \in LiveGateways /\ gateway[h].status \in {"ready", "deleting"} /\ sweep.seen[h] = "error"
      BY <1>1, <1>2, <1>8, <1>9, <2>1 DEF LiveGateways, SameGateway
    <3>2. \/ \A k \in JobId : OfGateway(k, h, "create") => ~IsOpen(job[k].status)
          \/ \E u \in Threads : Runs(u, "provision", h) /\ thread[u].pc = "complete"
      BY <3>1 DEF DInv, SweepHolds
    <3>3. CASE \A k \in JobId : OfGateway(k, h, "create") => ~IsOpen(job[k].status)
      BY <1>7, <3>3
    <3>4. CASE \E u \in Threads : Runs(u, "provision", h) /\ thread[u].pc = "complete"
      BY <1>6, <3>4 DEF Runs
    <3>. QED  BY <3>2, <3>3, <3>4
  <2>2. ASSUME NEW h \in LiveGateways', sweep'.seen[h] = "deleting"
        PROVE  \E k \in JobId : IsLatest(k, h, "delete")'
    <3>1. h \in LiveGateways /\ sweep.seen[h] = "deleting"
      BY <1>1, <1>9, <2>2
    <3>. QED  BY <1>4, <1>7, <1>10, <3>1 DEF DInv, SweepHolds
  <2>. QED  BY <2>1, <2>2 DEF SweepHolds
<1>17. UniqueNames'
  BY <1>8, NamesKept DEF DInv, NamesFrom
<1>. QED  BY <1>11, <1>12, <1>13, <1>14, <1>15, <1>16, <1>17 DEF DInv

LEMMA RequestsKeepDInv ==
    ASSUME IInv, PInv, DInv, Gentle, InsertsNewIds, NEW r \in Requests, RequestBegins(r) \/ RequestStep(r)
    PROVE  DInv'
<1>1. CASE DeleteCommit(r)
  BY <1>1, CommitKeepsDInv
<1>2. CASE DeleteJoin(r)
  <2>. PICK g : g = request[r].gateway
    OBVIOUS
  <2>. PICK j : j = request[r].job
    OBVIOUS
  <2>1. /\ Start("delete", g, j) /\ Finish(r) /\ UNCHANGED <<gateway, job, vm, sweep>> /\ j # 0
    BY <1>2 DEF DeleteJoin, DInv, JobsKnown
  <2>2. /\ ThreadsRest
        /\ \A u \in Threads : thread'[u] = thread[u] \/ (thread'[u].kind = "delete" /\ thread'[u].job = j)
        /\ \A u \in Threads : thread[u].pc = "complete" => thread'[u] = thread[u]
    BY <2>1, StartEffect, StartRests
  <2>3. GatewaysStay /\ JobsStay /\ SeesNoMore
    BY <2>1 DEF GatewaysStay, JobsStay, SameJob, SeesNoMore
  <2>4. RequestsFrom
    BY <2>1 DEF RequestsFrom, Finish, IdleRequest, NewRequest, IInv, HandlersInv
  <2>5. JobsKnown'
    <3>1. \A u \in Threads : thread'[u] = thread[u] \/ thread'[u].pc \in {"idle", "exit"}
                           \/ (thread'[u].kind = "delete" => thread'[u].job # 0)
      BY <2>1, <2>2
    <3>. QED  BY <2>4, <3>1, JobsKnownKept DEF DInv
  <2>6. RequestHolds' /\ SweepHolds'
    BY <2>2, <2>3, <2>4, RequestHoldsKept, RestKeepsSweepHolds DEF DInv, GatewaysStay
  <2>. QED  BY <2>1, <2>2, <2>3, <2>5, <2>6, RestKeepsDInv
<1>3. CASE DeleteStale(r)
  <2>1. GatewaysStay /\ JobsStay /\ SeesNoMore /\ vm' = vm /\ thread' = thread
    BY <1>3 DEF DeleteStale, GatewaysStay, JobsStay, SameJob, SeesNoMore
  <2>2. RequestsFrom
    BY <1>3 DEF DeleteStale, RequestsFrom, Finish, IdleRequest, NewRequest, IInv, HandlersInv
  <2>3. JobsKnown' /\ RequestHolds' /\ SweepHolds' /\ ThreadsRest
    BY <2>1, <2>2, JobsKnownKept, RequestHoldsKept, RestKeepsSweepHolds DEF DInv, GatewaysStay, ThreadsRest
  <2>. QED  BY <2>1, <2>3, RestKeepsDInv
<1>4. ASSUME NEW g \in GatewayId, DeleteRead(r, g)
      PROVE  DInv'
  <2>. PICK j : j = LatestJob(g, "delete")
    OBVIOUS
  <2>1. GatewaysStay /\ JobsStay /\ SeesNoMore /\ vm' = vm /\ thread' = thread /\ gateway' = gateway
    BY <1>4 DEF DeleteRead, GatewaysStay, JobsStay, SameJob, SeesNoMore
  <2>2. \A q \in Requests : q # r => request'[q] = request[q]
    BY <1>4 DEF DeleteRead, IInv, HandlersInv
  <2>3. gateway[g].status \in {"ready", "deleting"}
    BY <1>4 DEF DeleteRead, Gentle, DeletedWhenReady
  <2>4. g \in LiveGateways
    BY <2>3 DEF LiveGateways, Absent
  <2>5. j # 0 => j \in JobId /\ OfGateway(j, g, "delete") /\ StatusOfJob(j) = job[j].status
    BY LatestJobLive DEF JobsOf, OfGateway, LiveJobs, StatusOfJob
  <2>6. CASE gateway[g].status = "deleting"
    <3>1. PICK k \in JobId : OfGateway(k, g, "delete") /\ IsOpen(job[k].status)
      BY <2>4, <2>6 DEF DInv, DeleteJobs
    <3>2. IsLatest(k, g, "delete")
      BY <2>4, <3>1 DEF DInv, DeleteJobs
    <3>3. j = k
      <4>1. \A i \in JobId : IsLatest(i, g, "delete") => i = k
        BY <3>2, BoundsAssumption DEF IsLatest, JobId
      <4>. QED  BY <3>2, <4>1 DEF LatestJob
    <3>4. j # 0 /\ StatusOfJob(j) \in {"pending", "running"}
      BY <3>1, <3>3, BoundsAssumption DEF StatusOfJob, IsOpen, JobId
    <3>5. request'[r].op = "join" /\ request'[r].job # 0
      BY <1>4, <2>6, <3>4 DEF DeleteRead, NewRequest, IInv, HandlersInv
    <3>6. JobsKnown' /\ RequestHolds'
      BY <2>1, <2>2, <3>5 DEF DInv, JobsKnown, RequestHolds
    <3>. QED  BY <2>1, <3>6, RestKeepsSweepHolds, RestKeepsDInv DEF ThreadsRest
  <2>7. CASE gateway[g].status = "ready"
    <3>1. StatusOfJob(j) # "pending"
      <4>1. CASE j = 0
        BY <4>1 DEF StatusOfJob, Absent
      <4>2. CASE j # 0
        BY <2>4, <2>5, <2>7, <4>2 DEF DInv, DeleteJobs, IsOpen
      <4>. QED  BY <4>1, <4>2
    <3>2. /\ request'[r].op = "delete" /\ request'[r].gateway = g
          /\ request'[r].job = 0 /\ request'[r].updates
      BY <1>4, <2>7, <3>1 DEF DeleteRead, NewRequest, IInv, HandlersInv
    <3>3. JobsKnown' /\ RequestHolds'
      BY <2>1, <2>2, <2>7, <3>2 DEF DInv, JobsKnown, RequestHolds
    <3>. QED  BY <2>1, <3>3, RestKeepsSweepHolds, RestKeepsDInv DEF ThreadsRest
  <2>. QED  BY <2>3, <2>6, <2>7
<1>5. request[r].op \notin {"retry", "pick"}
  BY DEF PInv, OwnJobs
<1>. QED  BY <1>1, <1>2, <1>3, <1>4, <1>5
       DEF RequestBegins, RequestStep, RetryRead, RetryPrepare, RetryPick, Gentle, NobodyRetries

-----------------------------------------------------------------------------
(* Gateways that are deleted when READY: the sweep *)

\* The sweep has committed: it reads again whatever is left of its list.
LEMMA ForgetfulSweep ==
    ASSUME \A h \in GatewayId : sweep'.seen[h] \in {Absent, Expired}
    PROVE  SweepHolds'
  BY DEF SweepHolds, LiveGateways, Absent, Expired

\* What a sweep's start of a thread with job j leaves.
LEMMA SweepStarts ==
    ASSUME IInv, DInv, NEW kind, NEW g, NEW j, StartsOnly(kind, g, j), kind = "delete" => j # 0,
           request' = request,
           \A h \in GatewayId : gateway[h].status = "ready" => gateway'[h].status = "ready"
    PROVE  JobsKnown' /\ RequestHolds'
<1>1. RequestsFrom
  BY DEF RequestsFrom
<1>2. \A u \in Threads : thread'[u] = thread[u] \/ thread'[u].pc \in {"idle", "exit"}
                       \/ (thread'[u].kind = "delete" => thread'[u].job # 0)
  BY StartRests
<1>. QED  BY <1>1, <1>2, JobsKnownKept, RequestHoldsKept DEF DInv

\* A sweep that still believes a gateway ERROR, and finds its create job open and
\* nobody at work on it, is right that it needs provisioning.
LEMMA BelievedErrorNeedsProvisioning ==
    ASSUME IInv, DInv, NEW g \in LiveGateways, NEW j, OfGateway(j, g, "create"), IsOpen(job[j].status),
           g \notin active["provision"], SeenNow(g) = "error"
    PROVE  gateway[g].status \in NeedsProvisioning
<1>1. sweep.seen[g] = "error" \/ gateway[g].status = "error"
  BY DEF SeenNow
<1>2. g \in GatewayId /\ j \in JobId
  BY DEF OfGateway, LiveJobs, LiveGateways
<1>3. \A u \in Threads : ~Runs(u, "provision", g)
  BY <1>2 DEF IInv, ThreadsInv, ActiveIsExact, ThreadKind
<1>4. gateway[g].status \notin {"ready", "deleting"}
  BY <1>1, <1>2, <1>3 DEF DInv, SweepHolds
<1>. QED  BY <1>2, <1>4
       DEF IInv, RowsInv, GatewayRow, NoGateway, GatewayStatus, NeedsProvisioning, LiveGateways

LEMMA SweepProvisionKeepsDInv ==
    ASSUME IInv, PInv, CreateJobExists, DInv, NEW g \in GatewayId, SweepProvision(g)
    PROVE  DInv'
<1>. PICK j : j = LatestJob(g, "create")
  OBVIOUS
<1>. PICK seen : seen = SeenNow(g)
  OBVIOUS
<1>0. /\ request' = request /\ vm' = vm /\ g \notin active["provision"]
      /\ StatusOfJob(j) \in {"pending", "running", Absent}
  BY DEF SweepProvision
<1>1. CASE StatusOfJob(j) = "pending"
  <2>1. Start("provision", g, j) /\ UNCHANGED <<gateway, job>> /\ sweep' = [sweep EXCEPT !.seen = Passed(g)]
    BY <1>1 DEF SweepProvision
  <2>2. /\ ThreadsRest /\ StartsOnly("provision", g, j)
        /\ \A u \in Threads : thread[u].pc = "complete" => thread'[u] = thread[u]
    BY <2>1, StartEffect, StartRests
  <2>3. GatewaysStay /\ JobsStay /\ SeesNoMore
    BY <2>1 DEF GatewaysStay, JobsStay, SameJob, SeesNoMore, Passed, IInv, HandlersInv, SweepState
  <2>4. JobsKnown' /\ RequestHolds'
    BY <1>0, <2>2, <2>3, SweepStarts DEF GatewaysStay
  <2>. QED  BY <1>0, <2>2, <2>3, <2>4, RestKeepsSweepHolds, RestKeepsDInv
<1>2. CASE /\ StatusOfJob(j) # "pending"
           /\ CanPrepare(g, Revives(seen, StatusOfJob(j)), j, Resets(StatusOfJob(j)))
  <2>. PICK p : p = PendingJob(g, job')
    OBVIOUS
  <2>1. /\ Prepare(g, Revives(seen, StatusOfJob(j)), j, Resets(StatusOfJob(j)))
        /\ Start("provision", g, p) /\ sweep' = [sweep EXCEPT !.seen = PassedAndExpired(g)]
    BY <1>2 DEF SweepProvision
  <2>2. \/ /\ g \in LiveGateways /\ OfGateway(j, g, "create") /\ IsOpen(job[j].status)
           /\ JobBecomes(j, "pending")
           /\ (seen = "error" /\ GatewayBecomes(g, "pending")) \/ GatewaysStay
        \/ /\ g \notin LiveGateways /\ GatewaysStay
           /\ \/ OfGateway(j, g, "create") /\ JobBecomes(j, "pending")
              \/ \E n : Inserts(n, "create", g)
    BY <1>0, <1>2, <2>1, SweepPrepares
  <2>3. /\ StartsOnly("provision", g, p)
        /\ \A u \in Threads : thread'[u] = thread[u] \/ thread'[u].pc \in {"idle", "once", "exit"}
    BY <2>1, StartEffect, StartRests
  <2>4. \A u \in Threads : AtWork(u) => thread[u].gateway # g
    BY <1>0 DEF AtWork, IInv, ThreadsInv, ActiveIsExact, Runs, ThreadKind
  \* It writes no row of a gateway that has become READY or DELETING meanwhile.
  <2>5. g \in LiveGateways /\ seen = "error" => gateway[g].status \in NeedsProvisioning
    BY <1>0, <2>2, BelievedErrorNeedsProvisioning
  <2>6. ASSUME NEW h \in GatewayId
        PROVE  /\ h # g => SameGateway(h)
               /\ gateway'[h].name = gateway[h].name
               /\ gateway'[h].status = Absent <=> gateway[h].status = Absent
               /\ gateway[h].status \in {"ready", "deleting"} => gateway'[h].status = gateway[h].status
               /\ gateway'[h].status = "deleting" => gateway[h].status = "deleting"
    BY <1>0, <2>2, <2>5
       DEF GatewaysStay, GatewayBecomes, SameGateway, LiveGateways, NeedsProvisioning, Absent
  <2>7. LiveGateways' = LiveGateways
    BY <2>6 DEF LiveGateways
  <2>8. ASSUME NEW h \in LiveGateways, NEW k, OfGateway(k, h, "delete")
        PROVE  SameJob(k) /\ job'[k].status = job[k].status
    <3>1. CASE OfGateway(j, g, "create") /\ JobBecomes(j, "pending")
      BY <2>8, <3>1 DEF OfGateway, JobBecomes, LiveJobs
    <3>2. CASE \E n : Inserts(n, "create", g)
      <4>1. job'[k] = job[k]
        BY <2>8, <3>2, InsertEffect DEF OfGateway
      <4>. QED  BY <4>1 DEF SameJob
    <3>. QED  BY <2>2, <3>1, <3>2
  <2>9. ProvisionHolds'
    <3>1. \A u \in Threads : AtWork(u) => SameGateway(thread[u].gateway)
      BY <2>4, <2>6 DEF AtWork, IInv, ThreadsInv
    <3>. QED  BY <2>3, <3>1, ProvisionHoldsKept DEF DInv
  <2>10. DeleteHolds'
    <3>1. ASSUME NEW u \in Threads, Deletes(u)
          PROVE  /\ gateway'[thread[u].gateway].status = gateway[thread[u].gateway].status
                 /\ SameJob(thread[u].job) /\ IsOpen(job'[thread[u].job].status)
      <4>1. HoldsJob(u) /\ thread[u].gateway \in GatewayId
        BY <3>1 DEF DInv, DeleteHolds, Deletes, IInv, ThreadsInv
      <4>2. thread[u].gateway \in LiveGateways
        BY <4>1 DEF HoldsJob, LiveGateways, Absent
      <4>. QED  BY <2>6, <2>8, <4>1, <4>2 DEF HoldsJob
    <3>. QED  BY <2>3, <3>1, DeleteHoldsKept DEF DInv
  <2>11. JobsKnown' /\ RequestHolds'
    BY <1>0, <2>3, <2>6, SweepStarts
  <2>12. DeleteJobs'
    <3>1. CASE OfGateway(j, g, "create") /\ JobBecomes(j, "pending")
      <4>1. SameRows
        BY <3>1 DEF OfGateway, JobBecomes, SameRows, LiveJobs, Absent
      <4>2. \A h \in LiveGateways : gateway'[h].status = "deleting" <=> gateway[h].status = "deleting"
        BY <2>6 DEF LiveGateways
      <4>. QED  BY <2>7, <2>8, <4>1, <4>2, DeleteJobsKept DEF DInv
    <3>2. CASE GatewaysStay /\ \E n : Inserts(n, "create", g)
      <4>1. PICK n : Inserts(n, "create", g)
        BY <3>2
      <4>2. /\ LiveJobs' = LiveJobs \cup {n} /\ \A k \in LiveJobs : job'[k] = job[k]
            /\ job'[n].type = "create"
        <5>1. /\ LiveJobs' = LiveJobs \cup {n} /\ \A k \in LiveJobs : k < n /\ job'[k] = job[k]
              /\ job'[n] = NewJob("create", g)
          BY <4>1, InsertEffect
        <5>. QED  BY <5>1 DEF NewJob
      <4>3. ASSUME NEW h, NEW k
            PROVE  /\ OfGateway(k, h, "delete")' <=> OfGateway(k, h, "delete")
                   /\ OfGateway(k, h, "delete") => job'[k] = job[k]
                   /\ IsLatest(k, h, "delete")' <=> IsLatest(k, h, "delete")
        <5>1. JobsOf(h, "delete")' = JobsOf(h, "delete")
          BY <4>2 DEF JobsOf
        <5>2. OfGateway(k, h, "delete")' <=> OfGateway(k, h, "delete")
          BY <4>2 DEF OfGateway
        <5>. QED  BY <4>2, <5>1, <5>2 DEF IsLatest, OfGateway
      <4>. QED  BY <2>7, <3>2, <4>3 DEF DInv, DeleteJobs, GatewaysStay, LiveGateways
    <3>. QED  BY <2>2, <3>1, <3>2
  <2>13. SweepHolds'
    <3>1. \A h \in GatewayId : sweep'.seen[h] \in {Absent, Expired}
      BY <2>1 DEF PassedAndExpired, IInv, HandlersInv, SweepState
    <3>. QED  BY <3>1, ForgetfulSweep
  <2>14. UniqueNames'
    BY <2>6, NamesKept DEF DInv, NamesFrom
  <2>. QED  BY <2>9, <2>10, <2>11, <2>12, <2>13, <2>14 DEF DInv
<1>3. CASE /\ StatusOfJob(j) # "pending"
           /\ ~CanPrepare(g, Revives(seen, StatusOfJob(j)), j, Resets(StatusOfJob(j)))
  <2>1. UNCHANGED <<gateway, job, thread>> /\ sweep' = IdleSweep
    BY <1>3 DEF SweepProvision
  <2>2. GatewaysStay /\ JobsStay /\ SeesNoMore /\ ThreadsRest /\ RequestsFrom
    BY <1>0, <2>1 DEF GatewaysStay, JobsStay, SameJob, SeesNoMore, ThreadsRest, RequestsFrom, IdleSweep
  <2>3. JobsKnown' /\ RequestHolds' /\ SweepHolds'
    BY <2>1, <2>2, JobsKnownKept, RequestHoldsKept, RestKeepsSweepHolds DEF DInv, GatewaysStay
  <2>. QED  BY <1>0, <2>2, <2>3, RestKeepsDInv
<1>. QED  BY <1>1, <1>2, <1>3

\* A DELETING gateway's latest delete job is its open one.
LEMMA DeletingJobIsFound ==
    ASSUME DInv, NEW g \in LiveGateways, gateway[g].status = "deleting"
    PROVE  \E j \in JobId : IsLatest(j, g, "delete") /\ OfGateway(j, g, "delete") /\ IsOpen(job[j].status)
  BY DEF DInv, DeleteJobs

LEMMA LatestIsFound ==
    ASSUME NEW g, NEW type, NEW j \in JobId, IsLatest(j, g, type)
    PROVE  LatestJob(g, type) = j
<1>1. \A i \in JobId : IsLatest(i, g, type) => i = j
  BY BoundsAssumption DEF IsLatest, JobId
<1>. QED  BY <1>1 DEF LatestJob

LEMMA SweepDeleteKeepsDInv ==
    ASSUME IInv, PInv, DInv, NEW g \in GatewayId, SweepDelete(g)
    PROVE  DInv'
<1>. PICK latest : latest = LatestJob(g, "delete")
  OBVIOUS
<1>. PICK j : j = IF latest = 0 THEN NextId(LiveJobs, JobId) ELSE latest
  OBVIOUS
<1>0. /\ UNCHANGED <<request, gateway, vm>> /\ Start("delete", g, j) /\ j # 0
      /\ SeenNow(g) = "deleting" /\ StatusOfJob(latest) \in {"pending", "running", Absent}
      /\ job' = IF latest = 0 THEN [job EXCEPT ![j] = NewJob("delete", g)]
                ELSE WithJobStatus(job, j, "pending")
      /\ sweep' = [sweep EXCEPT !.seen =
            IF StatusOfJob(latest) = "pending" THEN Passed(g) ELSE PassedAndExpired(g)]
  BY DEF SweepDelete
<1>1. /\ GatewaysStay /\ LiveGateways' = LiveGateways /\ NamesFrom /\ GatewaysFrom
      /\ \A h \in GatewayId : SameGateway(h)
  BY <1>0 DEF GatewaysStay, LiveGateways, NamesFrom, SameGateway, GatewaysFrom
<1>2. /\ StartsOnly("delete", g, j)
      /\ \A u \in Threads : thread'[u] = thread[u] \/ thread'[u].pc \in {"idle", "once", "exit"}
      /\ \A u \in Threads : thread[u].pc # "idle" => thread'[u] = thread[u]
  BY <1>0, StartEffect, StartRests
<1>3. latest # 0 => latest \in JobId /\ OfGateway(latest, g, "delete") /\ StatusOfJob(latest) = job[latest].status
  BY LatestJobLive DEF JobsOf, OfGateway, LiveJobs, StatusOfJob
<1>4. g \in LiveGateways => latest # 0
  <2>1. ASSUME g \in LiveGateways
        PROVE  \E k \in JobId : IsLatest(k, g, "delete")
    <3>1. CASE sweep.seen[g] = "deleting"
      BY <2>1, <3>1 DEF DInv, SweepHolds
    <3>2. CASE gateway[g].status = "deleting"
      BY <2>1, <3>2, DeletingJobIsFound
    <3>. QED  BY <1>0, <3>1, <3>2 DEF SeenNow
  <2>2. 0 \notin JobId
    BY BoundsAssumption DEF JobId
  <2>. QED  BY <2>1, <2>2, LatestIsFound
<1>5. ProvisionHolds'
  <2>1. \A u \in Threads : AtWork(u) => SameGateway(thread[u].gateway)
    BY <1>1 DEF AtWork, IInv, ThreadsInv
  <2>. QED  BY <1>2, <2>1, ProvisionHoldsKept DEF DInv
<1>6. JobsKnown' /\ RequestHolds'
  BY <1>0, <1>2, SweepStarts
<1>7. UniqueNames'
  BY <1>1, NamesKept DEF DInv
\* The open job is taken up again.
<1>8. CASE latest # 0
  <2>1. j = latest /\ JobBecomes(j, "pending") /\ IsOpen(job[j].status) /\ job[j].status # Absent
    BY <1>0, <1>3, <1>8, StatusBecomes DEF IsOpen, OfGateway, LiveJobs
  <2>2. SameRows /\ \A k \in JobId : IsOpen(job'[k].status) <=> IsOpen(job[k].status)
    BY <2>1 DEF JobBecomes, SameRows, IsOpen, Absent
  <2>3. DeleteHolds'
    <3>1. ASSUME NEW u \in Threads, Deletes(u)
          PROVE  /\ gateway'[thread[u].gateway].status = gateway[thread[u].gateway].status
                 /\ SameJob(thread[u].job) /\ IsOpen(job'[thread[u].job].status)
      <4>1. HoldsJob(u)
        BY <3>1 DEF DInv, DeleteHolds
      <4>. QED  BY <1>0, <2>2, <4>1 DEF HoldsJob, OfGateway, LiveJobs, SameRows
    <3>. QED  BY <1>2, <3>1, DeleteHoldsKept DEF DInv
  <2>4. DeleteJobs'
    BY <1>0, <1>1, <2>2, DeleteJobsKept DEF DInv
  <2>5. SweepHolds'
    <3>1. \A h \in GatewayId : sweep'.seen[h] \in {sweep.seen[h], Absent, Expired}
      BY <1>0 DEF Passed, PassedAndExpired, IInv, HandlersInv, SweepState
    <3>2. \A h \in LiveGateways' : gateway'[h].status \in {"ready", "deleting"} =>
             /\ gateway[h].status \in {"ready", "deleting"}
             /\ \A k \in JobId : OfGateway(k, h, "create") /\ ~IsOpen(job[k].status) => ~IsOpen(job'[k].status)
             /\ \A u \in Threads : Runs(u, "provision", h) /\ thread[u].pc = "complete" =>
                  Runs(u, "provision", h)' /\ thread'[u].pc = "complete"
      BY <1>0, <1>2, <2>2 DEF Runs
    <3>3. LiveGateways' \subseteq GatewayId
      BY DEF LiveGateways
    <3>. QED  BY <1>1, <2>2, <3>1, <3>2, <3>3, SweepHoldsKept DEF DInv
  <2>. QED  BY <1>5, <1>6, <1>7, <2>3, <2>4, <2>5 DEF DInv
\* The gateway has gone since the sweep read it, and gets a job that no one has.
<1>9. CASE latest = 0
  <2>1. Inserts(j, "delete", g)
    BY <1>0, <1>9 DEF Inserts
  <2>2. /\ j \in JobId /\ LiveJobs' = LiveJobs \cup {j} /\ \A k \in LiveJobs : job'[k] = job[k]
        /\ job'[j].gateway = g
    <3>1. /\ j \in JobId /\ LiveJobs' = LiveJobs \cup {j} /\ \A k \in LiveJobs : k < j /\ job'[k] = job[k]
          /\ job'[j] = NewJob("delete", g)
      BY <2>1, InsertEffect
    <3>. QED  BY <3>1 DEF NewJob
  <2>3. g \notin LiveGateways
    BY <1>4, <1>9
  <2>4. ASSUME NEW h, NEW k, h # g
        PROVE  /\ OfGateway(k, h, "delete")' <=> OfGateway(k, h, "delete")
               /\ OfGateway(k, h, "delete") => job'[k] = job[k]
               /\ IsLatest(k, h, "delete")' <=> IsLatest(k, h, "delete")
    <3>1. JobsOf(h, "delete")' = JobsOf(h, "delete")
      BY <2>2, <2>4 DEF JobsOf
    <3>2. OfGateway(k, h, "delete")' <=> OfGateway(k, h, "delete")
      BY <2>2, <2>4 DEF OfGateway
    <3>. QED  BY <2>2, <3>1, <3>2 DEF IsLatest, OfGateway
  <2>5. ASSUME NEW k \in JobId, OfGateway(k, g, "delete")
        PROVE  FALSE
    <3>1. \A i \in JobId : OfGateway(i, g, "delete") => i = k
      BY <2>3, <2>5 DEF DInv, DeleteJobs
    <3>2. IsLatest(k, g, "delete")
      BY <2>5, <3>1, BoundsAssumption DEF IsLatest, JobsOf, OfGateway, LiveJobs, JobId
    <3>. QED  BY <1>9, <3>2, LatestIsFound, BoundsAssumption DEF JobId
  <2>6. \A k \in JobId : OfGateway(k, g, "delete")' => k = j
    BY <2>2, <2>5 DEF OfGateway
  <2>7. DeleteHolds'
    <3>1. ASSUME NEW u \in Threads, Deletes(u)
          PROVE  /\ gateway'[thread[u].gateway].status = gateway[thread[u].gateway].status
                 /\ SameJob(thread[u].job) /\ IsOpen(job'[thread[u].job].status)
      <4>1. HoldsJob(u)
        BY <3>1 DEF DInv, DeleteHolds
      <4>. QED  BY <1>0, <2>2, <4>1 DEF HoldsJob, OfGateway, SameJob
    <3>. QED  BY <1>2, <3>1, DeleteHoldsKept DEF DInv
  <2>8. DeleteJobs'
    <3>1. \A h \in LiveGateways : gateway'[h].status = "deleting" =>
            \E k \in JobId : OfGateway(k, h, "delete")' /\ IsOpen(job'[k].status)
      BY <1>0, <2>3, <2>4 DEF DInv, DeleteJobs
    <3>2. \A h \in LiveGateways, k \in JobId :
            OfGateway(k, h, "delete")' /\ IsOpen(job'[k].status) =>
               gateway'[h].status = "deleting" /\ IsLatest(k, h, "delete")'
      BY <1>0, <2>3, <2>4 DEF DInv, DeleteJobs
    <3>3. ASSUME NEW h \in GatewayId \ LiveGateways, NEW i \in JobId, NEW k \in JobId,
                 OfGateway(i, h, "delete")', OfGateway(k, h, "delete")'
          PROVE  i = k
      <4>1. CASE h = g
        BY <2>6, <3>3, <4>1
      <4>2. CASE h # g
        BY <2>4, <3>3, <4>2 DEF DInv, DeleteJobs
      <4>. QED  BY <4>1, <4>2
    <3>. QED  BY <1>1, <3>1, <3>2, <3>3 DEF DeleteJobs
  <2>9. SweepHolds'
    <3>1. StatusOfJob(latest) # "pending"
      BY <1>9 DEF StatusOfJob, Absent
    <3>2. \A h \in GatewayId : sweep'.seen[h] \in {Absent, Expired}
      BY <1>0, <3>1 DEF PassedAndExpired, IInv, HandlersInv, SweepState
    <3>. QED  BY <3>2, ForgetfulSweep
  <2>. QED  BY <1>5, <1>6, <1>7, <2>7, <2>8, <2>9 DEF DInv
<1>. QED  BY <1>8, <1>9

LEMMA SweepKeepsDInv ==
    ASSUME IInv, PInv, CreateJobExists, DInv, SweepStep
    PROVE  DInv'
<1>1. CASE SweepBegin \/ SweepTurn \/ SweepEnd \/ \E g \in GatewayId : SweepRaises(g) \/ SweepSkip(g)
  <2>1. UNCHANGED <<gateway, job, vm, thread, request>>
    BY <1>1 DEF SweepBegin, SweepTurn, SweepEnd, SweepRaises, SweepSkip
  <2>2. GatewaysStay /\ JobsStay /\ ThreadsRest /\ RequestsFrom
    BY <2>1 DEF GatewaysStay, JobsStay, SameJob, ThreadsRest, RequestsFrom
  <2>3. JobsKnown' /\ RequestHolds'
    BY <2>1, <2>2, JobsKnownKept, RequestHoldsKept DEF DInv, GatewaysStay
  <2>4. SweepHolds'
    <3>1. CASE sweep'.seen = Listed
      <4>1. ASSUME NEW h \in LiveGateways, gateway[h].status = "deleting"
            PROVE  \E k \in JobId : IsLatest(k, h, "delete")
        BY <4>1, DeletingJobIsFound
      <4>2. \A h \in GatewayId : sweep'.seen[h] = gateway[h].status
        BY <3>1 DEF Listed
      <4>. QED  BY <2>1, <4>1, <4>2
             DEF SweepHolds, LiveGateways, LiveJobs, IsLatest, JobsOf
    <3>2. CASE SeesNoMore
      BY <2>1, <2>2, <3>2, RestKeepsSweepHolds
    <3>3. SeesNoMore \/ sweep'.seen = Listed
      BY <1>1 DEF SweepBegin, SweepTurn, SweepEnd, SweepRaises, SweepSkip, SeesNoMore, IdleSweep,
         Passed, IInv, HandlersInv, SweepState
    <3>. QED  BY <3>1, <3>2, <3>3
  <2>. QED  BY <2>1, <2>2, <2>3, <2>4, RestKeepsDInv
<1>2. CASE \E g \in GatewayId : SweepProvision(g) \/ SweepDelete(g)
  BY <1>2, SweepProvisionKeepsDInv, SweepDeleteKeepsDInv
<1>. QED  BY <1>1, <1>2 DEF SweepStep

LEMMA DInvStep ==
    ASSUME Gentle, IInv, CreateJobExists, PInv, DInv,
           [Next]_vars, [InsertsNewIds]_vars, [CommitNotLocked]_vars
    PROVE  DInv'
<1>1. CASE UNCHANGED vars
  <2>1. GatewaysStay /\ JobsStay /\ ThreadsRest /\ RequestsFrom /\ SeesNoMore
        /\ UNCHANGED <<vm, thread>>
    BY <1>1 DEF vars, GatewaysStay, JobsStay, SameJob, ThreadsRest, RequestsFrom, SeesNoMore
  <2>2. JobsKnown' /\ RequestHolds' /\ SweepHolds'
    BY <2>1, JobsKnownKept, RequestHoldsKept, RestKeepsSweepHolds DEF DInv, GatewaysStay
  <2>. QED  BY <2>1, <2>2, RestKeepsDInv
<1>2. ASSUME NEW t \in Threads, ThreadStep(t) \/ ThreadLocked(t), CommitNotLocked
      PROVE  DInv'
  <2>1. CASE ProvisionStep(t) /\ ~ProvisionPrepare(t)
    BY <2>1, ProvisionTable, ProvisionKeepsDInv
  <2>2. CASE ProvisionPrepare(t)
    BY <2>2, PrepareTable, ProvisionKeepsDInv
  <2>3. CASE DeleteStep(t) /\ ~DeleteRemove(t)
    BY <2>3, DeleteTable, DeleteKeepsDInv
  <2>4. CASE DeleteRemove(t)
    BY <2>4, RemoveKeepsDInv
  <2>5. CASE ThreadLocked(t)
    <3>1. thread[t].pc # "complete"
      BY <1>2, <2>5 DEF CommitNotLocked
    <3>. QED  BY <2>5, <3>1, LockTable, LockKeepsDInv
  <2>6. CASE ThreadExit(t)
    <3>1. /\ UNCHANGED <<gateway, job, vm, request, sweep>> /\ thread[t].pc = "exit"
          /\ \A u \in Threads : u # t => thread'[u] = thread[u]
          /\ thread'[t].pc = "idle"
      BY <2>6 DEF ThreadExit, IdleThread, IInv, ThreadsInv
    <3>2. GatewaysStay /\ JobsStay /\ ThreadsRest /\ RequestsFrom /\ SeesNoMore
      BY <3>1 DEF GatewaysStay, JobsStay, SameJob, ThreadsRest, RequestsFrom, SeesNoMore
    <3>3. JobsKnown' /\ RequestHolds' /\ SweepHolds'
      <4>1. \A u \in Threads : thread'[u] = thread[u] \/ thread'[u].pc \in {"idle", "exit"}
        BY <3>1
      <4>2. \A u \in Threads : thread[u].pc = "complete" => thread'[u] = thread[u]
        BY <3>1
      <4>. QED  BY <3>2, <4>1, <4>2, JobsKnownKept, RequestHoldsKept, RestKeepsSweepHolds DEF DInv, GatewaysStay
    <3>. QED  BY <3>1, <3>2, <3>3, RestKeepsDInv
  <2>. QED  BY <1>2, <2>1, <2>2, <2>3, <2>4, <2>5, <2>6 DEF ThreadStep
<1>3. ASSUME NEW j \in JobId, Age(j)
      PROVE  DInv'
  <2>1. UNCHANGED <<gateway, vm, thread, request, sweep>>
    BY <1>3 DEF Age
  <2>2. JobsStay
    BY <1>3 DEF Age, JobsStay, SameJob, IInv, RowsInv, JobRow, NoJob
  <2>3. GatewaysStay /\ ThreadsRest /\ RequestsFrom /\ SeesNoMore
    BY <2>1 DEF GatewaysStay, ThreadsRest, RequestsFrom, SeesNoMore
  <2>4. JobsKnown' /\ RequestHolds' /\ SweepHolds'
    BY <2>1, <2>2, <2>3, JobsKnownKept, RequestHoldsKept, RestKeepsSweepHolds DEF DInv, GatewaysStay
  <2>. QED  BY <2>1, <2>2, <2>3, <2>4, RestKeepsDInv
<1>4. CASE Crash
  <2>1. /\ UNCHANGED <<gateway, job, vm>> /\ sweep' = IdleSweep
        /\ \A u \in Threads : thread'[u].pc = "idle"
        /\ \A r \in Requests : request'[r].op = "idle"
    BY <1>4 DEF Crash, IdleThread, IdleRequest, NewRequest
  <2>2. GatewaysStay /\ JobsStay /\ ThreadsRest
    BY <2>1 DEF GatewaysStay, JobsStay, SameJob, ThreadsRest
  <2>3. JobsKnown' /\ RequestHolds'
    BY <2>1 DEF JobsKnown, RequestHolds
  <2>4. SweepHolds'
    BY <2>1, ForgetfulSweep DEF IdleSweep
  <2>. QED  BY <2>1, <2>2, <2>3, <2>4, RestKeepsDInv
<1>5. CASE Next /\ InsertsNewIds /\ CommitNotLocked
  BY <1>2, <1>3, <1>4, <1>5, CreateKeepsDInv, RequestsKeepDInv, SweepKeepsDInv DEF Next
<1>. QED  BY <1>1, <1>5

LEMMA DInvHolds ==
    ASSUME NobodyRetries, DeletedWhenReady
    PROVE  Spec /\ IdsNotReused /\ CompletionsRecorded => [](PInv /\ DInv /\ CreateJobExists)
<1>1. Init => DInv
  <2> SUFFICES ASSUME Init PROVE DInv
    OBVIOUS
  <2>1. LiveGateways = {} /\ LiveJobs = {}
    BY DEF Init, LiveGateways, LiveJobs, NoGateway, NoJob
  <2>2. ProvisionHolds /\ DeleteHolds /\ JobsKnown /\ RequestHolds
    BY DEF Init, IdleThread, IdleRequest, NewRequest, ProvisionHolds, HoldsRow, DeleteHolds, Deletes,
       JobsKnown, RequestHolds
  <2>3. DeleteJobs /\ SweepHolds /\ UniqueNames
    BY <2>1 DEF DeleteJobs, SweepHolds, UniqueNames, OfGateway
  <2>. QED  BY <2>2, <2>3 DEF DInv
<1>2. /\ IInv /\ CreateJobExists /\ PInv /\ DInv
      /\ [Next]_vars /\ [InsertsNewIds]_vars /\ [CommitNotLocked]_vars
      => DInv'
  BY DInvStep DEF Gentle
<1>3. Spec /\ IdsNotReused => []PInv
  BY PInvHolds
<1>. QED  BY <1>1, <1>2, <1>3, IInvHolds, AlwaysACreateJob, PTL DEF Spec, IdsNotReused, CompletionsRecorded

\* resume_incomplete_deletions finds every DELETING gateway: one that was READY when
\* its deletion was asked for keeps an open delete job, its latest, until it has gone
\* or its deletion has failed.
THEOREM DeletingIsResumed ==
    ASSUME NobodyRetries, DeletedWhenReady
    PROVE  Spec /\ IdsNotReused /\ CompletionsRecorded => []DeletingRecoverable
<1>1. DInv => DeletingRecoverable
  <2> SUFFICES ASSUME DInv, NEW g \in LiveGateways, gateway[g].status = "deleting"
               PROVE  StatusOfJob(LatestJob(g, "delete")) \in {"pending", "running", Absent}
    BY DEF DeletingRecoverable
  <2>1. PICK j : IsLatest(j, g, "delete") /\ OfGateway(j, g, "delete") /\ IsOpen(job[j].status)
    BY DeletingJobIsFound
  <2>2. j \in JobId /\ j # 0
    BY <2>1, BoundsAssumption DEF OfGateway, LiveJobs, JobId
  <2>3. LatestJob(g, "delete") = j
    BY <2>1, <2>2, LatestIsFound
  <2>. QED  BY <2>1, <2>2, <2>3 DEF StatusOfJob, IsOpen
<1>2. Spec /\ IdsNotReused /\ CompletionsRecorded => [](PInv /\ DInv /\ CreateJobExists)
  BY DInvHolds
<1>. QED  BY <1>1, <1>2, PTL

-----------------------------------------------------------------------------
(* Gateways that are deleted when READY: every step is one of the promise *)

\* What the promise sees of a step that writes no gateway, of one that writes a
\* status, and of one that creates or destroys the VM of a gateway.
LEMMA NothingSeen ==
    ASSUME GatewaysStay, vm' = vm
    PROVE  UNCHANGED Promise!vars
<1>1. Statuses' = Statuses
  BY DEF GatewaysStay, Statuses
<1>2. Served' = Served
  BY DEF GatewaysStay, Served, LiveGateways
<1>. QED  BY <1>1, <1>2 DEF Promise!vars

LEMMA StatusSeen ==
    ASSUME NEW g \in GatewayId, NEW from, NEW to,
           gateway[g].status \in from, gateway[g].status # Absent, to # Absent,
           GatewayBecomes(g, to), vm' = vm
    PROVE  Promise!Becomes(g, from, to) /\ Served' = Served
<1>1. Statuses[g] = gateway[g].status
  BY DEF Statuses
<1>2. Statuses' = [Statuses EXCEPT ![g] = to]
  BY DEF GatewayBecomes, Statuses
<1>3. Served' = Served
  BY DEF GatewayBecomes, Served, LiveGateways
<1>. QED  BY <1>1, <1>2, <1>3 DEF Promise!Becomes

LEMMA SameStatusSeen ==
    ASSUME NEW g \in GatewayId, GatewayBecomes(g, gateway[g].status), vm' = vm
    PROVE  UNCHANGED Promise!vars
<1>1. Statuses' = Statuses
  BY DEF GatewayBecomes, Statuses
<1>2. Served' = Served
  BY DEF GatewayBecomes, Served, LiveGateways
<1>. QED  BY <1>1, <1>2 DEF Promise!vars

LEMMA VmSeen ==
    ASSUME UniqueNames, NEW g \in LiveGateways, GatewaysStay
    PROVE  /\ Statuses' = Statuses
           /\ vm' = vm \cup {gateway[g].name} => Served' = Served \cup {g}
           /\ vm' = vm \ {gateway[g].name} => Served' = Served \ {g}
<1>1. Statuses' = Statuses
  BY DEF GatewaysStay, Statuses
<1>2. /\ LiveGateways' = LiveGateways
      /\ \A h \in LiveGateways : gateway'[h].name = gateway[h].name
  BY DEF GatewaysStay, LiveGateways
<1>3. \A h \in LiveGateways : gateway[h].name = gateway[g].name <=> h = g
  BY DEF UniqueNames
<1>. QED  BY <1>1, <1>2, <1>3 DEF Served

PromiseStep == Promise!Next \/ UNCHANGED Promise!vars

\* A gateway that needs provisioning is PENDING from now on.
LEMMA RequeueSeen ==
    ASSUME NEW g \in GatewayId, gateway[g].status \in NeedsProvisioning,
           GatewayBecomes(g, "pending"), vm' = vm
    PROVE  PromiseStep
<1>1. CASE gateway[g].status = "pending"
  BY <1>1, SameStatusSeen DEF PromiseStep
<1>2. CASE gateway[g].status \in {"provisioning", "error"}
  <2>1. gateway[g].status # Absent /\ "pending" # Absent
    BY <1>2 DEF Absent
  <2>2. Promise!Requeue(g)
    BY <1>2, <2>1, StatusSeen DEF Promise!Requeue
  <2>. QED  BY <2>2 DEF PromiseStep, Promise!Next
<1>. QED  BY <1>1, <1>2 DEF NeedsProvisioning

LEMMA ProvisionKeepsPromise ==
    ASSUME IInv, DInv, NEW t \in Threads, ProvisionMoves(t)
    PROVE  PromiseStep
<1> DEFINE g == thread[t].gateway
           pc == thread[t].pc
<1>0. pc # "idle" /\ g \in GatewayId /\ HoldsRow(t) /\ UniqueNames
  BY DEF ProvisionMoves, IInv, ThreadsInv, DInv, ProvisionHolds
<1>1. CASE GatewaysStay /\ vm' = vm
  BY <1>1, NothingSeen DEF PromiseStep
<1>2. CASE pc = "status" /\ GatewayBecomes(g, "provisioning") /\ vm' = vm
  <2>1. gateway[g].status \in NeedsProvisioning
    BY <1>0, <1>2 DEF HoldsRow
  <2>2. CASE gateway[g].status = "provisioning"
    BY <1>0, <1>2, <2>2, SameStatusSeen DEF PromiseStep
  <2>3. CASE gateway[g].status \in {"pending", "error"}
    <3>1. gateway[g].status # Absent /\ "provisioning" # Absent
      BY <2>3 DEF Absent
    <3> HIDE DEF g, pc
    <3>2. Promise!Becomes(g, {"pending", "error"}, "provisioning") /\ Served' = Served
      BY <1>0, <1>2, <2>3, <3>1, StatusSeen
    <3>3. Promise!Provision(g)
      BY <3>2 DEF Promise!Provision
    <3>. QED  BY <1>0, <3>3 DEF PromiseStep, Promise!Next
  <2>. QED  BY <2>1, <2>2, <2>3 DEF NeedsProvisioning
<1>3. CASE pc = "launch" /\ GatewaysStay /\ vm' = vm \cup {thread[t].name}
  <2>1. thread[t].name = gateway[g].name /\ gateway[g].status = "provisioning"
    BY <1>0, <1>3 DEF HoldsRow
  <2>2. g \in LiveGateways
    BY <1>0, <2>1 DEF LiveGateways, Absent
  <2>3. Statuses' = Statuses /\ Served' = Served \cup {g}
    BY <1>0, <1>3, <2>1, <2>2, VmSeen
  <2>4. Promise!Launch(g)
    BY <1>0, <2>1, <2>3 DEF Promise!Launch, Statuses
  <2>. QED  BY <1>0, <2>4 DEF PromiseStep, Promise!Next
<1>4. CASE /\ pc \in {"poll", "register", "fail"} /\ gateway[g].status # Absent
           /\ GatewayBecomes(g, "error") /\ vm' = vm
  <2>1. gateway[g].status \in {"provisioning"} /\ "error" # Absent
    BY <1>0, <1>4 DEF HoldsRow, Absent
  <2>2. Promise!Fail(g)
    BY <1>0, <1>4, <2>1, StatusSeen DEF Promise!Fail
  <2>. QED  BY <1>0, <2>2 DEF PromiseStep, Promise!Next
<1>5. CASE /\ pc = "register" /\ gateway[g].status # Absent
           /\ GatewayBecomes(g, "ready") /\ vm' = vm
  <2>1. gateway[g].status \in {"provisioning"} /\ "ready" # Absent /\ gateway[g].name \in vm
    BY <1>0, <1>5 DEF HoldsRow, Absent
  <2>2. g \in Served
    BY <1>0, <1>5, <2>1 DEF Served, LiveGateways
  <2>3. Promise!Ready(g)
    BY <1>0, <1>5, <2>1, <2>2, StatusSeen DEF Promise!Ready
  <2>. QED  BY <1>0, <2>3 DEF PromiseStep, Promise!Next
<1>. QED  BY <1>1, <1>2, <1>3, <1>4, <1>5 DEF ProvisionMoves

LEMMA DeleteKeepsPromise ==
    ASSUME IInv, DInv, NEW t \in Threads, DeleteMoves(t)
    PROVE  PromiseStep
<1> DEFINE g == thread[t].gateway
           pc == thread[t].pc
<1>0. g \in GatewayId /\ UniqueNames
  BY DEF DeleteMoves, IInv, ThreadsInv, DInv
<1>1. pc \in {"execute", "fail"} => gateway[g].status = "deleting" /\ g \in LiveGateways
  <2>1. pc \in {"execute", "fail"} => gateway[g].status = "deleting"
    BY DEF DeleteMoves, DInv, DeleteHolds, Deletes, HoldsJob
  <2>. QED  BY <1>0, <2>1 DEF LiveGateways, Absent
<1>2. CASE GatewaysStay /\ vm' = vm
  BY <1>2, NothingSeen DEF PromiseStep
<1>3. CASE pc = "execute" /\ GatewaysStay /\ vm' = vm \ {gateway[g].name}
  <2>1. Statuses' = Statuses /\ Served' = Served \ {g}
    BY <1>0, <1>1, <1>3, VmSeen
  <2>2. Promise!Destroy(g)
    BY <1>0, <1>1, <1>3, <2>1 DEF Promise!Destroy, Statuses
  <2>. QED  BY <1>0, <2>2 DEF PromiseStep, Promise!Next
<1>4. CASE pc = "fail" /\ GatewayBecomes(g, "error") /\ vm' = vm
  <2>1. gateway[g].status \in {"deleting"} /\ gateway[g].status # Absent /\ "error" # Absent
    BY <1>1, <1>4 DEF Absent
  <2>2. Promise!FailDelete(g)
    BY <1>0, <1>4, <2>1, StatusSeen DEF Promise!FailDelete
  <2>. QED  BY <1>0, <2>2 DEF PromiseStep, Promise!Next
<1>. QED  BY <1>2, <1>3, <1>4 DEF DeleteMoves

LEMMA RemoveKeepsPromise ==
    ASSUME IInv, DInv, NEW t \in Threads, DeleteRemove(t)
    PROVE  PromiseStep
<1>. PICK g : g = thread[t].gateway
  OBVIOUS
<1>1. /\ gateway' = [gateway EXCEPT ![g] = NoGateway] /\ vm' = vm
      /\ thread[t].kind = "delete" /\ thread[t].pc = "remove"
  BY DEF DeleteRemove, At
<1>2. g \in GatewayId /\ gateway[g].status = "deleting"
  BY <1>1 DEF IInv, ThreadsInv, DInv, DeleteHolds, Deletes, HoldsJob
<1>3. \A h \in GatewayId : gateway'[h] = IF h = g THEN NoGateway ELSE gateway[h]
  BY <1>1 DEF IInv, RowsInv
<1>4. NoGateway.status = "absent"
  BY DEF NoGateway, Absent
<1>5. Statuses' = [Statuses EXCEPT ![g] = "absent"]
  BY <1>3, <1>4 DEF Statuses
<1>6. Served' = Served \ {g}
  BY <1>1, <1>3, <1>4 DEF Served, LiveGateways, Absent
<1>7. Promise!Becomes(g, {"deleting"}, "absent")
  BY <1>2, <1>5 DEF Promise!Becomes, Statuses
<1>8. Promise!Remove(g)
  BY <1>6, <1>7 DEF Promise!Remove
<1>. QED  BY <1>2, <1>8 DEF PromiseStep, Promise!Next

LEMMA CreateKeepsPromise ==
    ASSUME IInv, InsertsNewIds, NEW name \in Names, CreateGateway(name)
    PROVE  PromiseStep
<1>. PICK g : g = NextId(LiveGateways, GatewayId)
  OBVIOUS
<1>1. /\ g \in GatewayId /\ gateway[g].status = Absent
      /\ gateway'[g] = [status |-> "pending", name |-> name]
      /\ \A h \in GatewayId : h # g => gateway'[h] = gateway[h]
      /\ vm' = vm
  BY CreateEffect
<1>11. gateway'[g].status = "pending" /\ gateway'[g].name = name
  BY <1>1
<1>2. Statuses' = [Statuses EXCEPT ![g] = "pending"]
  BY <1>1, <1>11 DEF Statuses
<1>3. Served' \in {Served, Served \cup {g}}
  <2>1. LiveGateways' = LiveGateways \cup {g} /\ g \notin LiveGateways
    BY <1>1, <1>11 DEF LiveGateways, Absent
  <2>2. \A h \in LiveGateways : gateway'[h].name = gateway[h].name
    BY <1>1, <2>1 DEF LiveGateways
  <2>3. CASE name \in vm
    <3>1. Served' = Served \cup {g}
      BY <1>1, <1>11, <2>1, <2>2, <2>3 DEF Served
    <3>. QED  BY <3>1
  <2>4. CASE name \notin vm
    <3>1. Served' = Served
      BY <1>1, <1>11, <2>1, <2>2, <2>4 DEF Served
    <3>. QED  BY <3>1
  <2>. QED  BY <2>3, <2>4
<1>4. Promise!Becomes(g, {"absent"}, "pending")
  BY <1>1, <1>2 DEF Promise!Becomes, Statuses, Absent
<1>5. Promise!Create(g)
  BY <1>3, <1>4 DEF Promise!Create
<1>. QED  BY <1>1, <1>5 DEF PromiseStep, Promise!Next

LEMMA RequestsKeepPromise ==
    ASSUME IInv, PInv, DInv, InsertsNewIds, NEW r \in Requests, RequestBegins(r) \/ RequestStep(r)
    PROVE  PromiseStep
<1>1. CASE DeleteCommit(r)
  <2>. PICK g : g = request[r].gateway
    OBVIOUS
  <2>1. /\ g \in GatewayId /\ vm' = vm /\ request[r].op = "delete"
        /\ GatewaysStay \/ GatewayBecomes(g, "deleting")
    BY <1>1, CommitEffect
  <2>2. CASE GatewaysStay
    BY <2>1, <2>2, NothingSeen DEF PromiseStep
  <2>3. CASE GatewayBecomes(g, "deleting")
    <3>1. gateway[g].status \in {"ready"} /\ gateway[g].status # Absent /\ "deleting" # Absent
      BY <2>1 DEF DInv, RequestHolds, Absent
    <3>2. Promise!RequestDelete(g)
      BY <2>1, <2>3, <3>1, StatusSeen DEF Promise!RequestDelete
    <3>. QED  BY <2>1, <3>2 DEF PromiseStep, Promise!Next
  <2>. QED  BY <2>1, <2>2, <2>3
<1>2. CASE RequestBegins(r) \/ DeleteJoin(r) \/ DeleteStale(r) \/ RetryPick(r)
  <2>1. GatewaysStay /\ vm' = vm
    BY <1>2 DEF RequestBegins, DeleteRead, RetryRead, DeleteJoin, DeleteStale, RetryPick, GatewaysStay
  <2>. QED  BY <2>1, NothingSeen DEF PromiseStep
<1>3. ~RetryPrepare(r)
  BY DEF RetryPrepare, PInv, OwnJobs
<1>. QED  BY <1>1, <1>2, <1>3 DEF RequestStep

LEMMA SweepKeepsPromise ==
    ASSUME IInv, PInv, CreateJobExists, DInv, SweepStep
    PROVE  PromiseStep
<1>1. CASE GatewaysStay /\ vm' = vm
  BY <1>1, NothingSeen DEF PromiseStep
<1>2. ASSUME NEW g \in GatewayId, SweepProvision(g), ~GatewaysStay
      PROVE  PromiseStep
  <2>. PICK j : j = LatestJob(g, "create")
    OBVIOUS
  <2>. PICK seen : seen = SeenNow(g)
    OBVIOUS
  <2>1. /\ vm' = vm /\ g \notin active["provision"]
        /\ StatusOfJob(j) \in {"pending", "running", Absent}
    BY <1>2 DEF SweepProvision
  <2>2. /\ StatusOfJob(j) # "pending"
        /\ CanPrepare(g, Revives(seen, StatusOfJob(j)), j, Resets(StatusOfJob(j)))
        /\ Prepare(g, Revives(seen, StatusOfJob(j)), j, Resets(StatusOfJob(j)))
    <3>1. gateway' # gateway
      BY <1>2 DEF GatewaysStay
    <3>. QED  BY <1>2, <3>1 DEF SweepProvision
  <2>3. StatusOfJob(j) \in {"running", Absent}
    BY <2>1, <2>2
  <2>4. /\ g \in LiveGateways /\ OfGateway(j, g, "create") /\ IsOpen(job[j].status)
        /\ seen = "error" /\ GatewayBecomes(g, "pending")
    BY <1>2, <2>2, <2>3, SweepPrepares
  <2>5. gateway[g].status \in NeedsProvisioning
    BY <2>1, <2>4, BelievedErrorNeedsProvisioning
  <2>. QED  BY <2>1, <2>4, <2>5, RequeueSeen
<1>3. CASE \/ SweepBegin \/ SweepTurn \/ SweepEnd
           \/ \E g \in GatewayId : SweepRaises(g) \/ SweepSkip(g) \/ SweepDelete(g)
  <2>1. GatewaysStay /\ vm' = vm
    BY <1>3 DEF SweepBegin, SweepTurn, SweepEnd, SweepRaises, SweepSkip, SweepDelete, GatewaysStay
  <2>. QED  BY <1>1, <2>1
<1>4. ASSUME NEW g \in GatewayId, SweepProvision(g)
      PROVE  vm' = vm
  BY <1>4 DEF SweepProvision
<1>. QED  BY <1>1, <1>2, <1>3, <1>4 DEF SweepStep

LEMMA EveryStepKeepsPromise ==
    ASSUME NobodyRetries, DeletedWhenReady, IInv, CreateJobExists, PInv, DInv,
           [Next]_vars, [InsertsNewIds]_vars
    PROVE  [Promise!Next]_(Promise!vars)
<1>1. CASE UNCHANGED vars
  BY <1>1, NothingSeen DEF vars, GatewaysStay
<1>2. ASSUME NEW t \in Threads, ThreadStep(t) \/ ThreadLocked(t)
      PROVE  PromiseStep
  <2>1. CASE ProvisionStep(t) /\ ~ProvisionPrepare(t)
    BY <2>1, ProvisionTable, ProvisionKeepsPromise
  <2>2. CASE ProvisionPrepare(t)
    <3>. PICK g : g = thread[t].gateway
      OBVIOUS
    <3>1. PrepareMoves(t)
      BY <2>2, PrepareTable
    <3>2. /\ g \in GatewayId /\ gateway[g].status \in NeedsProvisioning /\ vm' = vm
          /\ GatewayBecomes(g, "pending") \/ GatewaysStay
      BY <3>1 DEF PrepareMoves, LiveGateways
    <3>. QED  BY <3>2, RequeueSeen, NothingSeen DEF PromiseStep
  <2>3. CASE DeleteStep(t) /\ ~DeleteRemove(t)
    BY <2>3, DeleteTable, DeleteKeepsPromise
  <2>4. CASE DeleteRemove(t)
    BY <2>4, RemoveKeepsPromise
  <2>5. CASE ThreadLocked(t) \/ ThreadExit(t)
    <3>1. GatewaysStay /\ vm' = vm
      BY <2>5 DEF ThreadLocked, ThreadExit, GatewaysStay
    <3>. QED  BY <3>1, NothingSeen DEF PromiseStep
  <2>. QED  BY <1>2, <2>1, <2>2, <2>3, <2>4, <2>5 DEF ThreadStep
<1>3. CASE Crash \/ \E j \in JobId : Age(j)
  <2>1. GatewaysStay /\ vm' = vm
    BY <1>3 DEF Crash, Age, GatewaysStay
  <2>. QED  BY <2>1, NothingSeen DEF PromiseStep
<1>4. CASE Next /\ InsertsNewIds
  <2>1. CASE \E name \in Names : CreateGateway(name)
    BY <1>4, <2>1, CreateKeepsPromise DEF PromiseStep
  <2>2. CASE \E r \in Requests : RequestBegins(r) \/ RequestStep(r)
    BY <1>4, <2>2, RequestsKeepPromise DEF PromiseStep
  <2>3. CASE SweepStep
    BY <2>3, SweepKeepsPromise DEF PromiseStep
  <2>4. CASE \E t \in Threads : ThreadStep(t) \/ ThreadLocked(t)
    BY <1>2, <2>4 DEF PromiseStep
  <2>5. CASE Crash \/ \E j \in JobId : Age(j)
    BY <1>3, <2>5 DEF PromiseStep
  <2>. QED  BY <1>4, <2>1, <2>2, <2>3, <2>4, <2>5 DEF Next
<1>5. UNCHANGED vars \/ (Next /\ InsertsNewIds)
  OBVIOUS
<1>. QED  BY <1>1, <1>4, <1>5

\* The jobs, threads, requests, crashes and sweeps of the control plane do to a
\* gateway what GatewayPromise says, where gateways are deleted when READY: its
\* statuses in their order, READY only with a VM of its own, and DELETING left by
\* the end of the deletion or its failure.
THEOREM KeepsPromise ==
    ASSUME NobodyRetries, DeletedWhenReady
    PROVE  Spec /\ IdsNotReused /\ CompletionsRecorded => Promise!Init /\ [][Promise!Next]_(Promise!vars)
<1>1. Init => Promise!Init
  BY DEF Init, Promise!Init, Statuses, Served, LiveGateways, NoGateway, Absent
<1>2. /\ IInv /\ CreateJobExists /\ PInv /\ DInv /\ [Next]_vars /\ [InsertsNewIds]_vars
      => [Promise!Next]_(Promise!vars)
  BY EveryStepKeepsPromise
<1>3. Spec /\ IdsNotReused /\ CompletionsRecorded => [](PInv /\ DInv /\ CreateJobExists)
  BY DInvHolds
<1>. QED  BY <1>1, <1>2, <1>3, IInvHolds, PTL DEF Spec, IdsNotReused

=============================================================================
