---------------------- MODULE GatewayLifecycle_proofs ----------------------
(***************************************************************************)
(* Proofs about GatewayLifecycle, for every value of its constants:        *)
(*   TypeCorrect        Spec => []TypeOK                                   *)
(*   NeverTwoThreads    Spec => []OneThreadPerGateway                      *)
(*   ActiveAlwaysExact  Spec => []ActiveIsExact                            *)
(*   AlwaysACreateJob   Spec => []CreateJobExists                          *)
(*                                                                         *)
(* None of them is inductive by itself.  IInv adds that a live handler      *)
(* names a gateway and that a thread about to call Incus knows a VM's name: *)
(* without it a handler that names no gateway could write a row of the      *)
(* wrong type.  CreateJobExists follows from IInv and one fact about each   *)
(* action: a job row only goes together with the gateway it belongs to, and *)
(* no row changes its gateway or its type while it exists.                  *)
(***************************************************************************)
EXTENDS GatewayLifecycle, TLAPS

\* The rows of the database and the VMs.
RowsInv ==
    /\ gateway \in [GatewayId -> GatewayRow]
    /\ job \in [JobId -> JobRow]
    /\ vm \subseteq Names

\* The threads, and the active sets that mirror them.
ThreadsInv ==
    /\ thread \in [Threads -> ThreadState]
    /\ active \in [ThreadKind -> SUBSET GatewayId]
    /\ \A t \in Threads : thread[t].pc # "idle" => thread[t].gateway \in GatewayId
    /\ \A t \in Threads : thread[t].pc \in {"launch", "poll"} => thread[t].name \in Names
    /\ ActiveIsExact
    /\ OneThreadPerGateway

\* The requests, the sweep and the bounds.
HandlersInv ==
    /\ request \in [Requests -> RequestState]
    /\ \A r \in Requests : request[r].op # "idle" => request[r].gateway \in GatewayId
    /\ sweep \in SweepState
    /\ created \in 0..MaxCreates
    /\ faults \in 0..MaxFaults

IInv == RowsInv /\ ThreadsInv /\ HandlersInv

-----------------------------------------------------------------------------
(* Lookups *)

\* The next id, if the bound allows one, is an id that no live row has
\* (the INTEGER PRIMARY KEY of both tables).
LEMMA NextIdFresh ==
    ASSUME NEW live, NEW ids, NextId(live, ids) # 0
    PROVE  NextId(live, ids) \in ids /\ \A i \in live : i < NextId(live, ids)
<1>1. \E n \in ids : IsNextId(n, live)
  BY DEF NextId
<1>2. IsNextId(CHOOSE n \in ids : IsNextId(n, live), live)
  BY <1>1
<1>. QED  BY <1>1, <1>2 DEF NextId, IsNextId

\* get_latest_create_job and get_latest_delete_job return a live job of that
\* gateway and type, or none.
LEMMA LatestJobLive ==
    ASSUME NEW g, NEW type, LatestJob(g, type) # 0
    PROVE  LatestJob(g, type) \in JobsOf(g, type)
<1>1. \E j \in JobId : IsLatest(j, g, type)
  BY DEF LatestJob
<1>2. IsLatest(CHOOSE j \in JobId : IsLatest(j, g, type), g, type)
  BY <1>1
<1>. QED  BY <1>1, <1>2 DEF LatestJob, IsLatest

\* get_pending_for_gateway returns a job id, or none.
LEMMA PendingJobId ==
    ASSUME NEW g, NEW jobs
    PROVE  PendingJob(g, jobs) \in JobId \cup {0}
  BY DEF PendingJob

\* 0 is the id of no job.
LEMMA LatestJobId ==
    ASSUME NEW g, NEW type
    PROVE  LatestJob(g, type) \in JobId \cup {0}
  BY LatestJobLive DEF JobsOf, LiveJobs

-----------------------------------------------------------------------------
(* Writes to the job rows *)

\* Writing the status of a row that is there keeps the table well typed.
LEMMA WriteJob ==
    ASSUME NEW jobs \in [JobId -> JobRow], NEW j, NEW status \in JobStatus,
           j \in JobId => jobs[j].status # Absent
    PROVE  WithJobStatus(jobs, j, status) \in [JobId -> JobRow]
<1>1. ASSUME NEW k \in JobId PROVE WithJobStatus(jobs, j, status)[k] \in JobRow
  <2>1. CASE k # j
    BY <2>1 DEF WithJobStatus
  <2>2. CASE k = j
    <3>1. jobs[k] \in [type : JobType, gateway : GatewayId, status : JobStatus, stale : BOOLEAN]
      BY <2>2 DEF JobRow, NoJob
    <3>2. WithJobStatus(jobs, j, status)[k] =
            [type |-> jobs[k].type, gateway |-> jobs[k].gateway,
             status |-> status, stale |-> FALSE]
      BY <2>2, <3>1 DEF WithJobStatus
    <3>. QED  BY <3>1, <3>2 DEF JobRow
  <2>. QED  BY <2>1, <2>2
<1>. QED  BY <1>1 DEF WithJobStatus

\* set_provision_stage keeps the table well typed, row or no row.
LEMMA TouchJob ==
    ASSUME NEW jobs \in [JobId -> JobRow], NEW j
    PROVE  Touched(jobs, j) \in [JobId -> JobRow]
<1>1. ASSUME NEW k \in JobId PROVE Touched(jobs, j)[k] \in JobRow
  <2>1. CASE k # j
    BY <2>1 DEF Touched
  <2>2. CASE k = j /\ jobs[k] = NoJob
    <3>1. Touched(jobs, j)[k] = [NoJob EXCEPT !.stale = FALSE]
      BY <2>2 DEF Touched
    <3>. QED  BY <3>1 DEF NoJob, JobRow
  <2>3. CASE k = j /\ jobs[k] # NoJob
    BY <2>3 DEF Touched, JobRow
  <2>. QED  BY <2>1, <2>2, <2>3
<1>. QED  BY <1>1 DEF Touched

\* A new pending job of a gateway is well typed.
LEMMA InsertJob ==
    ASSUME NEW jobs \in [JobId -> JobRow], NEW j \in JobId,
           NEW type \in JobType, NEW g \in GatewayId
    PROVE  [jobs EXCEPT ![j] = NewJob(type, g)] \in [JobId -> JobRow]
  BY DEF NewJob, JobRow, JobStatus

\* Writing the status of a gateway's row that is there.
LEMMA WriteGateway ==
    ASSUME NEW gateways \in [GatewayId -> GatewayRow], NEW g \in GatewayId,
           NEW status \in GatewayStatus, gateways[g].status # Absent
    PROVE  [gateways EXCEPT ![g].status = status] \in [GatewayId -> GatewayRow]
<1>1. gateways[g] \in [status : GatewayStatus, name : Names]
  BY DEF GatewayRow, NoGateway
<1>. QED  BY <1>1 DEF GatewayRow

\* prepare_provisioning keeps both tables well typed.
LEMMA PrepareRows ==
    ASSUME RowsInv, NEW g \in GatewayId, NEW revives, NEW j \in JobId \cup {0}, NEW resets,
           CanPrepare(g, revives, j, resets), Prepare(g, revives, j, resets),
           vm' = vm
    PROVE  RowsInv'
<1>1. gateway' \in [GatewayId -> GatewayRow]
  <2>1. CASE revives
    BY <2>1, WriteGateway DEF CanPrepare, Prepare, RowsInv, GatewayStatus
  <2>2. CASE ~revives
    BY <2>2 DEF Prepare, RowsInv
  <2>. QED  BY <2>1, <2>2
<1>2. job' \in [JobId -> JobRow]
  <2>1. CASE resets
    <3>1. j \in JobId => job[j].status # Absent
      BY <2>1 DEF CanPrepare
    <3>. QED  BY <2>1, <3>1, WriteJob DEF Prepare, RowsInv, JobStatus
  <2>2. CASE ~resets /\ j = 0
    BY <2>2, InsertJob, NextIdFresh DEF CanPrepare, Prepare, RowsInv, JobType
  <2>3. CASE ~resets /\ j # 0
    BY <2>3 DEF Prepare, RowsInv
  <2>. QED  BY <2>1, <2>2, <2>3
<1>. QED  BY <1>1, <1>2 DEF RowsInv

-----------------------------------------------------------------------------
(* What a step may do to the threads *)

\* A live thread that goes on, and keeps its kind and gateway, is still what it
\* was to the active sets.
LEMMA MoveKeepsThreads ==
    ASSUME ThreadsInv, NEW t \in Threads, thread[t].pc # "idle",
           NEW r \in ThreadState, r.kind = thread[t].kind, r.gateway = thread[t].gateway,
           r.pc # "idle", r.pc \in {"launch", "poll"} => r.name \in Names,
           thread' = [thread EXCEPT ![t] = r], active' = active
    PROVE  ThreadsInv'
<1>1. thread' \in [Threads -> ThreadState]
  BY DEF ThreadsInv
<1>2. \A u \in Threads : thread'[u] = IF u = t THEN r ELSE thread[u]
  BY DEF ThreadsInv
<1>3. \A u \in Threads, kind \in ThreadKind, g \in GatewayId :
        Runs(u, kind, g)' <=> Runs(u, kind, g)
  BY <1>2 DEF Runs
<1>4. ActiveIsExact' /\ OneThreadPerGateway'
  BY <1>3 DEF ThreadsInv, ActiveIsExact, OneThreadPerGateway
<1>5. \A u \in Threads : thread'[u].pc # "idle" => thread'[u].gateway \in GatewayId
  BY <1>2 DEF ThreadsInv
<1>6. \A u \in Threads : thread'[u].pc \in {"launch", "poll"} => thread'[u].name \in Names
  BY <1>2 DEF ThreadsInv
<1>. QED  BY <1>1, <1>4, <1>5, <1>6 DEF ThreadsInv

\* Goto is such a move.
LEMMA GotoKeepsThreads ==
    ASSUME ThreadsInv, NEW t \in Threads, NEW pc \in ThreadPc \ {"idle", "launch"},
           thread[t].pc # "idle",
           pc = "poll" => thread[t].pc \in {"launch", "poll"},
           Goto(t, pc), active' = active
    PROVE  ThreadsInv'
<1> DEFINE moved == [kind |-> thread[t].kind, pc |-> pc, gateway |-> thread[t].gateway,
                     job |-> IF pc = "exit" THEN 0 ELSE thread[t].job,
                     name |-> IF pc = "poll" THEN thread[t].name ELSE NoName]
<1>1. thread[t] \in ThreadState
  BY DEF ThreadsInv
<1>2. thread' = [thread EXCEPT ![t].pc = pc,
                               ![t].job = IF pc = "exit" THEN 0 ELSE @,
                               ![t].name = IF pc = "poll" THEN @ ELSE NoName]
  BY DEF Goto
<1>3. thread' = [thread EXCEPT ![t] = moved]
  <2>1. thread'[t] = moved
    BY <1>1, <1>2 DEF ThreadState, ThreadsInv
  <2>2. \A u \in Threads : u # t => thread'[u] = thread[u]
    BY <1>2 DEF ThreadsInv
  <2>3. thread' = [u \in Threads |-> thread'[u]]
    BY <1>2 DEF ThreadsInv
  <2> HIDE DEF moved
  <2>. QED  BY <2>1, <2>2, <2>3 DEF ThreadsInv
<1>4. moved \in ThreadState
  BY <1>1 DEF ThreadState
<1>5. pc = "poll" => moved.name \in Names
  BY DEF ThreadsInv
<1>. QED  BY <1>3, <1>4, <1>5, MoveKeepsThreads

\* start_provisioning and start_deletion: the check of the active set is what
\* keeps two threads of a kind off one gateway.
LEMMA StartKeepsThreads ==
    ASSUME ThreadsInv, NEW kind \in ThreadKind, NEW g \in GatewayId,
           NEW j \in JobId \cup {0}, Start(kind, g, j)
    PROVE  ThreadsInv'
<1>1. CASE UNCHANGED <<active, thread>>
  BY <1>1 DEF ThreadsInv, ActiveIsExact, OneThreadPerGateway, Runs
<1>2. CASE /\ g \notin active[kind]
           /\ active' = [active EXCEPT ![kind] = @ \cup {g}]
           /\ \E t \in Threads :
                /\ thread[t].pc = "idle"
                /\ thread' = [thread EXCEPT ![t] =
                     [kind |-> kind, pc |-> "once", gateway |-> g, job |-> j, name |-> NoName]]
  <2>1. PICK t \in Threads :
          /\ thread[t].pc = "idle"
          /\ thread' = [thread EXCEPT ![t] =
               [kind |-> kind, pc |-> "once", gateway |-> g, job |-> j, name |-> NoName]]
    BY <1>2
  <2>2. thread' \in [Threads -> ThreadState]
    BY <2>1 DEF ThreadsInv, ThreadState, ThreadPc
  <2>3. active' \in [ThreadKind -> SUBSET GatewayId]
    BY <1>2 DEF ThreadsInv
  <2>4. \A u \in Threads : thread'[u] = IF u = t
            THEN [kind |-> kind, pc |-> "once", gateway |-> g, job |-> j, name |-> NoName]
            ELSE thread[u]
    BY <2>1 DEF ThreadsInv
  <2>5. \A u \in Threads, k \in ThreadKind, h \in GatewayId :
          Runs(u, k, h)' <=> (Runs(u, k, h) \/ (u = t /\ k = kind /\ h = g))
    BY <2>1, <2>4 DEF Runs
  <2>6. \A k \in ThreadKind, h \in GatewayId :
          h \in active'[k] <=> (h \in active[k] \/ (k = kind /\ h = g))
    BY <1>2 DEF ThreadsInv
  <2>7. ActiveIsExact'
    BY <2>5, <2>6 DEF ThreadsInv, ActiveIsExact
  <2>8. \A u \in Threads : ~Runs(u, kind, g)
    BY <1>2 DEF ThreadsInv, ActiveIsExact
  <2>9. OneThreadPerGateway'
    BY <2>5, <2>8 DEF ThreadsInv, OneThreadPerGateway
  <2>10. \A u \in Threads : thread'[u].pc # "idle" => thread'[u].gateway \in GatewayId
    BY <2>4 DEF ThreadsInv
  <2>11. \A u \in Threads : thread'[u].pc \in {"launch", "poll"} => thread'[u].name \in Names
    BY <2>4 DEF ThreadsInv
  <2>. QED  BY <2>2, <2>3, <2>7, <2>9, <2>10, <2>11 DEF ThreadsInv
<1>. QED  BY <1>1, <1>2 DEF Start

\* The finally clause takes the gateway out of the active set; no other thread
\* of the kind is on it, so the set stays exact.
LEMMA ExitKeepsThreads ==
    ASSUME ThreadsInv, NEW t \in Threads, ThreadExit(t)
    PROVE  ThreadsInv'
<1> DEFINE kind == thread[t].kind
           g == thread[t].gateway
<1>1. kind \in ThreadKind /\ g \in GatewayId /\ Runs(t, kind, g)
  BY DEF ThreadsInv, ThreadState, ThreadExit, Runs
<1>2. thread' \in [Threads -> ThreadState] /\ active' \in [ThreadKind -> SUBSET GatewayId]
  BY DEF ThreadsInv, ThreadState, ThreadExit, IdleThread, ThreadKind, ThreadPc
<1>3. \A u \in Threads : thread'[u] = IF u = t THEN IdleThread ELSE thread[u]
  BY DEF ThreadsInv, ThreadExit
<1>4. \A u \in Threads, k \in ThreadKind, h \in GatewayId :
        Runs(u, k, h)' <=> (Runs(u, k, h) /\ u # t)
  BY <1>3 DEF Runs, IdleThread
<1>5. \A k \in ThreadKind, h \in GatewayId :
        h \in active'[k] <=> (h \in active[k] /\ ~(k = kind /\ h = g))
  BY DEF ThreadsInv, ThreadExit
<1>6. \A u \in Threads, k \in ThreadKind, h \in GatewayId :
        Runs(u, k, h) /\ ~(k = kind /\ h = g) => u # t
  BY DEF Runs
<1>7. \A u \in Threads : Runs(u, kind, g) => u = t
  BY <1>1 DEF ThreadsInv, OneThreadPerGateway
<1>8. ActiveIsExact'
  BY <1>4, <1>5, <1>6, <1>7 DEF ThreadsInv, ActiveIsExact
<1>9. OneThreadPerGateway'
  BY <1>4 DEF ThreadsInv, OneThreadPerGateway
<1>10. \A u \in Threads : thread'[u].pc # "idle" => thread'[u].gateway \in GatewayId
  BY <1>3 DEF ThreadsInv, IdleThread
<1>11. \A u \in Threads : thread'[u].pc \in {"launch", "poll"} => thread'[u].name \in Names
  BY <1>3 DEF ThreadsInv, IdleThread
<1>. QED  BY <1>2, <1>8, <1>9, <1>10, <1>11 DEF ThreadsInv

\* Every step of the specification keeps the threads and the active sets in
\* step with each other.
LEMMA ThreadsKept ==
    ASSUME IInv, [Next]_vars
    PROVE  ThreadsInv'
<1>0. ThreadsInv /\ RowsInv /\ HandlersInv
  BY DEF IInv
<1>1. ASSUME NEW t \in Threads, ProvisionStep(t)
      PROVE  ThreadsInv'
  <2>0. /\ thread[t].pc # "idle"
        /\ thread[t] \in ThreadState
        /\ thread[t].pc \in {"launch", "poll"} => thread[t].name \in Names
    BY <1>0, <1>1 DEF ThreadsInv, ProvisionStep, At, ProvisionSkip, ProvisionQueue,
         ProvisionPrepare, ProvisionProcess, ProvisionStatus, ProvisionLaunch,
         ProvisionLaunchFails, ProvisionTimeout, ProvisionHealthy, ProvisionRegisterFails,
         ProvisionFinalizeFails, ProvisionReady, ProvisionComplete, ProvisionFail
  <2>1. CASE ProvisionPrepare(t)
    <3> DEFINE r == [thread[t] EXCEPT !.pc = "process",
                                      !.job = PendingJob(thread[t].gateway, job')]
    <3>1. r \in ThreadState /\ r.kind = thread[t].kind /\ r.gateway = thread[t].gateway
          /\ r.pc = "process"
      BY <2>0, PendingJobId DEF ThreadState, ThreadPc
    <3>2. thread' = [thread EXCEPT ![t] = r] /\ active' = active
      BY <1>0, <2>0, <2>1 DEF ProvisionPrepare, ThreadState, ThreadsInv
    <3> HIDE DEF r
    <3>. QED  BY <1>0, <2>0, <3>1, <3>2, MoveKeepsThreads
  <2>2. CASE ProvisionStatus(t) /\ gateway[thread[t].gateway].status # Absent
    <3> DEFINE r == [thread[t] EXCEPT !.pc = "launch",
                                      !.name = gateway[thread[t].gateway].name]
    <3>1. gateway[thread[t].gateway].name \in Names
      BY <1>0, <2>0, <2>2 DEF RowsInv, ThreadsInv, GatewayRow, NoGateway
    <3>2. r \in ThreadState /\ r.kind = thread[t].kind /\ r.gateway = thread[t].gateway
          /\ r.pc = "launch" /\ r.name \in Names
      BY <2>0, <3>1 DEF ThreadState, ThreadPc
    <3>3. thread' = [thread EXCEPT ![t] = r] /\ active' = active
      BY <1>0, <2>0, <2>2 DEF ProvisionStatus, ThreadState, ThreadsInv
    <3> HIDE DEF r
    <3>. QED  BY <1>0, <2>0, <3>2, <3>3, MoveKeepsThreads
  <2>3. CASE ~ProvisionPrepare(t) /\ ~(ProvisionStatus(t) /\ gateway[thread[t].gateway].status # Absent)
    <3>1. \E pc \in ThreadPc \ {"idle", "launch"} :
            /\ Goto(t, pc)
            /\ pc = "poll" => thread[t].pc \in {"launch", "poll"}
      BY <1>1, <2>3 DEF ProvisionStep, At, ThreadPc, WriteStatus, ProvisionSkip, ProvisionQueue,
           ProvisionProcess, ProvisionStatus, ProvisionLaunch,
           ProvisionLaunchFails, ProvisionTimeout, ProvisionHealthy, ProvisionRegisterFails,
           ProvisionFinalizeFails, ProvisionReady, ProvisionComplete, ProvisionFail
    <3>2. active' = active
      BY <1>1, <2>3 DEF ProvisionStep, ProvisionSkip, ProvisionQueue,
           ProvisionProcess, ProvisionStatus, ProvisionLaunch,
           ProvisionLaunchFails, ProvisionTimeout, ProvisionHealthy, ProvisionRegisterFails,
           ProvisionFinalizeFails, ProvisionReady, ProvisionComplete, ProvisionFail
    <3>. QED  BY <1>0, <2>0, <3>1, <3>2, GotoKeepsThreads
  <2>. QED  BY <2>1, <2>2, <2>3
<1>2. ASSUME NEW t \in Threads, DeleteStep(t)
      PROVE  ThreadsInv'
  <2>1. thread[t].pc # "idle"
    BY <1>2 DEF DeleteStep, At, DeleteGone, DeleteSkip, DeleteTake, DeleteProcess,
         DeleteExecute, DeleteExecuteFails, DeleteRemove, DeleteFail
  <2>2. \E pc \in ThreadPc \ {"idle", "launch", "poll"} : Goto(t, pc)
    BY <1>2 DEF DeleteStep, ThreadPc, DeleteGone, DeleteSkip, DeleteTake, DeleteProcess,
         DeleteExecute, DeleteExecuteFails, DeleteRemove, DeleteFail
  <2>3. active' = active
    BY <1>2 DEF DeleteStep, DeleteGone, DeleteSkip, DeleteTake, DeleteProcess,
         DeleteExecute, DeleteExecuteFails, DeleteRemove, DeleteFail
  <2>. QED  BY <1>0, <2>1, <2>2, <2>3, GotoKeepsThreads
<1>3. ASSUME NEW t \in Threads, ThreadExit(t)
      PROVE  ThreadsInv'
  BY <1>0, <1>3, ExitKeepsThreads
<1>4. ASSUME NEW t \in Threads, ThreadLocked(t)
      PROVE  ThreadsInv'
  <2>1. \E pc \in ThreadPc \ {"idle", "launch", "poll"} : Goto(t, pc)
    BY <1>4 DEF ThreadLocked, LockedPc, ThreadPc
  <2>. QED  BY <1>0, <1>4, <2>1, GotoKeepsThreads DEF ThreadLocked
<1>5. ASSUME NEW name \in Names, CreateGateway(name)
      PROVE  ThreadsInv'
  <2> DEFINE g == NextId(LiveGateways, GatewayId)
             j == NextId(LiveJobs, JobId)
  <2>1. g \in GatewayId /\ j \in JobId
    BY <1>5, NextIdFresh DEF CreateGateway
  <2>2. Start("provision", g, j)
    BY <1>5 DEF CreateGateway
  <2> HIDE DEF g, j
  <2>. QED  BY <1>0, <2>1, <2>2, StartKeepsThreads DEF ThreadKind
<1>6. ASSUME NEW r \in Requests, RequestStep(r) \/ RequestBegins(r)
      PROVE  ThreadsInv'
  <2>1. CASE UNCHANGED <<active, thread>>
    BY <1>0, <2>1 DEF ThreadsInv, ActiveIsExact, OneThreadPerGateway, Runs
  <2>2. CASE DeleteJoin(r)
    <3>1. request[r].gateway \in GatewayId /\ request[r].job \in JobId \cup {0}
      BY <1>0, <2>2 DEF HandlersInv, DeleteJoin, RequestState
    <3>. QED  BY <1>0, <2>2, <3>1, StartKeepsThreads DEF DeleteJoin, ThreadKind
  <2>3. CASE DeleteCommit(r) /\ ~UNCHANGED <<active, thread>>
    <3> DEFINE g == request[r].gateway
               j == IF request[r].job # 0 THEN request[r].job ELSE NextId(LiveJobs, JobId)
    <3>1. g \in GatewayId
      BY <1>0, <2>3 DEF HandlersInv, DeleteCommit
    <3>2. j \in JobId
      BY <1>0, <2>3, NextIdFresh DEF HandlersInv, DeleteCommit, RequestState
    <3>3. Start("delete", g, j)
      BY <2>3 DEF DeleteCommit
    <3> HIDE DEF g, j
    <3>. QED  BY <1>0, <3>1, <3>2, <3>3, StartKeepsThreads DEF ThreadKind
  <2>4. CASE RetryPick(r) /\ ~UNCHANGED <<active, thread>>
    <3>1. request[r].gateway \in GatewayId
      BY <1>0, <2>4 DEF HandlersInv, RetryPick
    <3>2. Start("provision", request[r].gateway, PendingJob(request[r].gateway, job))
      BY <2>4 DEF RetryPick
    <3>. QED  BY <1>0, <3>1, <3>2, PendingJobId, StartKeepsThreads DEF ThreadKind
  <2>5. ASSUME NEW g \in GatewayId, RetryRead(r, g), ~UNCHANGED <<active, thread>>
        PROVE  ThreadsInv'
    <3>1. Start("provision", g, LatestJob(g, "create"))
      BY <2>5 DEF RetryRead
    <3>. QED  BY <1>0, <3>1, LatestJobId, StartKeepsThreads DEF ThreadKind
  <2>6. CASE DeleteStale(r) \/ RetryPrepare(r) \/ \E g \in GatewayId : DeleteRead(r, g)
    BY <2>1, <2>6 DEF DeleteStale, RetryPrepare, DeleteRead
  <2>. QED  BY <1>6, <2>1, <2>2, <2>3, <2>4, <2>5, <2>6 DEF RequestStep, RequestBegins
<1>7. ASSUME SweepStep
      PROVE  ThreadsInv'
  <2>1. CASE UNCHANGED <<active, thread>>
    BY <1>0, <2>1 DEF ThreadsInv, ActiveIsExact, OneThreadPerGateway, Runs
  <2>2. ASSUME NEW g \in GatewayId, SweepProvision(g), ~UNCHANGED <<active, thread>>
        PROVE  ThreadsInv'
    <3>1. \E j \in JobId \cup {0} : Start("provision", g, j)
      BY <2>2, LatestJobId, PendingJobId DEF SweepProvision
    <3>. QED  BY <1>0, <3>1, StartKeepsThreads DEF ThreadKind
  <2>3. ASSUME NEW g \in GatewayId, SweepDelete(g)
        PROVE  ThreadsInv'
    <3>1. \E j \in JobId \cup {0} : Start("delete", g, j)
      BY <2>3, LatestJobId, NextIdFresh DEF SweepDelete
    <3>. QED  BY <1>0, <3>1, StartKeepsThreads DEF ThreadKind
  <2>4. CASE \/ SweepBegin \/ SweepTurn \/ SweepEnd
             \/ \E g \in GatewayId : SweepRaises(g) \/ SweepSkip(g)
    BY <2>1, <2>4 DEF SweepBegin, SweepTurn, SweepEnd, SweepRaises, SweepSkip
  <2>. QED  BY <1>7, <2>1, <2>2, <2>3, <2>4 DEF SweepStep
<1>8. CASE Crash
  <2>1. thread' = [t \in Threads |-> IdleThread] /\ active' = [kind \in ThreadKind |-> {}]
    BY <1>8 DEF Crash
  <2>2. ActiveIsExact' /\ OneThreadPerGateway'
    BY <2>1 DEF ActiveIsExact, OneThreadPerGateway, Runs, IdleThread
  <2>. QED  BY <2>1, <2>2 DEF ThreadsInv, IdleThread, ThreadState, ThreadKind, ThreadPc
<1>9. CASE UNCHANGED vars \/ \E j \in JobId : Age(j)
  BY <1>0, <1>9 DEF vars, Age, ThreadsInv, ActiveIsExact, OneThreadPerGateway, Runs
<1>. QED  BY <1>1, <1>2, <1>3, <1>4, <1>5, <1>6, <1>7, <1>8, <1>9 DEF Next, ThreadStep

-----------------------------------------------------------------------------
(* The rows *)

\* A step of a provisioning thread writes rows of the right type: it checks that
\* a row is there before it gives it a status.
LEMMA ProvisionKeepsRows ==
    ASSUME IInv, NEW t \in Threads, ProvisionStep(t)
    PROVE  RowsInv'
<1> DEFINE g == thread[t].gateway
           j == thread[t].job
<1>0. /\ RowsInv
      /\ thread[t].pc # "idle" => g \in GatewayId
      /\ j \in JobId \cup {0}
      /\ thread[t].pc = "launch" => thread[t].name \in Names
  BY DEF IInv, ThreadsInv, ThreadState
<1>1. CASE ProvisionQueue(t)
  BY <1>0, <1>1, TouchJob DEF ProvisionQueue, RowsInv
<1>2. CASE ProvisionPrepare(t)
  <2>1. g \in GatewayId /\ vm' = vm
    BY <1>0, <1>2 DEF ProvisionPrepare, At
  <2>2. \E revives, resets :
          CanPrepare(g, revives, LatestJob(g, "create"), resets) /\ Prepare(g, revives, LatestJob(g, "create"), resets)
    BY <1>2 DEF ProvisionPrepare
  <2>. QED  BY <1>0, <2>1, <2>2, LatestJobId, PrepareRows
<1>3. CASE ProvisionProcess(t)
  <2>1. job' = job \/ (StatusOfJob(j) # Absent /\ job' = WithJobStatus(job, j, "running"))
    BY <1>3 DEF ProvisionProcess
  <2>2. job' \in [JobId -> JobRow]
    BY <1>0, <2>1, WriteJob DEF RowsInv, JobStatus, StatusOfJob
  <2>. QED  BY <1>0, <1>3, <2>2 DEF ProvisionProcess, RowsInv
<1>4. CASE ProvisionStatus(t)
  <2>1. g \in GatewayId
    BY <1>0, <1>4 DEF ProvisionStatus, At
  <2>2. CASE gateway[g].status = Absent
    BY <1>0, <1>4, <2>2 DEF ProvisionStatus, RowsInv
  <2>3. CASE gateway[g].status # Absent
    <3>1. gateway' = [gateway EXCEPT ![g].status = "provisioning"] /\ job' = Touched(job, j) /\ vm' = vm
      BY <1>4, <2>3 DEF ProvisionStatus
    <3>. QED  BY <1>0, <2>1, <2>3, <3>1, TouchJob, WriteGateway DEF RowsInv, GatewayStatus
  <2>. QED  BY <2>2, <2>3
<1>5. CASE ProvisionLaunch(t)
  BY <1>0, <1>5, TouchJob DEF ProvisionLaunch, At, RowsInv
<1>6. CASE ProvisionLaunchFails(t)
  BY <1>0, <1>6 DEF ProvisionLaunchFails, At, RowsInv
<1>7. CASE \E status \in GatewayStatus, pc \in ThreadPc :
             /\ thread[t].pc # "idle"
             /\ WriteStatus(t, status, pc)
             /\ job' = job \/ job' = Touched(job, j)
             /\ vm' = vm
  <2>1. PICK status \in GatewayStatus, pc \in ThreadPc :
             /\ thread[t].pc # "idle"
             /\ WriteStatus(t, status, pc)
             /\ job' = job \/ job' = Touched(job, j)
             /\ vm' = vm
    BY <1>7
  <2>2. gateway' \in [GatewayId -> GatewayRow]
    BY <1>0, <2>1, WriteGateway DEF WriteStatus, RowsInv
  <2>. QED  BY <1>0, <2>1, <2>2, TouchJob DEF RowsInv
<1>8. CASE ProvisionTimeout(t) \/ ProvisionFinalizeFails(t) \/ ProvisionReady(t)
  BY <1>7, <1>8 DEF ProvisionTimeout, ProvisionFinalizeFails, ProvisionReady, At, GatewayStatus, ThreadPc
<1>9. CASE ProvisionHealthy(t)
  BY <1>0, <1>9, TouchJob DEF ProvisionHealthy, RowsInv
<1>10. CASE ProvisionComplete(t)
  <2>1. job' = job \/ (job[j].status # Absent /\ job' = WithJobStatus(job, j, "completed"))
    BY <1>10 DEF ProvisionComplete
  <2>2. job' \in [JobId -> JobRow]
    BY <1>0, <2>1, WriteJob DEF RowsInv, JobStatus
  <2>. QED  BY <1>0, <1>10, <2>2 DEF ProvisionComplete, RowsInv
<1>11. CASE ProvisionFail(t)
  <2>1. g \in GatewayId
    BY <1>0, <1>11 DEF ProvisionFail, At
  <2>2. CASE job[j].status = Absent \/ gateway[g].status = Absent
    BY <1>0, <1>11, <2>2 DEF ProvisionFail, RowsInv
  <2>3. CASE job[j].status # Absent /\ gateway[g].status # Absent
    <3>1. /\ gateway' = [gateway EXCEPT ![g].status = "error"]
          /\ job' = WithJobStatus(job, j, "failed")
          /\ vm' = vm
      BY <1>11, <2>3 DEF ProvisionFail
    <3>. QED  BY <1>0, <2>1, <2>3, <3>1, WriteJob, WriteGateway DEF RowsInv, GatewayStatus, JobStatus
  <2>. QED  BY <2>2, <2>3
<1>12. CASE ProvisionSkip(t) \/ ProvisionRegisterFails(t)
  BY <1>0, <1>12 DEF ProvisionSkip, ProvisionRegisterFails, RowsInv
<1>. QED  BY <1>1, <1>2, <1>3, <1>4, <1>5, <1>6, <1>8, <1>9, <1>10, <1>11, <1>12 DEF ProvisionStep

\* The same of a deletion thread.
LEMMA DeleteKeepsRows ==
    ASSUME IInv, NEW t \in Threads, DeleteStep(t)
    PROVE  RowsInv'
<1> DEFINE g == thread[t].gateway
           j == thread[t].job
<1>0. /\ RowsInv
      /\ thread[t].pc # "idle" => g \in GatewayId
      /\ j \in JobId \cup {0}
  BY DEF IInv, ThreadsInv, ThreadState
<1>1. CASE \E status \in JobStatus :
             /\ job' = job \/ (job[j].status # Absent /\ job' = WithJobStatus(job, j, status))
             /\ UNCHANGED <<gateway, vm>>
  BY <1>0, <1>1, WriteJob DEF RowsInv
<1>2. CASE DeleteGone(t) \/ DeleteSkip(t) \/ DeleteTake(t) \/ DeleteProcess(t)
  BY <1>1, <1>2 DEF DeleteGone, DeleteSkip, DeleteTake, DeleteProcess, CompleteIfThere, JobStatus, Absent
<1>3. CASE DeleteExecute(t)
  BY <1>0, <1>3 DEF DeleteExecute, RowsInv
<1>4. CASE DeleteExecuteFails(t)
  BY <1>0, <1>4 DEF DeleteExecuteFails, RowsInv
<1>5. CASE DeleteRemove(t)
  <2>1. gateway' \in [GatewayId -> GatewayRow]
    BY <1>0, <1>5 DEF DeleteRemove, RowsInv, GatewayRow
  <2>2. job' \in [JobId -> JobRow]
    BY <1>0, <1>5 DEF DeleteRemove, RowsInv, JobRow
  <2>. QED  BY <1>0, <1>5, <2>1, <2>2 DEF DeleteRemove, RowsInv
<1>6. CASE DeleteFail(t)
  <2>1. job' = job \/ (job[j].status # Absent /\ job' = WithJobStatus(job, j, "failed"))
    BY <1>6 DEF DeleteFail
  <2>2. job' \in [JobId -> JobRow]
    BY <1>0, <2>1, WriteJob DEF RowsInv, JobStatus
  <2>3. g \in GatewayId
    BY <1>0, <1>6 DEF DeleteFail, At
  <2>4. gateway' \in [GatewayId -> GatewayRow]
    BY <1>0, <1>6, <2>3, WriteGateway DEF DeleteFail, RowsInv, GatewayStatus
  <2>. QED  BY <1>0, <1>6, <2>2, <2>4 DEF DeleteFail, RowsInv
<1>. QED  BY <1>2, <1>3, <1>4, <1>5, <1>6 DEF DeleteStep

\* Every step keeps the tables and the VMs well typed.
LEMMA RowsKept ==
    ASSUME IInv, [Next]_vars
    PROVE  RowsInv'
<1>0. RowsInv /\ HandlersInv
  BY DEF IInv
<1>1. CASE UNCHANGED <<gateway, job, vm>>
  BY <1>0, <1>1 DEF RowsInv
<1>2. ASSUME NEW t \in Threads, ThreadStep(t) \/ ThreadLocked(t)
      PROVE  RowsInv'
  BY <1>1, <1>2, ProvisionKeepsRows, DeleteKeepsRows DEF ThreadStep, ThreadExit, ThreadLocked
<1>3. ASSUME NEW name \in Names, CreateGateway(name)
      PROVE  RowsInv'
  <2> DEFINE g == NextId(LiveGateways, GatewayId)
             j == NextId(LiveJobs, JobId)
  <2>1. g \in GatewayId /\ j \in JobId
    BY <1>3, NextIdFresh DEF CreateGateway
  <2>2. /\ gateway' = [gateway EXCEPT ![g] = [status |-> "pending", name |-> name]]
        /\ job' = [job EXCEPT ![j] = NewJob("create", g)]
        /\ vm' = vm
    BY <1>3 DEF CreateGateway
  <2> HIDE DEF g, j
  <2>3. gateway' \in [GatewayId -> GatewayRow]
    BY <1>0, <2>1, <2>2 DEF RowsInv, GatewayRow, GatewayStatus
  <2>. QED  BY <1>0, <2>1, <2>2, <2>3, InsertJob DEF RowsInv, JobType
<1>4. ASSUME NEW r \in Requests, RequestStep(r) \/ RequestBegins(r)
      PROVE  RowsInv'
  <2> DEFINE g == request[r].gateway
  <2>0. /\ request[r].op # "idle" => g \in GatewayId
        /\ request[r].job \in JobId \cup {0}
    BY <1>0 DEF HandlersInv, RequestState
  <2>1. CASE DeleteCommit(r)
    <3> DEFINE j == IF request[r].job # 0 THEN request[r].job ELSE NextId(LiveJobs, JobId)
    <3>1. g \in GatewayId /\ j \in JobId
      BY <2>0, <2>1, NextIdFresh DEF DeleteCommit
    <3>2. gateway' \in [GatewayId -> GatewayRow]
      <4>1. CASE request[r].updates
        BY <1>0, <2>1, <3>1, <4>1, WriteGateway DEF DeleteCommit, RowsInv, GatewayStatus
      <4>2. CASE ~request[r].updates
        BY <1>0, <2>1, <4>2 DEF DeleteCommit, RowsInv
      <4>. QED  BY <4>1, <4>2
    <3>3. job' = job \/ job' = [job EXCEPT ![j] = NewJob("delete", g)]
      BY <2>1 DEF DeleteCommit
    <3> HIDE DEF j
    <3>4. job' \in [JobId -> JobRow]
      BY <1>0, <3>1, <3>3, InsertJob DEF RowsInv, JobType
    <3>. QED  BY <1>0, <2>1, <3>2, <3>4 DEF DeleteCommit, RowsInv
  <2>2. CASE RetryPrepare(r)
    <3>1. g \in GatewayId /\ vm' = vm
      BY <2>0, <2>2 DEF RetryPrepare
    <3>2. \/ UNCHANGED <<gateway, job>>
          \/ /\ CanPrepare(g, request[r].updates, request[r].job, request[r].resets)
             /\ Prepare(g, request[r].updates, request[r].job, request[r].resets)
      BY <2>2 DEF RetryPrepare
    <3>. QED  BY <1>0, <1>1, <2>0, <3>1, <3>2, PrepareRows
  <2>. QED  BY <1>1, <1>4, <2>1, <2>2
         DEF RequestStep, RequestBegins, DeleteRead, DeleteJoin, DeleteStale, RetryRead, RetryPick
<1>5. ASSUME SweepStep
      PROVE  RowsInv'
  <2>1. ASSUME NEW g \in GatewayId, SweepProvision(g)
        PROVE  RowsInv'
    <3>1. \/ UNCHANGED <<gateway, job>>
          \/ \E revives, resets :
               /\ CanPrepare(g, revives, LatestJob(g, "create"), resets)
               /\ Prepare(g, revives, LatestJob(g, "create"), resets)
      BY <2>1 DEF SweepProvision
    <3>2. vm' = vm
      BY <2>1 DEF SweepProvision
    <3>. QED  BY <1>0, <1>1, <3>1, <3>2, LatestJobId, PrepareRows
  <2>2. ASSUME NEW g \in GatewayId, SweepDelete(g)
        PROVE  RowsInv'
    <3> DEFINE latest == LatestJob(g, "delete")
               j == IF latest = 0 THEN NextId(LiveJobs, JobId) ELSE latest
    <3>1. UNCHANGED <<gateway, vm>>
      BY <2>2 DEF SweepDelete
    <3>2. CASE latest = 0
      <4>1. j \in JobId /\ job' = [job EXCEPT ![j] = NewJob("delete", g)]
        BY <2>2, <3>2, NextIdFresh DEF SweepDelete
      <4> HIDE DEF j
      <4>. QED  BY <1>0, <3>1, <4>1, InsertJob DEF RowsInv, JobType
    <3>3. CASE latest # 0
      <4>1. job' = WithJobStatus(job, latest, "pending")
        BY <2>2, <3>3 DEF SweepDelete
      <4>2. job[latest].status # Absent
        BY <3>3, LatestJobLive DEF JobsOf, LiveJobs
      <4> HIDE DEF latest
      <4>. QED  BY <1>0, <3>1, <4>1, <4>2, WriteJob DEF RowsInv, JobStatus
    <3>. QED  BY <3>2, <3>3
  <2>. QED  BY <1>1, <1>5, <2>1, <2>2
         DEF SweepStep, SweepBegin, SweepTurn, SweepEnd, SweepRaises, SweepSkip
<1>6. ASSUME NEW j \in JobId, Age(j)
      PROVE  RowsInv'
  <2>1. job' \in [JobId -> JobRow]
    <3>1. ASSUME NEW k \in JobId PROVE job'[k] \in JobRow
      <4>1. CASE k # j
        BY <1>0, <1>6, <4>1 DEF Age, RowsInv
      <4>2. CASE k = j
        <5>1. job[k] \in [type : JobType, gateway : GatewayId, status : JobStatus, stale : BOOLEAN]
          BY <1>0, <1>6, <4>2 DEF Age, RowsInv, JobRow, NoJob, Absent
        <5>2. job'[k] = [job[k] EXCEPT !.stale = TRUE]
          BY <1>0, <1>6, <4>2 DEF Age, RowsInv
        <5>. QED  BY <5>1, <5>2 DEF JobRow
      <4>. QED  BY <4>1, <4>2
    <3>. QED  BY <1>0, <1>6, <3>1 DEF Age, RowsInv
  <2>. QED  BY <1>0, <1>6, <2>1 DEF Age, RowsInv
<1>. QED  BY <1>1, <1>2, <1>3, <1>4, <1>5, <1>6 DEF Next, Crash, vars

-----------------------------------------------------------------------------
(* The requests and the sweep *)

\* Every step keeps what requests and the sweep remember well typed.
LEMMA HandlersKept ==
    ASSUME IInv, [Next]_vars
    PROVE  HandlersInv'
<1>0. RowsInv /\ HandlersInv /\ MaxFaults \in Nat /\ MaxCreates \in Nat
  BY BoundsAssumption DEF IInv
<1>1. CASE UNCHANGED <<request, sweep, created, faults>>
  BY <1>0, <1>1 DEF HandlersInv
<1>2. ASSUME NEW t \in Threads, ThreadStep(t)
      PROVE  HandlersInv'
  <2>1. CASE ProvisionStep(t)
    BY <1>1, <2>1 DEF ProvisionStep, ProvisionSkip, ProvisionQueue,
         ProvisionPrepare, ProvisionProcess, ProvisionStatus, ProvisionLaunch,
         ProvisionLaunchFails, ProvisionTimeout, ProvisionHealthy, ProvisionRegisterFails,
         ProvisionFinalizeFails, ProvisionReady, ProvisionComplete, ProvisionFail
  <2>2. CASE DeleteStep(t)
    BY <1>1, <2>2 DEF DeleteStep, DeleteGone, DeleteSkip, DeleteTake, DeleteProcess,
         DeleteExecute, DeleteExecuteFails, DeleteRemove, DeleteFail
  <2>3. CASE ThreadExit(t)
    BY <1>1, <2>3 DEF ThreadExit
  <2>. QED  BY <1>2, <2>1, <2>2, <2>3 DEF ThreadStep
<1>3. ASSUME NEW t \in Threads, ThreadLocked(t)
      PROVE  HandlersInv'
  BY <1>0, <1>3 DEF ThreadLocked, HandlersInv
<1>4. ASSUME NEW name \in Names, CreateGateway(name)
      PROVE  HandlersInv'
  BY <1>0, <1>4 DEF CreateGateway, HandlersInv
<1>5. ASSUME NEW r \in Requests, NEW q \in RequestState,
             q.op # "idle" => q.gateway \in GatewayId,
             request' = [request EXCEPT ![r] = q], UNCHANGED <<sweep, created, faults>>
      PROVE  HandlersInv'
  BY <1>0, <1>5 DEF HandlersInv
<1>6. /\ IdleRequest \in RequestState
      /\ \A op \in RequestOp, g \in GatewayId, j \in JobId \cup {0} :
           NewRequest(op, g, j) \in RequestState
  BY DEF IdleRequest, NewRequest, RequestState, RequestOp
<1>7. ASSUME NEW r \in Requests, RequestStep(r)
      PROVE  HandlersInv'
  <2>1. CASE Finish(r) /\ UNCHANGED <<sweep, created, faults>>
    BY <1>5, <1>6, <2>1 DEF Finish, IdleRequest, NewRequest
  <2>2. CASE RetryPrepare(r) /\ ~Finish(r)
    <3> DEFINE q == NewRequest("pick", request[r].gateway, 0)
    <3>1. request[r].gateway \in GatewayId
      BY <1>0, <2>2 DEF RetryPrepare, HandlersInv
    <3>2. q \in RequestState /\ q.gateway \in GatewayId
      BY <1>6, <3>1 DEF NewRequest, RequestOp
    <3>3. request' = [request EXCEPT ![r] = q] /\ UNCHANGED <<sweep, created, faults>>
      BY <2>2 DEF RetryPrepare
    <3> HIDE DEF q
    <3>. QED  BY <1>5, <3>2, <3>3
  <2>. QED  BY <1>7, <2>1, <2>2
         DEF RequestStep, DeleteJoin, DeleteCommit, DeleteStale, RetryPrepare, RetryPick
<1>8. ASSUME NEW r \in Requests, NEW g \in GatewayId, DeleteRead(r, g)
      PROVE  HandlersInv'
  <2> DEFINE existing == LatestJob(g, "delete")
             joined == NewRequest("join", g, existing)
             fresh == [NewRequest("delete", g, IF StatusOfJob(existing) = "pending" THEN existing ELSE 0)
                       EXCEPT !.updates = gateway[g].status # "deleting"]
  <2>1. joined \in RequestState /\ joined.gateway = g
    BY <1>6, LatestJobId DEF NewRequest, RequestOp
  <2>2. fresh \in RequestState /\ fresh.gateway = g
    BY LatestJobId DEF NewRequest, RequestOp, RequestState
  <2>3. request' = [request EXCEPT ![r] = joined] \/ request' = [request EXCEPT ![r] = fresh]
    BY <1>8 DEF DeleteRead
  <2>4. UNCHANGED <<sweep, created, faults>>
    BY <1>8 DEF DeleteRead
  <2> HIDE DEF joined, fresh
  <2>. QED  BY <1>5, <2>1, <2>2, <2>3, <2>4
<1>9. ASSUME NEW r \in Requests, NEW g \in GatewayId, RetryRead(r, g)
      PROVE  HandlersInv'
  <2> DEFINE latest == LatestJob(g, "create")
             q == [NewRequest("retry", g, latest) EXCEPT
                     !.updates = Revives(gateway[g].status, StatusOfJob(latest)),
                     !.resets = Resets(StatusOfJob(latest))]
  <2>1. q \in RequestState /\ q.gateway = g
    <3>1. Revives(gateway[g].status, StatusOfJob(latest)) \in BOOLEAN
      BY DEF Revives
    <3>2. Resets(StatusOfJob(latest)) \in BOOLEAN
      BY DEF Resets
    <3>. QED  BY <3>1, <3>2, LatestJobId DEF NewRequest, RequestOp, RequestState
  <2>2. request' = request \/ request' = [request EXCEPT ![r] = q]
    BY <1>9 DEF RetryRead
  <2>3. UNCHANGED <<sweep, created, faults>>
    BY <1>9 DEF RetryRead
  <2> HIDE DEF q
  <2>. QED  BY <1>1, <1>5, <2>1, <2>2, <2>3
<1>10. ASSUME SweepStep
       PROVE  HandlersInv'
  <2>1. UNCHANGED <<request, created, faults>>
    BY <1>10 DEF SweepStep, SweepBegin, SweepTurn, SweepEnd, SweepRaises, SweepSkip,
         SweepProvision, SweepDelete
  <2>2. Listed \in [GatewayId -> GatewayStatus \cup {Absent, Expired}]
    BY <1>0 DEF Listed, RowsInv, GatewayRow, NoGateway
  <2>3. IdleSweep \in SweepState
    BY DEF IdleSweep, SweepState
  <2>4. \A g \in GatewayId : [sweep EXCEPT !.seen = Passed(g)] \in SweepState
    BY <1>0 DEF HandlersInv, SweepState, Passed
  <2>5. \A g \in GatewayId : [sweep EXCEPT !.seen = PassedAndExpired(g)] \in SweepState
    BY <1>0 DEF HandlersInv, SweepState, PassedAndExpired
  <2>6. sweep' \in SweepState
    BY <1>10, <2>2, <2>3, <2>4, <2>5 DEF SweepStep, SweepBegin, SweepTurn, SweepEnd,
         SweepRaises, SweepSkip, SweepProvision, SweepDelete, SweepState
  <2>. QED  BY <1>0, <2>1, <2>6 DEF HandlersInv
<1>11. CASE Crash
  <2>1. request' = [r \in Requests |-> IdleRequest] /\ sweep' = IdleSweep
        /\ faults' = faults + 1 /\ created' = created /\ faults < MaxFaults
    BY <1>11 DEF Crash
  <2>2. IdleSweep \in SweepState
    BY DEF IdleSweep, SweepState
  <2>. QED  BY <1>0, <1>6, <2>1, <2>2 DEF HandlersInv, IdleRequest, NewRequest
<1>12. CASE \E j \in JobId : Age(j)
  BY <1>1, <1>12 DEF Age
<1>. QED  BY <1>1, <1>2, <1>3, <1>4, <1>7, <1>8, <1>9, <1>10, <1>11, <1>12
       DEF Next, RequestBegins, vars

-----------------------------------------------------------------------------
(* The theorems *)

\* The inductive invariant.
LEMMA IInvHolds == Spec => []IInv
<1>1. Init => IInv
  <2> SUFFICES ASSUME Init PROVE IInv
    OBVIOUS
  <2>1. RowsInv
    BY DEF Init, RowsInv, GatewayRow, JobRow
  <2>2. ThreadsInv
    BY DEF Init, ThreadsInv, ThreadState, IdleThread, ThreadKind, ThreadPc,
           ActiveIsExact, OneThreadPerGateway, Runs
  <2>3. HandlersInv
    BY BoundsAssumption DEF Init, HandlersInv, RequestState, IdleRequest, NewRequest, RequestOp,
           SweepState, IdleSweep
  <2>. QED  BY <2>1, <2>2, <2>3 DEF IInv
<1>2. IInv /\ [Next]_vars => IInv'
  BY RowsKept, ThreadsKept, HandlersKept DEF IInv
<1>. QED  BY <1>1, <1>2, PTL DEF Spec

\* Every table, in-memory set and handler always holds values of its type: no
\* interleaving of threads, requests, sweep and crashes makes a handler write
\* a row that is not there or a VM that has no name.
THEOREM TypeCorrect == Spec => []TypeOK
<1>1. IInv => TypeOK
  BY DEF IInv, RowsInv, ThreadsInv, HandlersInv, TypeOK
<1>. QED  BY <1>1, IInvHolds, PTL

\* start_provisioning and start_deletion never put two threads of a kind on one
\* gateway, however many requests and sweeps call them.
THEOREM NeverTwoThreads == Spec => []OneThreadPerGateway
<1>1. IInv => OneThreadPerGateway
  BY DEF IInv, ThreadsInv
<1>. QED  BY <1>1, IInvHolds, PTL

\* The _active sets never hold a gateway that no thread works on, which would
\* block it until the next restart, and never miss one.
THEOREM ActiveAlwaysExact == Spec => []ActiveIsExact
<1>1. IInv => ActiveIsExact
  BY DEF IInv, ThreadsInv
<1>. QED  BY <1>1, IInvHolds, PTL

-----------------------------------------------------------------------------
(* A gateway always has a create job *)

\* A step keeps the jobs when each is still there, with its type and gateway,
\* and brings no gateway when each that is there was there before.
KeepsJobs ==
    \A j \in JobId : job[j].status # Absent =>
        /\ job'[j].status # Absent
        /\ job'[j].type = job[j].type
        /\ job'[j].gateway = job[j].gateway
BringsNoGateway ==
    \A g \in GatewayId : gateway'[g].status # Absent => gateway[g].status # Absent

\* Such a step keeps the create job of every gateway.
LEMMA KeepersKeepCreateJobs ==
    ASSUME CreateJobExists, KeepsJobs, BringsNoGateway
    PROVE  CreateJobExists'
  BY DEF CreateJobExists, KeepsJobs, BringsNoGateway, JobsOf, LiveJobs, LiveGateways

\* The ways in which the code writes the jobs table without deleting from it.
LEMMA StatusWriteKeepsJobs ==
    ASSUME RowsInv, NEW j, NEW status \in JobStatus,
           job' = job \/ job' = Touched(job, j) \/ job' = WithJobStatus(job, j, status)
    PROVE  KeepsJobs
<1>1. CASE job' = job
  BY <1>1 DEF KeepsJobs
<1>2. CASE job' = Touched(job, j)
  <2>1. ASSUME NEW k \in JobId
        PROVE  job'[k].status = job[k].status /\ job'[k].type = job[k].type /\ job'[k].gateway = job[k].gateway
    BY <1>2, <2>1 DEF Touched, RowsInv, JobRow, NoJob
  <2>. QED  BY <2>1 DEF KeepsJobs
<1>3. CASE job' = WithJobStatus(job, j, status)
  <2>1. ASSUME NEW k \in JobId
        PROVE  /\ job'[k].status = job[k].status \/ job'[k].status = status
               /\ job'[k].type = job[k].type /\ job'[k].gateway = job[k].gateway
    <3>1. CASE k # j
      BY <1>3, <3>1 DEF WithJobStatus, RowsInv
    <3>2. CASE k = j
      BY <1>3, <3>2 DEF WithJobStatus, RowsInv, JobRow, NoJob
    <3>. QED  BY <3>1, <3>2
  <2>2. status # Absent
    BY DEF JobStatus, Absent
  <2>. QED  BY <2>1, <2>2 DEF KeepsJobs
<1>. QED  BY <1>1, <1>2, <1>3

\* A new row takes an id that no live row has.
LEMMA InsertKeepsJobs ==
    ASSUME RowsInv, NEW type, NEW g, NextId(LiveJobs, JobId) # 0,
           job' = [job EXCEPT ![NextId(LiveJobs, JobId)] = NewJob(type, g)]
    PROVE  KeepsJobs
<1> DEFINE n == NextId(LiveJobs, JobId)
<1>1. n \in JobId /\ n \notin LiveJobs
  BY NextIdFresh, BoundsAssumption DEF JobId
<1> HIDE DEF n
<1>2. \A k \in JobId : k # n => job'[k] = job[k]
  BY DEF RowsInv, n
<1>. QED  BY <1>1, <1>2 DEF KeepsJobs, LiveJobs

\* prepare_provisioning keeps the jobs and brings no gateway.
LEMMA PrepareKeepsJobs ==
    ASSUME RowsInv, NEW g, NEW revives, NEW j, NEW resets,
           CanPrepare(g, revives, j, resets), Prepare(g, revives, j, resets)
    PROVE  KeepsJobs /\ BringsNoGateway
<1>1. BringsNoGateway
  BY DEF CanPrepare, Prepare, BringsNoGateway, RowsInv
<1>2. CASE resets \/ j # 0
  <2>1. job' = job \/ job' = WithJobStatus(job, j, "pending")
    BY <1>2 DEF Prepare
  <2>2. "pending" \in JobStatus
    BY DEF JobStatus
  <2>. QED  BY <1>1, <2>1, <2>2, StatusWriteKeepsJobs
<1>3. CASE ~resets /\ j = 0
  <2>1. /\ NextId(LiveJobs, JobId) # 0
        /\ job' = [job EXCEPT ![NextId(LiveJobs, JobId)] = NewJob("create", g)]
    BY <1>3 DEF CanPrepare, Prepare
  <2>. QED  BY <1>1, <2>1, InsertKeepsJobs
<1>. QED  BY <1>1, <1>2, <1>3

\* No thread but a deletion at its last step takes a job or brings a gateway.
LEMMA ThreadsKeepJobs ==
    ASSUME IInv, NEW t \in Threads, ThreadStep(t) \/ ThreadLocked(t), ~DeleteRemove(t)
    PROVE  KeepsJobs /\ BringsNoGateway
<1>0. RowsInv
  BY DEF IInv
<1>1. CASE ProvisionPrepare(t)
  <2>1. \E g, revives, j, resets :
          CanPrepare(g, revives, j, resets) /\ Prepare(g, revives, j, resets)
    BY <1>1 DEF ProvisionPrepare
  <2>. QED  BY <1>0, <2>1, PrepareKeepsJobs
<1>2. CASE ~ProvisionPrepare(t)
  <2> DEFINE j == thread[t].job
  <2>1. \E status \in JobStatus :
          job' = job \/ job' = Touched(job, j) \/ job' = WithJobStatus(job, j, status)
    <3>1. CASE ProvisionStep(t)
      BY <1>2, <3>1 DEF ProvisionStep, ProvisionSkip, ProvisionQueue,
         ProvisionProcess, ProvisionStatus, ProvisionLaunch, JobStatus,
         ProvisionLaunchFails, ProvisionTimeout, ProvisionHealthy, ProvisionRegisterFails,
         ProvisionFinalizeFails, ProvisionReady, ProvisionComplete, ProvisionFail
    <3>2. CASE DeleteStep(t)
      BY <3>2 DEF DeleteStep, DeleteGone, DeleteSkip, DeleteTake, DeleteProcess, CompleteIfThere,
         DeleteExecute, DeleteExecuteFails, DeleteFail, JobStatus
    <3>3. CASE ThreadExit(t) \/ ThreadLocked(t)
      BY <3>3 DEF ThreadExit, ThreadLocked, JobStatus
    <3>. QED  BY <3>1, <3>2, <3>3 DEF ThreadStep
  <2>2. \/ gateway' = gateway
        \/ \E g, status : gateway[g].status # Absent /\ gateway' = [gateway EXCEPT ![g].status = status]
    <3>1. CASE ProvisionStep(t)
      BY <1>2, <3>1 DEF ProvisionStep, ProvisionSkip, ProvisionQueue, WriteStatus,
         ProvisionProcess, ProvisionStatus, ProvisionLaunch,
         ProvisionLaunchFails, ProvisionTimeout, ProvisionHealthy, ProvisionRegisterFails,
         ProvisionFinalizeFails, ProvisionReady, ProvisionComplete, ProvisionFail
    <3>2. CASE DeleteStep(t)
      BY <3>2 DEF DeleteStep, DeleteGone, DeleteSkip, DeleteTake, DeleteProcess, CompleteIfThere,
         DeleteExecute, DeleteExecuteFails, DeleteFail
    <3>3. CASE ThreadExit(t) \/ ThreadLocked(t)
      BY <3>3 DEF ThreadExit, ThreadLocked
    <3>. QED  BY <3>1, <3>2, <3>3 DEF ThreadStep
  <2>3. KeepsJobs
    BY <1>0, <2>1, StatusWriteKeepsJobs
  <2>4. BringsNoGateway
    BY <1>0, <2>2 DEF BringsNoGateway, RowsInv
  <2>. QED  BY <2>3, <2>4
<1>. QED  BY <1>1, <1>2

\* No request takes a job or brings a gateway, and neither does the sweep.
LEMMA HandlersKeepJobs ==
    ASSUME IInv, SweepStep \/ \E r \in Requests : RequestStep(r) \/ RequestBegins(r)
    PROVE  KeepsJobs /\ BringsNoGateway
<1>0. RowsInv
  BY DEF IInv
<1>1. CASE UNCHANGED <<gateway, job>>
  BY <1>1 DEF KeepsJobs, BringsNoGateway
<1>2. CASE \E g, revives, j, resets :
             CanPrepare(g, revives, j, resets) /\ Prepare(g, revives, j, resets)
  BY <1>0, <1>2, PrepareKeepsJobs
<1>3. ASSUME NEW r \in Requests, RequestStep(r) \/ RequestBegins(r)
      PROVE  KeepsJobs /\ BringsNoGateway
  <2>1. CASE DeleteCommit(r)
    <3>1. \/ job' = job
          \/ /\ NextId(LiveJobs, JobId) # 0
             /\ job' = [job EXCEPT ![NextId(LiveJobs, JobId)] = NewJob("delete", request[r].gateway)]
      BY <2>1 DEF DeleteCommit
    <3>2. BringsNoGateway
      BY <1>0, <2>1 DEF DeleteCommit, BringsNoGateway, RowsInv
    <3>3. KeepsJobs
      BY <1>0, <3>1, InsertKeepsJobs DEF KeepsJobs
    <3>. QED  BY <3>2, <3>3
  <2>2. CASE RetryPrepare(r)
    BY <1>1, <1>2, <2>2 DEF RetryPrepare
  <2>. QED  BY <1>1, <1>3, <2>1, <2>2
         DEF RequestStep, RequestBegins, DeleteRead, DeleteJoin, DeleteStale, RetryRead, RetryPick
<1>4. ASSUME NEW g \in GatewayId, SweepProvision(g)
      PROVE  KeepsJobs /\ BringsNoGateway
  BY <1>1, <1>2, <1>4 DEF SweepProvision
<1>5. ASSUME NEW g \in GatewayId, SweepDelete(g)
      PROVE  KeepsJobs /\ BringsNoGateway
  <2>1. CASE LatestJob(g, "delete") = 0
    <3>1. /\ NextId(LiveJobs, JobId) # 0
          /\ job' = [job EXCEPT ![NextId(LiveJobs, JobId)] = NewJob("delete", g)]
          /\ gateway' = gateway
      BY <1>5, <2>1 DEF SweepDelete
    <3>. QED  BY <1>0, <3>1, InsertKeepsJobs DEF BringsNoGateway
  <2>2. CASE LatestJob(g, "delete") # 0
    <3>1. job' = WithJobStatus(job, LatestJob(g, "delete"), "pending") /\ gateway' = gateway
      BY <1>5, <2>2 DEF SweepDelete
    <3>. QED  BY <1>0, <3>1, StatusWriteKeepsJobs DEF BringsNoGateway, JobStatus
  <2>. QED  BY <2>1, <2>2
<1>. QED  BY <1>1, <1>3, <1>4, <1>5
       DEF SweepStep, SweepBegin, SweepTurn, SweepEnd, SweepRaises, SweepSkip

\* A gateway's row and its create job come together and go together, and
\* nothing in between takes the job or turns it into another.
THEOREM AlwaysACreateJob == Spec => []CreateJobExists
<1>1. Init => CreateJobExists
  BY DEF Init, CreateJobExists, LiveGateways, NoGateway
<1>2. IInv /\ CreateJobExists /\ [Next]_vars => CreateJobExists'
  <2> SUFFICES ASSUME IInv, CreateJobExists, [Next]_vars PROVE CreateJobExists'
    OBVIOUS
  <2>0. RowsInv
    BY DEF IInv
  <2>1. CASE KeepsJobs /\ BringsNoGateway
    BY <2>1, KeepersKeepCreateJobs
  <2>2. ASSUME NEW t \in Threads, DeleteRemove(t)
        PROVE  CreateJobExists'
    <3> DEFINE g == thread[t].gateway
    <3>1. \A h \in GatewayId : gateway'[h] = IF h = g THEN NoGateway ELSE gateway[h]
      BY <2>0, <2>2 DEF DeleteRemove, RowsInv
    <3>2. \A j \in JobId : job[j].gateway # g => job'[j] = job[j]
      BY <2>2 DEF DeleteRemove
    <3>. QED  BY <3>1, <3>2 DEF CreateJobExists, LiveGateways, JobsOf, LiveJobs, NoGateway
  <2>3. ASSUME NEW name \in Names, CreateGateway(name)
        PROVE  CreateJobExists'
    <3>1. PICK g \in GatewayId, n \in JobId :
            /\ g = NextId(LiveGateways, GatewayId)
            /\ n = NextId(LiveJobs, JobId)
      BY <2>3, NextIdFresh DEF CreateGateway
    <3>2. job' = [job EXCEPT ![n] = NewJob("create", g)] /\ NextId(LiveJobs, JobId) # 0
      BY <2>3, <3>1 DEF CreateGateway
    <3>3. KeepsJobs
      BY <2>0, <3>1, <3>2, InsertKeepsJobs
    <3>4. \A h \in GatewayId : h # g => gateway'[h] = gateway[h]
      BY <2>0, <2>3, <3>1 DEF CreateGateway, RowsInv
    <3>5. job'[n] = NewJob("create", g)
      BY <2>0, <3>2 DEF RowsInv
    <3>6. n \in JobsOf(g, "create")'
      BY <3>5 DEF JobsOf, LiveJobs, NewJob, Absent
    <3>7. \A h \in LiveGateways' : h # g => JobsOf(h, "create")' # {}
      BY <3>3, <3>4 DEF CreateJobExists, KeepsJobs, JobsOf, LiveJobs, LiveGateways
    <3>. QED  BY <3>6, <3>7 DEF CreateJobExists
  <2>4. ASSUME NEW j \in JobId, Age(j)
        PROVE  CreateJobExists'
    <3>1. ASSUME NEW k \in JobId
          PROVE  job'[k].status = job[k].status /\ job'[k].type = job[k].type /\ job'[k].gateway = job[k].gateway
      BY <2>0, <2>4, <3>1 DEF Age, RowsInv, JobRow, NoJob
    <3>2. gateway' = gateway
      BY <2>4 DEF Age
    <3>. QED  BY <2>1, <3>1, <3>2 DEF KeepsJobs, BringsNoGateway
  <2>5. CASE UNCHANGED <<gateway, job>>
    BY <2>1, <2>5 DEF KeepsJobs, BringsNoGateway
  <2>. QED  BY <2>1, <2>2, <2>3, <2>4, <2>5, ThreadsKeepJobs, HandlersKeepJobs DEF Next, Crash, vars
<1>. QED  BY <1>1, <1>2, IInvHolds, PTL DEF Spec
=============================================================================
