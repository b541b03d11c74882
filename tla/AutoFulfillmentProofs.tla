----------------------- MODULE AutoFulfillmentProofs -----------------------
(***************************************************************************)
(* Theorems about AutoFulfillment for any number of orders, workers,       *)
(* handlers and callbacks, any queue capacity and any number of restarts,  *)
(* requests and failed database calls.                                     *)
(***************************************************************************)
EXTENDS AutoFulfillment, WellFoundedInduction, TLAPS

USE DEF jobVars, batchVars, memory, history, Goto, GotoFor, Return, SetAutoJobState

-----------------------------------------------------------------------------
(* Type correctness *)

\* The server starts with variables of their types (a migrated database without jobs).
LEMMA TypeInit == Init => TypeOK
<1> SUFFICES ASSUME Init PROVE TypeOK
  OBVIOUS
<1> USE BoundsAssumption DEF Init
<1>1. queue \in Seq(Orders) /\ Len(queue) <= QueueCap
  OBVIOUS
<1>2. accepted \in [Handlers -> Seq(Orders)]
  OBVIOUS
<1>3. /\ job \in [Orders -> JobStatus] /\ item \in [Orders -> ItemStatus]
      /\ batch \in BatchStatus
  BY DEF JobStatus, ItemStatus, BatchStatus
<1>4. attempts \in [Orders -> 0..MaxAttempts] /\ turn \in [Orders -> Nat] /\ timers \in [Orders -> Nat]
  OBVIOUS
<1>5. /\ pc \in [Threads -> Pc] /\ ref \in [Threads -> Orders \cup {NoOrder}]
      /\ \A t \in Threads : pc[t] = "idle"
  BY DEF Pc
<1>6. /\ requests \in 0..MaxRequests /\ crashes \in 0..MaxCrashes
      /\ dbErrors \in 0..MaxDbErrors
  <2>1. requests = 0 /\ crashes = 0 /\ dbErrors = 0
    BY Zenon
  <2>2. MaxRequests \in Nat /\ MaxCrashes \in Nat /\ MaxDbErrors \in Nat
    BY Zenon
  <2> HIDE DEF Init
  <2> QED
    BY <2>1, <2>2
<1>7. resume \in {"list", "jobs", "done"} /\ todo \subseteq Orders
  OBVIOUS
<1>8. overflowed \in BOOLEAN
  BY Zenon
<1> HIDE DEF Init
<1> QED
  BY <1>1, <1>2, <1>3, <1>4, <1>5, <1>6, <1>7, <1>8 DEF TypeOK

\* What a request selects is a sequence of orders (the refs of runAutoFulfillment).
LEMMA SelectionsAreSequences ==
  ASSUME NEW S, NEW s \in Selections(S)
  PROVE  s \in Seq(S)
  BY DEF Selections

\* The only order of a request for one order is an order (SubmitSingle).
LEMMA FirstOfSequence ==
  ASSUME NEW S, NEW s \in Seq(S), Len(s) = 1
  PROVE  s[1] \in S
  BY SMTT(30)

\* Every step of the goroutines keeps the types.
LEMMA TypeStep == TypeOK /\ [Next]_vars => TypeOK'
<1> SUFFICES ASSUME TypeOK, [Next]_vars PROVE TypeOK'
  OBVIOUS
<1> USE DEF TypeOK, Pc
<1>0. Workers \subseteq Threads /\ Callbacks \subseteq Threads /\ Handlers \subseteq Threads
      /\ Recovery \in Threads
  BY DEF Threads
<1>1. ASSUME NEW t \in Threads, Push(t) PROVE TypeOK'
  <2>1. CASE HasRoom
    <3>1. queue' \in Seq(Orders) /\ Len(queue') = Len(queue) + 1
      <4>1. ref[t] \in Orders /\ queue' = Append(queue, ref[t])
        BY <1>1, <2>1 DEF Push
      <4> QED
        BY <4>1
    <3>2. Len(queue') <= QueueCap
      BY <2>1, <3>1, BoundsAssumption DEF HasRoom
    <3> QED
      BY <1>1, <2>1, <3>1, <3>2 DEF Push
  <2>2. CASE ~HasRoom
    BY <1>1, <2>2 DEF Push
  <2> QED
    BY <2>1, <2>2
<1>2. ASSUME NEW t \in Threads, FailOverflow(t) PROVE TypeOK'
  BY <1>2 DEF FailOverflow, JobStatus
<1>3. ASSUME NEW t \in Threads, NEW v \in {"succeeded", "failed"}, FinishBulkItem(t, v)
      PROVE TypeOK'
  <2>1. CASE batch = "running" /\ item[ref[t]] = "running"
    <3>1. item' \in [Orders -> ItemStatus] /\ batch' \in BatchStatus
      BY <1>3, <2>1 DEF FinishBulkItem, BulkFulfillmentBatchStatus, ItemStatus, BatchStatus
    <3>2. GotoFor(t, "next", NoOrder) \/ GotoFor(t, "idle", NoOrder)
      BY <1>3, <2>1 DEF FinishBulkItem
    <3> QED
      BY ZenonT(60), <1>3, <3>1, <3>2 DEF FinishBulkItem
  <2>2. CASE ~(batch = "running" /\ item[ref[t]] = "running")
    BY <1>3, <2>2 DEF FinishBulkItem
  <2> QED
    BY <2>1, <2>2
<1>4. ASSUME NEW t \in Threads, StartNextBulkItem(t) PROVE TypeOK'
  <2>1. CASE NextItem = {}
    BY <1>4, <2>1 DEF StartNextBulkItem
  <2>2. ASSUME NEW o \in NextItem, item' = [item EXCEPT ![o] = "running"],
               GotoFor(t, "enqueue", o)
        PROVE  TypeOK'
    <3>1. o \in Orders
      BY DEF NextItem, RunningItems, FirstPending
    <3> QED
      BY <1>4, <2>2, <3>1 DEF StartNextBulkItem, ItemStatus
  <2> QED
    BY <1>4, <2>1, <2>2 DEF StartNextBulkItem
<1>5. ASSUME NEW t \in Threads, EnqueueBulkJob(t) PROVE TypeOK'
  BY <1>5 DEF EnqueueBulkJob, JobStatus
<1>6. ASSUME NEW t \in Threads, LoadCreatedJob(t) PROVE TypeOK'
  BY <1>6 DEF LoadCreatedJob
<1>7. ASSUME NEW t \in Threads, LoadExistingJob(t) PROVE TypeOK'
  BY <1>7 DEF LoadExistingJob
<1>8. ASSUME NEW t \in Threads, DbError(t) PROVE TypeOK'
  <2>1. pc[t] # "idle" /\ dbErrors' \in 0..MaxDbErrors
    BY BoundsAssumption, <1>8 DEF DbError
  <2>2. accepted' \in [Handlers -> Seq(Orders)]
    BY <1>8 DEF DbError
  <2>3. CASE Return(t)
    BY BoundsAssumption, <1>8, <2>1, <2>2, <2>3 DEF DbError
  <2>4. ASSUME NEW label \in {"finish_failed", "finish_succeeded"}, Goto(t, label),
               pc[t] \in {"save_failed", "overflow", "save_manual"}
        PROVE  TypeOK'
    BY BoundsAssumption, <1>8, <2>1, <2>2, <2>4 DEF DbError
  <2> QED
    BY <1>8, <2>3, <2>4 DEF DbError
<1>9. ASSUME NEW w \in Workers, Dequeue(w) PROVE TypeOK'
  <2>1. /\ Head(queue) \in Orders /\ queue' \in Seq(Orders)
        /\ Len(queue') = Len(queue) - 1
    BY SMTT(30), <1>9 DEF Dequeue
  <2>2. Len(queue') <= QueueCap
    BY <2>1, BoundsAssumption
  <2> QED
    BY <1>0, <1>9, <2>1, <2>2 DEF Dequeue
<1>10. ASSUME NEW w \in Workers, ClaimAutoJob(w) PROVE TypeOK'
  <2>1. CASE Claimable(ref[w])
    <3>1. attempts' \in [Orders -> 0..MaxAttempts]
      <4> DEFINE n == attempts[ref[w]]
      <4>1. ref[w] \in Orders /\ n \in 0..MaxAttempts
        BY <1>0, <1>10 DEF ClaimAutoJob
      <4>2. (IF n < MaxAttempts THEN n + 1 ELSE n) \in 0..MaxAttempts
        BY <4>1, BoundsAssumption
      <4> QED
        BY <1>10, <2>1, <4>1, <4>2 DEF ClaimAutoJob
    <3>2. job' \in [Orders -> JobStatus]
      BY <1>0, <1>10, <2>1 DEF ClaimAutoJob, JobStatus
    <3> QED
      BY <1>0, <1>10, <2>1, <3>1, <3>2 DEF ClaimAutoJob, JobStatus
  <2>2. CASE ~Claimable(ref[w])
    BY <1>0, <1>10, <2>2 DEF ClaimAutoJob, JobStatus
  <2> QED
    BY <2>1, <2>2
<1>11. ASSUME NEW w \in Workers, ExecuteStep(w) PROVE TypeOK'
  BY <1>0, <1>11 DEF ExecuteStep, JobStatus
<1>12. ASSUME NEW w \in Workers, ExecuteComplete(w) PROVE TypeOK'
  BY <1>0, <1>12 DEF ExecuteComplete, JobStatus
<1>13. ASSUME NEW w \in Workers, ExecuteUnconfirmed(w) PROVE TypeOK'
  <2>1. CASE MayRetry(ref[w])
    <3>1. ref[w] \in Orders
      BY <1>0, <1>13 DEF ExecuteUnconfirmed
    <3>2. timers' \in [Orders -> Nat]
      <4>1. timers' = [timers EXCEPT ![ref[w]] = timers[ref[w]] + 1]
        BY <1>13, <2>1 DEF ExecuteUnconfirmed, ArmTimer
      <4>2. timers[ref[w]] + 1 \in Nat
        BY <3>1
      <4> QED
        BY <4>1, <4>2
    <3>3. job' \in [Orders -> JobStatus]
      BY <1>13, <2>1 DEF ExecuteUnconfirmed, JobStatus
    <3> QED
      BY <1>0, <1>13, <2>1, <3>1, <3>2, <3>3 DEF ExecuteUnconfirmed
  <2>2. CASE ~MayRetry(ref[w])
    BY <1>0, <1>13, <2>2 DEF ExecuteUnconfirmed, JobStatus
  <2> QED
    BY <2>1, <2>2
<1>14. ASSUME NEW w \in Workers, ExecuteFail(w) PROVE TypeOK'
  BY <1>0, <1>14 DEF ExecuteFail
<1>15. ASSUME NEW w \in Workers, SaveRunError(w) PROVE TypeOK'
  <2>1. CASE pc[w] = "save_failed"
    BY ZenonT(60), <1>0, <1>15, <2>1 DEF SaveRunError, JobStatus
  <2>2. CASE pc[w] = "save_manual"
    BY ZenonT(60), <1>0, <1>15, <2>2 DEF SaveRunError, JobStatus
  <2> QED
    BY <1>0, <1>15, <2>1, <2>2 DEF SaveRunError, JobStatus
<1>16. ASSUME NEW w \in Workers, LoadFinishedJob(w) PROVE TypeOK'
  BY ZenonT(60), <1>0, <1>16 DEF LoadFinishedJob
<1>17. ASSUME NEW c \in Callbacks, TimerFires(c) PROVE TypeOK'
  BY SMTT(30), <1>0, <1>17 DEF TimerFires
<1>18. ASSUME NEW c \in Callbacks, RequeueWaitingAutoJob(c) PROVE TypeOK'
  BY ZenonT(60), <1>0, <1>18 DEF RequeueWaitingAutoJob, JobStatus
<1>19. ASSUME NEW h \in Handlers, ValidateRequest(h) PROVE TypeOK'
  BY <1>0, <1>19, BoundsAssumption, SelectionsAreSequences DEF ValidateRequest
<1>20. ASSUME NEW h \in Handlers, SubmitSingle(h) PROVE TypeOK'
  <2> DEFINE o == accepted[h][1]
  <2>1. o \in Orders
    <3>1. accepted[h] \in Seq(Orders) /\ Len(accepted[h]) = 1
      BY <1>20 DEF SubmitSingle
    <3> QED
      BY <3>1, FirstOfSequence
  <2>2. accepted' \in [Handlers -> Seq(Orders)]
    BY <1>0, <1>20 DEF SubmitSingle, JobStatus
  <2> HIDE DEF o
  <2>3. CASE Enqueueable(o) /\ SetAutoJobState(o, "queued") /\ GotoFor(h, "created", o)
    BY <1>0, <1>20, <2>1, <2>2, <2>3 DEF SubmitSingle, JobStatus
  <2>4. CASE Return(h) /\ UNCHANGED jobVars
    BY <1>0, <1>20, <2>2, <2>4 DEF SubmitSingle, JobStatus
  <2> QED
    BY <1>0, <1>20, <2>3, <2>4 DEF SubmitSingle, JobStatus, o
<1>21. ASSUME NEW h \in Handlers, CreateBulk(h) PROVE TypeOK'
  <2>1. accepted' \in [Handlers -> Seq(Orders)]
    BY <1>0, <1>21 DEF CreateBulk
  <2>2. CASE batch = "running"
    BY ZenonT(60), <1>0, <1>21, <2>1, <2>2 DEF CreateBulk
  <2>3. CASE batch # "running"
    <3>1. DOMAIN accepted[h] \subseteq Nat
      BY SMTT(30)
    <3>2. item' \in [Orders -> ItemStatus] /\ turn' \in [Orders -> Nat]
      BY SMTT(30), <1>0, <1>21, <2>3, <3>1 DEF CreateBulk, ItemStatus
    <3> QED
      BY ZenonT(60), <1>0, <1>21, <2>1, <2>3, <3>2 DEF CreateBulk, BatchStatus
  <2> QED
    BY <2>2, <2>3
<1>22. ASSUME NEW o \in Orders, EnsureWarehouseLedgerJob(o) PROVE TypeOK'
  BY <1>22 DEF EnsureWarehouseLedgerJob, JobStatus
<1>23. CASE ListResumableAutoJobs
  BY <1>23 DEF ListResumableAutoJobs, JobStatus
<1>24. CASE PushResumedJob
  BY <1>0, <1>24 DEF PushResumedJob
<1>25. CASE ResumeBatch
  BY <1>0, <1>25 DEF ResumeBatch
<1>26. CASE RecoveryDbError
  BY BoundsAssumption, <1>26 DEF RecoveryDbError
<1>27. CASE Crash
  BY BoundsAssumption, <1>27 DEF Crash
<1>28. CASE UNCHANGED vars
  BY <1>28 DEF vars
<1> QED
  BY <1>1, <1>2, <1>3, <1>4, <1>5, <1>6, <1>7, <1>8, <1>9, <1>10, <1>11, <1>12,
     <1>13, <1>14, <1>15, <1>16, <1>17, <1>18, <1>19, <1>20, <1>21, <1>22, <1>23,
     <1>24, <1>25, <1>26, <1>27, <1>28
  DEF Next, SharedStep, WorkerStep, EndRun, CallbackStep, HandlerStep, RecoveryStep

\* Every status, program counter, queue and bound keeps its type.
THEOREM TypeCorrect == Spec => []TypeOK
  BY TypeInit, TypeStep, PTL DEF Spec
-----------------------------------------------------------------------------
(* One worker per order *)

\* Until Recovery has read the jobs nothing is under way in this process.
QuietBeforeRecovery ==
    ~EarlyRequests /\ resume = "list" =>
        /\ \A t \in Threads : pc[t] = "idle"
        /\ queue = <<>>
        /\ \A o \in Orders : timers[o] = 0

\* The job a worker runs says so: nobody else has written its status.
RunningJobs ==
    Undisturbed => \A w \in Workers : Running(w) => job[ref[w]] = "running"

OverflowKnown == \A t \in Threads : pc[t] = "overflow" => overflowed

RunInv ==
    /\ TypeOK
    /\ QuietBeforeRecovery
    /\ OverflowKnown
    /\ RunningJobs
    /\ OneWorkerPerOrder

\* No run is in progress when the server starts.
LEMMA RunInit == Init => RunInv
<1> SUFFICES ASSUME Init PROVE RunInv
  OBVIOUS
<1>1. TypeOK
  BY TypeInit
<1>2. /\ \A t \in Threads : pc[t] = "idle"
      /\ queue = <<>> /\ \A o \in Orders : timers[o] = 0
  BY DEF Init
<1>3. Workers \subseteq Threads
  BY DEF Threads
<1> QED
  BY <1>1, <1>2, <1>3
  DEF RunInv, QuietBeforeRecovery, OverflowKnown, RunningJobs, OneWorkerPerOrder, Running

\* Until Recovery has read the jobs, nothing else moves, if no request is served earlier.
LEMMA QuietStep == RunInv /\ [Next]_vars => QuietBeforeRecovery'
<1> SUFFICES ASSUME RunInv, [Next]_vars, ~EarlyRequests, resume' = "list"
             PROVE  /\ \A t \in Threads : pc'[t] = "idle"
                    /\ queue' = <<>>
                    /\ \A o \in Orders : timers'[o] = 0
  BY DEF QuietBeforeRecovery
<1>0. /\ Workers \subseteq Threads /\ Callbacks \subseteq Threads
      /\ Handlers \subseteq Threads /\ Recovery \in Threads
  BY DEF Threads
<1>1. CASE Crash
  BY <1>1 DEF Crash
<1>2. CASE UNCHANGED vars
  BY <1>2 DEF vars, RunInv, QuietBeforeRecovery
<1>3. CASE resume = "list" /\ \E o \in Orders : EnsureWarehouseLedgerJob(o)
  BY SMTT(30), <1>3 DEF EnsureWarehouseLedgerJob, RunInv, QuietBeforeRecovery
<1>4. CASE resume # "list" /\ Next /\ ~Crash
  BY ZenonT(60), <1>4 DEF Next, SharedStep, Push, FailOverflow, FinishBulkItem, StartNextBulkItem,
     EnqueueBulkJob, LoadCreatedJob, LoadExistingJob, DbError, WorkerStep, EndRun, Dequeue,
     ClaimAutoJob, ExecuteStep, ExecuteComplete, ExecuteUnconfirmed, ExecuteFail,
     SaveRunError, LoadFinishedJob, CallbackStep, TimerFires, RequeueWaitingAutoJob,
     ValidateRequest, HandlerStep, SubmitSingle, CreateBulk, EnsureWarehouseLedgerJob,
     RecoveryStep, ListResumableAutoJobs, PushResumedJob, ResumeBatch, RecoveryDbError
<1>5. CASE resume = "list" /\ Next /\ ~Crash /\ ~\E o \in Orders : EnsureWarehouseLedgerJob(o)
  <2>1. /\ \A t \in Threads : pc[t] = "idle"
        /\ queue = <<>> /\ \A o \in Orders : timers[o] = 0
    BY <1>5 DEF RunInv, QuietBeforeRecovery
  <2>2. \A t \in Threads : ~SharedStep(t) /\ ~DbError(t)
    BY <2>1 DEF SharedStep, Push, FailOverflow, FinishBulkItem, FinishLabel,
       StartNextBulkItem, EnqueueBulkJob, LoadCreatedJob, LoadExistingJob, DbError
  <2>3. \A w \in Workers : ~WorkerStep(w) /\ ~ExecuteStep(w)
    BY <1>0, <2>1 DEF WorkerStep, EndRun, Dequeue, ClaimAutoJob, ExecuteStep,
       ExecuteComplete, ExecuteUnconfirmed, ExecuteFail, SaveRunError, LoadFinishedJob
  <2>4. \A c \in Callbacks : ~CallbackStep(c)
    BY <1>0, <2>1 DEF CallbackStep, TimerFires, RequeueWaitingAutoJob
  <2>5. \A h \in Handlers : ~ValidateRequest(h) /\ ~HandlerStep(h)
    BY <1>0, <1>5, <2>1 DEF ValidateRequest, HandlerStep, SubmitSingle, CreateBulk
  <2>6. ~RecoveryStep /\ ~RecoveryDbError
    BY <1>5 DEF RecoveryStep, ListResumableAutoJobs, PushResumedJob, ResumeBatch,
       RecoveryDbError
  <2> QED
    BY <1>5, <2>2, <2>3, <2>4, <2>5, <2>6 DEF Next
<1> QED
  BY <1>1, <1>2, <1>3, <1>4, <1>5

\* A step that starts no run and writes no job of a running worker keeps the
\* two facts about runs.
LEMMA NoNewRun ==
  ASSUME RunInv, Undisturbed' => Undisturbed,
         \A w \in Workers : Running(w)' => Running(w) /\ ref'[w] = ref[w],
         \A w \in Workers : Running(w)' /\ Undisturbed => job'[ref[w]] = job[ref[w]]
  PROVE  RunningJobs' /\ OneWorkerPerOrder'
  BY DEF RunInv, RunningJobs, OneWorkerPerOrder

\* Every step keeps one worker per running order: ClaimAutoJob is a compare-and-set.
LEMMA RunStep == RunInv /\ [Next]_vars => RunningJobs' /\ OneWorkerPerOrder' /\ OverflowKnown'
<1> SUFFICES ASSUME RunInv, [Next]_vars
             PROVE  RunningJobs' /\ OneWorkerPerOrder' /\ OverflowKnown'
  OBVIOUS
<1>0. /\ Workers \subseteq Threads /\ Callbacks \subseteq Threads
      /\ Handlers \subseteq Threads /\ Recovery \in Threads
  BY DEF Threads
<1>a. /\ job \in [Orders -> JobStatus]
      /\ pc \in [Threads -> Pc] /\ ref \in [Threads -> Orders \cup {NoOrder}]
      /\ \A t \in Threads : pc[t] \notin {"idle", "next", "submit"} => ref[t] \in Orders
  BY DEF RunInv, TypeOK
<1>b. \A w \in Workers : Running(w) /\ Undisturbed => job[ref[w]] = "running"
  BY DEF RunInv, RunningJobs
<1> DEFINE Keeps == RunningJobs' /\ OneWorkerPerOrder' /\ OverflowKnown'
<1>1. ASSUME NEW t \in Threads, Push(t) PROVE Keeps
  BY <1>0, <1>a, <1>1, NoNewRun DEF Push, RunInv, OverflowKnown, Running, Undisturbed
<1>2. ASSUME NEW t \in Threads, FailOverflow(t) PROVE Keeps
  <2>1. overflowed /\ overflowed'
    BY <1>2 DEF FailOverflow, RunInv, OverflowKnown
  <2> QED
    BY <2>1 DEF RunningJobs, OneWorkerPerOrder, OverflowKnown, Undisturbed
<1>3. ASSUME NEW t \in Threads, NEW v \in {"succeeded", "failed"}, FinishBulkItem(t, v)
      PROVE Keeps
  BY <1>0, <1>a, <1>3, NoNewRun
  DEF FinishBulkItem, FinishLabel, RunInv, OverflowKnown, Running, Undisturbed
<1>4. ASSUME NEW t \in Threads, StartNextBulkItem(t) PROVE Keeps
  BY <1>0, <1>a, <1>4, NoNewRun DEF StartNextBulkItem, RunInv, OverflowKnown, Running, Undisturbed
<1>5. ASSUME NEW t \in Threads, EnqueueBulkJob(t) PROVE Keeps
  BY <1>0, <1>a, <1>b, <1>5, NoNewRun
  DEF EnqueueBulkJob, Enqueueable, RunInv, OverflowKnown, Running, Undisturbed
<1>6. ASSUME NEW t \in Threads, LoadCreatedJob(t) PROVE Keeps
  BY <1>0, <1>a, <1>6, NoNewRun DEF LoadCreatedJob, RunInv, OverflowKnown, Running, Undisturbed
<1>7. ASSUME NEW t \in Threads, LoadExistingJob(t) PROVE Keeps
  BY <1>0, <1>a, <1>7, NoNewRun DEF LoadExistingJob, RunInv, OverflowKnown, Running, Undisturbed
<1>8. ASSUME NEW t \in Threads, DbError(t) PROVE Keeps
  BY <1>0, <1>a, <1>8, NoNewRun DEF DbError, RunInv, OverflowKnown, Running, Undisturbed
<1>9. ASSUME NEW w \in Workers, Dequeue(w) PROVE Keeps
  BY <1>0, <1>a, <1>9, NoNewRun DEF Dequeue, RunInv, OverflowKnown, Running, Undisturbed
<1>10. ASSUME NEW w \in Workers, ClaimAutoJob(w) PROVE Keeps
  <2>1. CASE Claimable(ref[w])
    <3>1. /\ job[ref[w]] = "queued" /\ job' = [job EXCEPT ![ref[w]] = "running"]
          /\ pc' = [pc EXCEPT ![w] = "execute"] /\ UNCHANGED <<ref, overflowed>>
      BY <1>10, <2>1 DEF ClaimAutoJob, Claimable
    <3>2. Undisturbed => \A v \in Workers : Running(v) => ref[v] # ref[w]
      BY <1>b, <3>1
    <3>3. \A v \in Workers : v # w /\ Running(v)' => Running(v)
      BY <1>0, <1>a, <3>1 DEF Running
    <3>4. ref[w] \in Orders /\ job'[ref[w]] = "running"
      BY <1>0, <1>a, <1>10, <3>1 DEF ClaimAutoJob
    <3>5. RunningJobs'
      BY <1>b, <1>a, <1>0, <3>1, <3>3, <3>4 DEF RunningJobs, Undisturbed
    <3>6. OneWorkerPerOrder'
      BY <3>1, <3>2, <3>3 DEF RunInv, OneWorkerPerOrder, Undisturbed
    <3>7. OverflowKnown'
      BY <1>0, <1>a, <3>1 DEF RunInv, OverflowKnown
    <3> QED
      BY <3>5, <3>6, <3>7
  <2>2. CASE ~Claimable(ref[w])
    BY <1>0, <1>a, <1>10, <2>2, NoNewRun
    DEF ClaimAutoJob, RunInv, OverflowKnown, Running, Undisturbed
  <2> QED
    BY <2>1, <2>2
<1>11. ASSUME NEW w \in Workers, ExecuteStep(w) PROVE Keeps
  BY <1>0, <1>a, <1>b, <1>11, NoNewRun DEF ExecuteStep, RunInv, OverflowKnown, Running, Undisturbed
\* A run that ends leaves its order to nobody: no other worker runs it.
<1>c. \A v, w \in Workers :
        Running(v) /\ Running(w) /\ v # w /\ Undisturbed => ref[v] # ref[w]
  BY DEF RunInv, OneWorkerPerOrder
<1>12. ASSUME NEW w \in Workers, ExecuteComplete(w) PROVE Keeps
  BY <1>0, <1>a, <1>c, <1>12, NoNewRun
  DEF ExecuteComplete, RunInv, OverflowKnown, Running, Undisturbed
<1>13. ASSUME NEW w \in Workers, ExecuteUnconfirmed(w) PROVE Keeps
  BY <1>0, <1>a, <1>c, <1>13, NoNewRun
  DEF ExecuteUnconfirmed, RunInv, OverflowKnown, Running, Undisturbed
<1>14. ASSUME NEW w \in Workers, ExecuteFail(w) PROVE Keeps
  BY <1>0, <1>a, <1>14, NoNewRun DEF ExecuteFail, RunInv, OverflowKnown, Running, Undisturbed
<1>15. ASSUME NEW w \in Workers, SaveRunError(w) PROVE Keeps
  BY <1>0, <1>a, <1>c, <1>15, NoNewRun
  DEF SaveRunError, RunInv, OverflowKnown, Running, Undisturbed
<1>16. ASSUME NEW w \in Workers, LoadFinishedJob(w) PROVE Keeps
  BY <1>0, <1>a, <1>16, NoNewRun DEF LoadFinishedJob, RunInv, OverflowKnown, Running, Undisturbed
<1>17. ASSUME NEW c \in Callbacks, TimerFires(c) PROVE Keeps
  BY <1>0, <1>a, <1>17, NoNewRun DEF TimerFires, RunInv, OverflowKnown, Running, Undisturbed
<1>18. ASSUME NEW c \in Callbacks, RequeueWaitingAutoJob(c) PROVE Keeps
  BY <1>0, <1>a, <1>b, <1>18, NoNewRun
  DEF RequeueWaitingAutoJob, RunInv, OverflowKnown, Running, Undisturbed
<1>19. ASSUME NEW h \in Handlers, ValidateRequest(h) PROVE Keeps
  BY <1>0, <1>a, <1>19, NoNewRun DEF ValidateRequest, RunInv, OverflowKnown, Running, Undisturbed
<1>20. ASSUME NEW h \in Handlers, SubmitSingle(h) PROVE Keeps
  BY <1>0, <1>a, <1>b, <1>20, NoNewRun
  DEF SubmitSingle, Enqueueable, RunInv, OverflowKnown, Running, Undisturbed
<1>21. ASSUME NEW h \in Handlers, CreateBulk(h) PROVE Keeps
  BY <1>0, <1>a, <1>21, NoNewRun DEF CreateBulk, RunInv, OverflowKnown, Running, Undisturbed
<1>22. ASSUME NEW o \in Orders, EnsureWarehouseLedgerJob(o) PROVE Keeps
  BY <1>0, <1>a, <1>b, <1>22, NoNewRun
  DEF EnsureWarehouseLedgerJob, RunInv, OverflowKnown, Running, Undisturbed
<1>23. CASE ListResumableAutoJobs
  <2>1. ~EarlyRequests => \A w \in Workers : ~Running(w)
    BY <1>0, <1>23 DEF ListResumableAutoJobs, RunInv, QuietBeforeRecovery, Running
  <2> QED
    BY <1>23, <2>1, NoNewRun
    DEF ListResumableAutoJobs, RunInv, OverflowKnown, Running, Undisturbed
<1>24. CASE PushResumedJob
  BY <1>0, <1>a, <1>24, NoNewRun DEF PushResumedJob, RunInv, OverflowKnown, Running, Undisturbed
<1>25. CASE ResumeBatch
  BY <1>0, <1>a, <1>25, NoNewRun DEF ResumeBatch, RunInv, OverflowKnown, Running, Undisturbed
<1>26. CASE RecoveryDbError
  BY <1>26, NoNewRun DEF RecoveryDbError, RunInv, OverflowKnown, Running, Undisturbed
<1>27. CASE Crash
  BY <1>0, <1>27, NoNewRun DEF Crash, RunInv, OverflowKnown, Running, Undisturbed
<1>28. CASE UNCHANGED vars
  BY <1>28, NoNewRun DEF vars, RunInv, OverflowKnown, Running, Undisturbed
<1> QED
  BY <1>1, <1>2, <1>3, <1>4, <1>5, <1>6, <1>7, <1>8, <1>9, <1>10, <1>11, <1>12,
     <1>13, <1>14, <1>15, <1>16, <1>17, <1>18, <1>19, <1>20, <1>21, <1>22, <1>23,
     <1>24, <1>25, <1>26, <1>27, <1>28
  DEF Next, SharedStep, WorkerStep, EndRun, CallbackStep, HandlerStep, RecoveryStep

\* What OneWorkerPerOrder rests on holds in every behaviour.
THEOREM RunInvariant == Spec => []RunInv
<1>1. RunInv /\ [Next]_vars => RunInv'
  BY TypeStep, QuietStep, RunStep DEF RunInv
<1> QED
  BY RunInit, <1>1, PTL DEF Spec

\* ClaimAutoJob is a lock: two workers never run the same order, unless the
\* channel overflowed or a request was served before Recovery.
THEOREM WorkersExclude == Spec => []OneWorkerPerOrder
<1>1. RunInv => OneWorkerPerOrder
  BY DEF RunInv
<1> QED
  BY RunInvariant, <1>1, PTL

-----------------------------------------------------------------------------
(* A fulfilled order stays fulfilled *)

\* No single step takes a job that was fulfilled, or handed to the operators, to another
\* status (all SQL guards on status).
LEMMA DoneStep ==
  ASSUME RunInv, [Next]_vars, Undisturbed, ~overflowed',
         NEW o \in Orders, job[o] \in {"completed", "manual"}
  PROVE  job'[o] = job[o]
<1>0. Workers \subseteq Threads
  BY DEF Threads
<1>a. /\ job \in [Orders -> JobStatus]
      /\ \A t \in Threads : pc[t] \notin {"idle", "next", "submit"} => ref[t] \in Orders
  BY DEF RunInv, TypeOK
<1>b. \A w \in Workers : Running(w) => ref[w] # o
  BY DEF RunInv, RunningJobs
<1>1. ASSUME NEW t \in Threads, SharedStep(t) \/ DbError(t) PROVE job'[o] = job[o]
  <2>1. ~FailOverflow(t)
    BY DEF FailOverflow, RunInv, OverflowKnown, Undisturbed
  <2>2. CASE EnqueueBulkJob(t)
    BY <1>a, <2>2 DEF EnqueueBulkJob, Enqueueable
  <2>3. CASE ~EnqueueBulkJob(t)
    BY <1>1, <2>1, <2>3 DEF SharedStep, Push, FinishBulkItem, StartNextBulkItem,
       LoadCreatedJob, LoadExistingJob, DbError
  <2> QED
    BY <2>2, <2>3
<1>2. ASSUME NEW w \in Workers, WorkerStep(w) \/ ExecuteStep(w) PROVE job'[o] = job[o]
  <2>1. CASE ClaimAutoJob(w)
    BY <1>a, <2>1 DEF ClaimAutoJob, Claimable
  <2>2. CASE ExecuteStep(w) \/ ExecuteComplete(w)
    BY <1>a, <1>b, <2>2 DEF ExecuteStep, ExecuteComplete, Running
  <2>3. CASE ExecuteUnconfirmed(w)
    BY <1>a, <1>b, <2>3 DEF ExecuteUnconfirmed, Running
  <2>4. CASE SaveRunError(w)
    BY <1>a, <1>b, <2>4 DEF SaveRunError, Running
  <2>5. CASE Dequeue(w) \/ ExecuteFail(w) \/ LoadFinishedJob(w)
    BY <2>5 DEF Dequeue, ExecuteFail, LoadFinishedJob
  <2> QED
    BY <1>2, <2>1, <2>2, <2>3, <2>4, <2>5 DEF WorkerStep, EndRun
<1>3. ASSUME NEW c \in Callbacks, CallbackStep(c) PROVE job'[o] = job[o]
  BY <1>a, <1>3 DEF CallbackStep, TimerFires, RequeueWaitingAutoJob
<1>4. ASSUME NEW h \in Handlers, ValidateRequest(h) \/ HandlerStep(h) PROVE job'[o] = job[o]
  BY <1>a, <1>4 DEF HandlerStep, ValidateRequest, SubmitSingle, Enqueueable, CreateBulk
<1>5. ASSUME NEW p \in Orders, EnsureWarehouseLedgerJob(p) PROVE job'[o] = job[o]
  BY <1>a, <1>5 DEF EnsureWarehouseLedgerJob
<1>6. CASE RecoveryStep \/ RecoveryDbError
  BY <1>6 DEF RecoveryStep, RecoveryDbError, ListResumableAutoJobs, Resumable,
     PushResumedJob, ResumeBatch
<1>7. CASE Crash \/ UNCHANGED vars
  BY <1>7 DEF Crash, vars
<1> QED
  BY <1>1, <1>2, <1>3, <1>4, <1>5, <1>6, <1>7 DEF Next

\* Neither a late reference on the channel, a timer, a restart nor a failed
\* statement takes a completed job back.
THEOREM CompletedOrdersStay == Spec => CompletedStaysCompleted
<1>1. RunInv /\ [Next]_vars
        => [Undisturbed /\ ~overflowed' =>
              \A o \in Orders : job[o] = "completed" => job'[o] = "completed"]_vars
  BY DoneStep
<1> QED
  BY RunInvariant, <1>1, PTL DEF Spec, CompletedStaysCompleted

-----------------------------------------------------------------------------
(* The batch *)

\* The sequence numbers of a batch are distinct.
TurnsDistinct ==
    \A o, p \in Orders :
        item[o] # "none" /\ item[p] # "none" /\ turn[o] = turn[p] => o = p

BatchInv == TypeOK /\ TurnsDistinct /\ BatchWellFormed

\* There is no batch when the server starts.
LEMMA BatchInit == Init => BatchInv
<1> SUFFICES ASSUME Init PROVE BatchInv
  OBVIOUS
<1>1. batch = "none" /\ \A o \in Orders : item[o] = "none"
  BY DEF Init
<1> QED
  BY <1>1, TypeInit DEF BatchInv, TurnsDistinct, BatchWellFormed, OpenItems, RunningItems

\* The transaction that starts the first pending item.
LEMMA StartKeepsBatch ==
  ASSUME BatchInv, NEW t \in Threads, StartNextBulkItem(t)
  PROVE  TurnsDistinct' /\ BatchWellFormed'
<1>0. /\ item \in [Orders -> ItemStatus] /\ turn \in [Orders -> Nat]
      /\ TurnsDistinct /\ BatchWellFormed
  BY DEF BatchInv, TypeOK
<1>1. CASE UNCHANGED <<item, batch, turn>>
  BY <1>0, <1>1 DEF TurnsDistinct, BatchWellFormed, OpenItems, RunningItems
<1>2. ASSUME NEW o \in NextItem, item' = [item EXCEPT ![o] = "running"]
      PROVE  TurnsDistinct' /\ BatchWellFormed'
  <2>0. UNCHANGED <<batch, turn>> /\ o \in Orders /\ batch = "running"
    BY <1>2 DEF StartNextBulkItem, NextItem, RunningItems, FirstPending
  <2>1. CASE item[o] = "running"
    <3>1. item' = item
      BY <1>0, <1>2, <2>0, <2>1
    <3> QED
      BY <1>1, <2>0, <3>1
  <2>2. CASE item[o] # "running"
    <3>1. /\ item[o] = "pending" /\ RunningItems = {}
          /\ \A p \in Orders : item[p] = "pending" => turn[o] <= turn[p]
      BY <2>2, <2>0 DEF NextItem, RunningItems, FirstPending
    <3>2. \A p \in Orders : item'[p] = IF p = o THEN "running" ELSE item[p]
      BY <1>0, <1>2, <2>0
    <3>3. \A p \in Orders : item[p] # "running"
      BY <3>1 DEF RunningItems
    <3>4. TurnsDistinct'
      BY <1>0, <2>0, <3>1, <3>2 DEF TurnsDistinct
    <3>5. (\A p, q \in RunningItems : p = q)'
      BY <3>2, <3>3 DEF RunningItems
    <3>6. \A p, q \in Orders :
             item'[p] \notin {"none", "pending"} /\ item'[q] = "pending" => turn'[p] < turn'[q]
      <4> SUFFICES ASSUME NEW p \in Orders, NEW q \in Orders,
                          item'[p] \notin {"none", "pending"}, item'[q] = "pending"
                   PROVE  turn[p] < turn[q]
        BY <2>0
      <4>1. item[q] = "pending" /\ q # o
        BY <3>2
      <4>2. CASE p = o
        <5>1. turn[o] <= turn[q] /\ turn[o] # turn[q]
          BY <1>0, <2>0, <3>1, <4>1 DEF TurnsDistinct
        <5> QED
          BY <1>0, <4>2, <5>1, <2>0
      <4>3. CASE p # o
        BY <1>0, <3>2, <4>1, <4>3 DEF BatchWellFormed
      <4> QED
        BY <4>2, <4>3
    <3>7. OpenItems(item)' # {}
      BY <2>0, <3>2 DEF OpenItems
    <3> QED
      BY <2>0, <3>4, <3>5, <3>6, <3>7 DEF BatchWellFormed
  <2> QED
    BY <2>1, <2>2
<1> QED
  BY <1>1, <1>2 DEF StartNextBulkItem

\* The transaction that gives the running item its verdict.
LEMMA FinishKeepsBatch ==
  ASSUME BatchInv, NEW t \in Threads, NEW v \in {"succeeded", "failed"}, FinishBulkItem(t, v)
  PROVE  TurnsDistinct' /\ BatchWellFormed'
<1>0. /\ item \in [Orders -> ItemStatus] /\ turn \in [Orders -> Nat]
      /\ TurnsDistinct /\ BatchWellFormed
  BY DEF BatchInv, TypeOK
<1>1. CASE UNCHANGED <<item, batch, turn>>
  BY <1>0, <1>1 DEF TurnsDistinct, BatchWellFormed, OpenItems, RunningItems
<1>2. CASE batch = "running" /\ item[ref[t]] = "running"
  <2> DEFINE o == ref[t]
  <2>0. pc[t] # "idle" /\ pc[t] # "next" /\ pc[t] # "submit"
    BY DEF FinishBulkItem, FinishLabel
  <2>1. o \in Orders
    BY <2>0 DEF BatchInv, TypeOK
  <2>2. /\ \A p \in Orders : item'[p] = IF p = o THEN v ELSE item[p]
        /\ turn' = turn /\ batch' = BulkFulfillmentBatchStatus(item')
    BY <1>0, <1>2, <2>1 DEF FinishBulkItem
  <2> HIDE DEF o
  <2>3. item[o] = "running"
    BY <1>2 DEF o
  <2>4. TurnsDistinct'
    BY <1>0, <2>1, <2>2, <2>3 DEF TurnsDistinct
  <2>5. (\A p, q \in RunningItems : p = q)'
    BY <1>0, <2>2 DEF BatchWellFormed, RunningItems
  <2>6. \A p, q \in Orders :
           item'[p] \notin {"none", "pending"} /\ item'[q] = "pending" => turn'[p] < turn'[q]
    BY <1>0, <2>1, <2>2, <2>3 DEF BatchWellFormed
  <2>7. /\ batch' = "running" <=> OpenItems(item)' # {}
        /\ batch' = "completed" => \A p \in Orders : item'[p] # "failed"
        /\ batch' = "completed_with_errors" => \E p \in Orders : item'[p] = "failed"
    BY <2>2 DEF BulkFulfillmentBatchStatus, OpenItems
  <2> QED
    BY <2>4, <2>5, <2>6, <2>7 DEF BatchWellFormed
<1> QED
  BY <1>1, <1>2 DEF FinishBulkItem

\* The transaction that creates a batch.
LEMMA CreateKeepsBatch ==
  ASSUME BatchInv, NEW h \in Handlers, CreateBulk(h)
  PROVE  TurnsDistinct' /\ BatchWellFormed'
<1>0. TurnsDistinct /\ BatchWellFormed /\ accepted \in [Handlers -> Seq(Orders)]
  BY DEF BatchInv, TypeOK
<1>1. CASE batch = "running"
  BY <1>0, <1>1 DEF CreateBulk, TurnsDistinct, BatchWellFormed, OpenItems, RunningItems
<1>2. CASE batch # "running"
  <2> DEFINE s == accepted[h]
  <2>1. s \in Seq(Orders) /\ Len(s) > 1
    BY <1>0 DEF CreateBulk
  <2>2. /\ batch' = "running"
        /\ item' = [o \in Orders |-> IF \E i \in DOMAIN s : s[i] = o THEN "pending" ELSE "none"]
        /\ turn' = [o \in Orders |-> IF \E i \in DOMAIN s : s[i] = o
                                     THEN CHOOSE i \in DOMAIN s : s[i] = o ELSE 0]
    BY <1>2 DEF CreateBulk
  <2> HIDE DEF s
  <2>3. \A o \in Orders : item'[o] # "none" => item'[o] = "pending" /\ s[turn'[o]] = o
    BY <2>2
  <2>4. s[1] \in Orders /\ 1 \in DOMAIN s
    BY <2>1
  <2>5. item'[s[1]] = "pending"
    BY <2>2, <2>4
  <2>6. TurnsDistinct'
    BY <2>3 DEF TurnsDistinct
  <2>7. OpenItems(item)' # {}
    BY <2>4, <2>5 DEF OpenItems
  <2> QED
    BY <2>2, <2>3, <2>6, <2>7 DEF BatchWellFormed, RunningItems
<1> QED
  BY <1>1, <1>2

\* Every step keeps the batch and its items in agreement (bulk_fulfillment.go).
LEMMA BatchStep == BatchInv /\ [Next]_vars => TurnsDistinct' /\ BatchWellFormed'
<1> SUFFICES ASSUME BatchInv, [Next]_vars PROVE TurnsDistinct' /\ BatchWellFormed'
  OBVIOUS
<1>1. CASE UNCHANGED batchVars
  BY <1>1 DEF BatchInv, TurnsDistinct, BatchWellFormed, OpenItems, RunningItems
<1>2. ASSUME NEW t \in Threads, SharedStep(t) PROVE TurnsDistinct' /\ BatchWellFormed'
  BY <1>1, <1>2, StartKeepsBatch, FinishKeepsBatch
  DEF SharedStep, Push, FailOverflow, EnqueueBulkJob, LoadCreatedJob, LoadExistingJob
<1>3. ASSUME NEW h \in Handlers, CreateBulk(h) PROVE TurnsDistinct' /\ BatchWellFormed'
  BY <1>3, CreateKeepsBatch
<1>4. ASSUME ~\E t \in Threads : SharedStep(t), ~\E h \in Handlers : CreateBulk(h)
      PROVE  UNCHANGED batchVars
  BY <1>4 DEF Next, vars, DbError, WorkerStep, EndRun, Dequeue, ClaimAutoJob, ExecuteStep,
     ExecuteComplete, ExecuteUnconfirmed, ExecuteFail, SaveRunError, LoadFinishedJob,
     CallbackStep, TimerFires, RequeueWaitingAutoJob, ValidateRequest, HandlerStep,
     SubmitSingle, EnsureWarehouseLedgerJob, RecoveryStep, ListResumableAutoJobs,
     PushResumedJob, ResumeBatch, RecoveryDbError, Crash
<1> QED
  BY <1>1, <1>2, <1>3, <1>4

\* At most one item of the batch runs, items start in sequence, and the status
\* of the batch is what its items say, whichever goroutines advance it.
THEOREM BatchConsistent == Spec => []BatchWellFormed
<1>1. BatchInv /\ [Next]_vars => BatchInv'
  BY TypeStep, BatchStep DEF BatchInv
<1>2. BatchInv => BatchWellFormed
  BY DEF BatchInv
<1> QED
  BY BatchInit, <1>1, <1>2, PTL DEF Spec

-----------------------------------------------------------------------------
(* No job is forgotten *)

QueuedHandled(o) ==
    job[o] = "queued" =>
        \/ o \in todo
        \/ \E i \in DOMAIN queue : queue[i] = o
        \/ \E t \in Threads :
              ref[t] = o /\ pc[t] \in {"created", "push", "claim", "overflow"}
RunningHandled(o) ==
    job[o] = "running" => \E w \in Workers : Running(w) /\ ref[w] = o
WaitingHandled(o) ==
    job[o] = "waiting" =>
        timers[o] > 0 \/ \E c \in Callbacks : ref[c] = o /\ pc[c] = "fire"

Handled(o) == QueuedHandled(o) /\ RunningHandled(o) /\ WaitingHandled(o)

\* A waiting job may be retried: the timer will not find it out of attempts.
WaitingMayRetry == \A o \in Orders : job[o] = "waiting" => attempts[o] < MaxAttempts

HandledInv == TypeOK /\ WaitingMayRetry /\ JobIsHandled

\* There is no job to be handled when the server starts.
LEMMA HandledInit == Init => HandledInv
  BY TypeInit DEF Init, HandledInv, WaitingMayRetry, JobIsHandled

\* A job is set to waiting only with attempts left, so its timer may requeue it.
LEMMA WaitingStep == HandledInv /\ [Next]_vars => WaitingMayRetry'
<1> SUFFICES ASSUME HandledInv, [Next]_vars, NEW o \in Orders, job'[o] = "waiting"
             PROVE  attempts'[o] < MaxAttempts
  BY DEF WaitingMayRetry
<1>0. /\ job \in [Orders -> JobStatus] /\ attempts \in [Orders -> 0..MaxAttempts]
      /\ \A t \in Threads : pc[t] \notin {"idle", "next", "submit"} => ref[t] \in Orders
      /\ Workers \subseteq Threads
      /\ job[o] = "waiting" => attempts[o] < MaxAttempts
  BY DEF HandledInv, TypeOK, WaitingMayRetry, Threads
<1>1. CASE UNCHANGED attempts /\ job[o] = "waiting"
  BY <1>0, <1>1
<1>2. ASSUME NEW w \in Workers, ClaimAutoJob(w) PROVE attempts'[o] < MaxAttempts
  BY <1>0, <1>2 DEF ClaimAutoJob
<1>3. ASSUME NEW w \in Workers, ExecuteUnconfirmed(w) PROVE attempts'[o] < MaxAttempts
  BY SMTT(30), <1>0, <1>3 DEF ExecuteUnconfirmed, MayRetry
<1>4. ASSUME ~\E w \in Workers : ClaimAutoJob(w) \/ ExecuteUnconfirmed(w)
      PROVE  UNCHANGED attempts /\ job[o] = "waiting"
  BY <1>0, <1>4 DEF Next, vars, SharedStep, Push, FailOverflow, FinishBulkItem,
     StartNextBulkItem, EnqueueBulkJob, LoadCreatedJob, LoadExistingJob, DbError, WorkerStep,
     EndRun, Dequeue, ExecuteStep, ExecuteComplete, ExecuteFail, SaveRunError,
     LoadFinishedJob, CallbackStep, TimerFires, RequeueWaitingAutoJob, ValidateRequest,
     HandlerStep, SubmitSingle, CreateBulk, EnsureWarehouseLedgerJob, RecoveryStep,
     ListResumableAutoJobs, PushResumedJob, ResumeBatch, RecoveryDbError, Crash
<1> QED
  BY <1>1, <1>2, <1>3, <1>4

\* Whatever step is taken, a job under way keeps, or is given, somebody to move it.
LEMMA HandledStep ==
  ASSUME HandledInv, [Next]_vars, dbErrors' = 0, resume' # "list", NEW o \in Orders
  PROVE  Handled(o)'
<1>0. /\ Workers \subseteq Threads /\ Callbacks \subseteq Threads
      /\ Handlers \subseteq Threads /\ Recovery \in Threads
  BY DEF Threads
<1>a. /\ job \in [Orders -> JobStatus] /\ timers \in [Orders -> Nat]
      /\ queue \in Seq(Orders) /\ accepted \in [Handlers -> Seq(Orders)]
      /\ pc \in [Threads -> Pc] /\ ref \in [Threads -> Orders \cup {NoOrder}]
      /\ \A t \in Threads : pc[t] \notin {"idle", "next", "submit"} => ref[t] \in Orders
  BY DEF HandledInv, TypeOK
<1>h. ASSUME resume # "list", dbErrors = 0 PROVE Handled(o)
  BY <1>h DEF HandledInv, JobIsHandled, Handled, QueuedHandled, RunningHandled, WaitingHandled
<1> USE DEF Handled, QueuedHandled, RunningHandled, WaitingHandled
<1>1. ASSUME NEW t \in Threads, Push(t) PROVE Handled(o)'
  <2>1. Handled(o) /\ ref[t] \in Orders
    BY <1>a, <1>h, <1>1 DEF Push
  <2>2. UNCHANGED <<job, todo, timers>> /\ pc[t] = "push"
    BY <1>1 DEF Push
  <2>3. CASE HasRoom
    <3>1. /\ queue' = Append(queue, ref[t]) /\ pc' = [pc EXCEPT ![t] = "idle"]
          /\ ref' = [ref EXCEPT ![t] = NoOrder]
      BY <1>1, <2>3 DEF Push
    <3>2. \A i \in DOMAIN queue : i \in DOMAIN queue' /\ queue'[i] = queue[i]
      BY <1>a, <2>1, <3>1
    <3>3. \E i \in DOMAIN queue' : queue'[i] = ref[t]
      <4>1. Len(queue) + 1 \in DOMAIN queue' /\ queue'[Len(queue) + 1] = ref[t]
        BY <1>a, <2>1, <3>1
      <4> QED
        BY <4>1
    <3> QED
      BY <1>0, <1>a, <2>1, <2>2, <3>1, <3>2, <3>3 DEF Running
  <2>4. CASE ~HasRoom
    BY <1>0, <1>a, <1>1, <2>1, <2>2, <2>4 DEF Push, Running
  <2> QED
    BY <2>3, <2>4
<1>2. ASSUME NEW t \in Threads, FailOverflow(t) PROVE Handled(o)'
  BY <1>0, <1>a, <1>h, <1>2 DEF FailOverflow, Running
<1>3. ASSUME NEW t \in Threads, NEW v \in {"succeeded", "failed"}, FinishBulkItem(t, v)
      PROVE Handled(o)'
  <2>1. Handled(o) /\ UNCHANGED <<job, todo, queue, timers>>
    BY <1>h, <1>3 DEF FinishBulkItem
  <2>2. pc[t] \in {"finish_succeeded", "finish_failed"}
    BY <1>3 DEF FinishBulkItem, FinishLabel
  <2>3. \E label \in Pc : GotoFor(t, label, NoOrder)
    BY <1>3 DEF FinishBulkItem, Pc
  <2> QED
    BY <1>0, <1>a, <2>1, <2>2, <2>3 DEF Running
<1>4. ASSUME NEW t \in Threads, StartNextBulkItem(t) PROVE Handled(o)'
  BY ZenonT(60), <1>0, <1>a, <1>h, <1>4 DEF StartNextBulkItem, Running
<1>5. ASSUME NEW t \in Threads, EnqueueBulkJob(t) PROVE Handled(o)'
  BY <1>0, <1>a, <1>h, <1>5 DEF EnqueueBulkJob, Running
<1>6. ASSUME NEW t \in Threads, LoadCreatedJob(t) PROVE Handled(o)'
  BY <1>0, <1>a, <1>h, <1>6 DEF LoadCreatedJob, Running
<1>7. ASSUME NEW t \in Threads, LoadExistingJob(t) PROVE Handled(o)'
  BY ZenonT(60), <1>0, <1>a, <1>h, <1>7 DEF LoadExistingJob, Running
<1>8. ASSUME NEW t \in Threads, DbError(t) PROVE Handled(o)'
  BY <1>8 DEF DbError, HandledInv, TypeOK
<1>9. ASSUME NEW w \in Workers, Dequeue(w) PROVE Handled(o)'
  <2>1. Handled(o) /\ UNCHANGED <<job, todo, timers>> /\ queue # <<>> /\ queue' = Tail(queue)
    BY <1>h, <1>9 DEF Dequeue
  <2>2. /\ pc[w] = "idle" /\ pc' = [pc EXCEPT ![w] = "claim"]
        /\ ref' = [ref EXCEPT ![w] = Head(queue)]
    BY <1>9 DEF Dequeue
  <2>3. \A i \in DOMAIN queue :
           queue[i] = Head(queue) \/ (i - 1 \in DOMAIN queue' /\ queue'[i - 1] = queue[i])
    BY <1>a, <2>1
  <2> QED
    BY ZenonT(60), <1>0, <1>a, <2>1, <2>2, <2>3 DEF Running
<1>10. ASSUME NEW w \in Workers, ClaimAutoJob(w) PROVE Handled(o)'
  <2>1. pc[w] = "claim" /\ ref[w] \in Orders
    BY <1>0, <1>a, <1>10 DEF ClaimAutoJob
  <2>2. CASE Claimable(ref[w])
    <3>1. /\ Handled(o) /\ UNCHANGED <<todo, queue, timers, ref>>
          /\ pc' = [pc EXCEPT ![w] = "execute"] /\ job' = [job EXCEPT ![ref[w]] = "running"]
      BY <1>h, <1>10, <2>2 DEF ClaimAutoJob
    <3>2. CASE ref[w] = o
      BY <1>0, <1>a, <2>1, <3>1, <3>2 DEF Running
    <3>3. CASE ref[w] # o
      BY <1>0, <1>a, <2>1, <3>1, <3>3 DEF Running
    <3> QED
      BY <3>2, <3>3
  <2>3. CASE ~Claimable(ref[w])
    <3>1. Handled(o) /\ UNCHANGED <<job, todo, queue, timers>> /\ Return(w)
      BY <1>h, <1>10, <2>3 DEF ClaimAutoJob
    <3> QED
      BY <1>0, <1>a, <2>1, <2>3, <3>1 DEF Running, Claimable
  <2> QED
    BY <2>2, <2>3
<1>11. ASSUME NEW w \in Workers, ExecuteStep(w) PROVE Handled(o)'
  BY <1>0, <1>a, <1>h, <1>11 DEF ExecuteStep, Running
<1>12. ASSUME NEW w \in Workers, ExecuteComplete(w) PROVE Handled(o)'
  BY <1>0, <1>a, <1>h, <1>12 DEF ExecuteComplete, Running
<1>13. ASSUME NEW w \in Workers, ExecuteUnconfirmed(w) PROVE Handled(o)'
  BY <1>0, <1>a, <1>h, <1>13 DEF ExecuteUnconfirmed, ArmTimer, Running
<1>14. ASSUME NEW w \in Workers, ExecuteFail(w) PROVE Handled(o)'
  BY <1>0, <1>a, <1>h, <1>14 DEF ExecuteFail, Running
<1>15. ASSUME NEW w \in Workers, SaveRunError(w) PROVE Handled(o)'
  BY <1>0, <1>a, <1>h, <1>15 DEF SaveRunError, Running
<1>16. ASSUME NEW w \in Workers, LoadFinishedJob(w) PROVE Handled(o)'
  BY ZenonT(60), <1>0, <1>a, <1>h, <1>16 DEF LoadFinishedJob, Running
<1>17. ASSUME NEW c \in Callbacks, TimerFires(c) PROVE Handled(o)'
  BY <1>0, <1>a, <1>h, <1>17 DEF TimerFires, Running
<1>18. ASSUME NEW c \in Callbacks, RequeueWaitingAutoJob(c) PROVE Handled(o)'
  <2>1. /\ Handled(o) /\ UNCHANGED <<todo, queue, timers>>
        /\ pc[c] = "fire" /\ ref[c] \in Orders
    BY <1>0, <1>a, <1>h, <1>18 DEF RequeueWaitingAutoJob
  <2>2. job[o] = "waiting" => attempts[o] < MaxAttempts
    BY DEF HandledInv, WaitingMayRetry
  <2>3. CASE job[ref[c]] = "waiting" /\ attempts[ref[c]] < MaxAttempts
    <3>1. /\ job' = [job EXCEPT ![ref[c]] = "queued"] /\ ref' = ref
          /\ pc' = [pc EXCEPT ![c] = "push"]
      BY <1>18, <2>3 DEF RequeueWaitingAutoJob
    <3> QED
      BY <1>0, <1>a, <2>1, <2>3, <3>1 DEF Running
  <2>4. CASE ~(job[ref[c]] = "waiting" /\ attempts[ref[c]] < MaxAttempts)
    <3>1. Return(c) /\ job' = job
      BY <1>18, <2>4 DEF RequeueWaitingAutoJob
    <3> QED
      BY <1>0, <1>a, <2>1, <2>2, <2>4, <3>1 DEF Running
  <2> QED
    BY <2>3, <2>4
<1>19. ASSUME NEW h \in Handlers, ValidateRequest(h) PROVE Handled(o)'
  BY <1>0, <1>a, <1>h, <1>19 DEF ValidateRequest, Running
<1>20. ASSUME NEW h \in Handlers, SubmitSingle(h) PROVE Handled(o)'
  <2> DEFINE p == accepted[h][1]
  <2>1. Handled(o) /\ UNCHANGED <<todo, queue, timers>> /\ pc[h] = "submit"
    BY <1>h, <1>20 DEF SubmitSingle
  <2>2. p \in Orders
    <3>1. accepted[h] \in Seq(Orders) /\ Len(accepted[h]) = 1
      BY <1>a, <1>20 DEF SubmitSingle
    <3> QED
      BY <3>1, FirstOfSequence
  <2>3. \/ SetAutoJobState(p, "queued") /\ GotoFor(h, "created", p)
        \/ Return(h) /\ job' = job
    BY <1>20 DEF SubmitSingle
  <2> HIDE DEF p
  <2>4. CASE SetAutoJobState(p, "queued") /\ GotoFor(h, "created", p) /\ o = p
    BY <1>0, <1>a, <2>1, <2>2, <2>4
  <2>5. CASE SetAutoJobState(p, "queued") /\ GotoFor(h, "created", p) /\ o # p
    BY <1>0, <1>a, <2>1, <2>2, <2>5 DEF Running
  <2>6. CASE Return(h) /\ job' = job
    BY <1>0, <1>a, <2>1, <2>6 DEF Running
  <2> QED
    BY <2>3, <2>4, <2>5, <2>6
<1>21. ASSUME NEW h \in Handlers, CreateBulk(h) PROVE Handled(o)'
  BY ZenonT(60), <1>0, <1>a, <1>h, <1>21 DEF CreateBulk, Running
<1>22. ASSUME NEW p \in Orders, EnsureWarehouseLedgerJob(p) PROVE Handled(o)'
  BY <1>0, <1>a, <1>h, <1>22 DEF EnsureWarehouseLedgerJob, Running
<1>23. CASE ListResumableAutoJobs
  BY <1>a, <1>23 DEF ListResumableAutoJobs, Resumable
<1>24. CASE PushResumedJob
  BY <1>0, <1>a, <1>h, <1>24 DEF PushResumedJob, Running
<1>25. CASE ResumeBatch
  BY <1>0, <1>a, <1>h, <1>25 DEF ResumeBatch, Running
<1>26. CASE RecoveryDbError
  BY <1>26 DEF RecoveryDbError, HandledInv, TypeOK
<1>27. CASE Crash
  BY <1>27 DEF Crash
<1>28. CASE UNCHANGED vars
  BY <1>0, <1>h, <1>28 DEF vars, Running
<1> QED
  BY <1>1, <1>2, <1>3, <1>4, <1>5, <1>6, <1>7, <1>8, <1>9, <1>10, <1>11, <1>12,
     <1>13, <1>14, <1>15, <1>16, <1>17, <1>18, <1>19, <1>20, <1>21, <1>22, <1>23,
     <1>24, <1>25, <1>26, <1>27, <1>28
  DEF Next, SharedStep, WorkerStep, EndRun, CallbackStep, HandlerStep, RecoveryStep

\* While no database call has failed, a job under way always has a reference, a
\* timer or a goroutine that will move it: whatever the capacity of the channel,
\* whoever pushes it twice, and across restarts.
THEOREM JobsHandled == Spec => []JobIsHandled
<1>1. HandledInv /\ [Next]_vars => HandledInv'
  <2> SUFFICES ASSUME HandledInv, [Next]_vars PROVE JobIsHandled'
    BY TypeStep, WaitingStep DEF HandledInv
  <2>1. ASSUME dbErrors' = 0, resume' # "list", NEW o \in Orders PROVE Handled(o)'
    BY <2>1, HandledStep
  <2> QED
    BY <2>1 DEF JobIsHandled, Handled, QueuedHandled, RunningHandled, WaitingHandled
<1>2. HandledInv => JobIsHandled
  BY DEF HandledInv
<1> QED
  BY HandledInit, <1>1, <1>2, PTL DEF Spec

-----------------------------------------------------------------------------
(* What the batch counts as succeeded is done                              *)

\* Whoever is about to finish an item as succeeded has seen its job done.
FinishersRight ==
    Undisturbed /\ dbErrors = 0 => \A t \in Threads :
        pc[t] = "finish_succeeded" => job[ref[t]] \in {"completed", "manual"}

SuccessInv == FinishersRight /\ SuccessMeansDone

\* Nobody finishes an item when the server starts.
LEMMA SuccessInit == Init => SuccessInv
  BY DEF Init, SuccessInv, FinishersRight, SuccessMeansDone

\* Disturbances and database errors are not taken back.
LEMMA StaysDisturbed ==
  ASSUME TypeOK, [Next]_vars, Undisturbed', dbErrors' = 0
  PROVE  Undisturbed /\ dbErrors = 0 /\ \A t \in Threads : ~DbError(t)
<1>1. overflowed => overflowed'
  BY ZenonT(60) DEF Next, vars, SharedStep, Push, FailOverflow, FinishBulkItem,
     StartNextBulkItem, EnqueueBulkJob, LoadCreatedJob, LoadExistingJob, DbError, WorkerStep,
     EndRun, Dequeue, ClaimAutoJob, ExecuteStep, ExecuteComplete, ExecuteUnconfirmed, ExecuteFail,
     SaveRunError, LoadFinishedJob, CallbackStep, TimerFires, RequeueWaitingAutoJob, ValidateRequest,
     HandlerStep, SubmitSingle, CreateBulk, EnsureWarehouseLedgerJob, RecoveryStep,
     ListResumableAutoJobs, PushResumedJob, ResumeBatch, RecoveryDbError, Crash
<1>2. dbErrors' \in {dbErrors, dbErrors + 1}
  BY DEF Next, vars, SharedStep, Push, FailOverflow, FinishBulkItem,
     StartNextBulkItem, EnqueueBulkJob, LoadCreatedJob, LoadExistingJob, DbError, WorkerStep,
     EndRun, Dequeue, ClaimAutoJob, ExecuteStep, ExecuteComplete, ExecuteUnconfirmed, ExecuteFail,
     SaveRunError, LoadFinishedJob, CallbackStep, TimerFires, RequeueWaitingAutoJob, ValidateRequest,
     HandlerStep, SubmitSingle, CreateBulk, EnsureWarehouseLedgerJob, RecoveryStep,
     ListResumableAutoJobs, PushResumedJob, ResumeBatch, RecoveryDbError, Crash
<1>3. dbErrors \in Nat
  BY DEF TypeOK
<1>4. \A t \in Threads : DbError(t) => dbErrors' = dbErrors + 1
  BY DEF DbError
<1> QED
  BY <1>1, <1>2, <1>3, <1>4 DEF Undisturbed

\* The goroutine that comes to finish an item as succeeded has read, or just
\* written, a job that is done.
LEMMA FinishersStep ==
  ASSUME RunInv, SuccessInv, [Next]_vars, Undisturbed', dbErrors' = 0,
         NEW t \in Threads, pc'[t] = "finish_succeeded"
  PROVE  job'[ref'[t]] \in {"completed", "manual"}
<1>0. /\ Workers \subseteq Threads /\ Callbacks \subseteq Threads
      /\ Handlers \subseteq Threads /\ Recovery \in Threads
  BY DEF Threads
<1>a. /\ job \in [Orders -> JobStatus]
      /\ pc \in [Threads -> Pc] /\ ref \in [Threads -> Orders \cup {NoOrder}]
      /\ \A s \in Threads : pc[s] \notin {"idle", "next", "submit"} => ref[s] \in Orders
  BY DEF RunInv, TypeOK
<1>b. Undisturbed /\ dbErrors = 0 /\ ~DbError(t) /\ ~overflowed'
  BY StaysDisturbed DEF RunInv, Undisturbed
<1>1. CASE pc[t] = "finish_succeeded" /\ ref'[t] = ref[t]
  <2>1. job[ref[t]] \in {"completed", "manual"} /\ ref[t] \in Orders
    BY <1>a, <1>b, <1>1 DEF SuccessInv, FinishersRight
  <2> QED
    BY <1>b, <1>1, <2>1, DoneStep
<1>2. CASE ~(pc[t] = "finish_succeeded" /\ ref'[t] = ref[t])
  <2>1. ASSUME NEW s \in Threads, SharedStep(s) PROVE s = t /\ LoadExistingJob(t)
    BY <1>a, <1>2, <2>1 DEF SharedStep, Push, FailOverflow, FinishBulkItem, FinishLabel,
       StartNextBulkItem, EnqueueBulkJob, LoadCreatedJob, LoadExistingJob
  <2>2. CASE LoadExistingJob(t)
    BY <1>a, <2>2 DEF LoadExistingJob
  <2>3. ASSUME NEW w \in Workers, WorkerStep(w) \/ ExecuteStep(w)
        PROVE  w = t /\ (SaveRunError(t) \/ LoadFinishedJob(t))
    BY <1>0, <1>a, <1>2, <2>3 DEF WorkerStep, EndRun, Dequeue, ClaimAutoJob, ExecuteStep,
       ExecuteComplete, ExecuteUnconfirmed, ExecuteFail, SaveRunError, LoadFinishedJob
  <2>4. CASE SaveRunError(t) \/ LoadFinishedJob(t)
    BY <1>a, <2>4 DEF SaveRunError, LoadFinishedJob, RunFinished
  <2>5. ASSUME NEW s \in Threads, DbError(s) PROVE FALSE
    BY <2>5, StaysDisturbed DEF RunInv
  <2>6. \A c \in Callbacks : ~CallbackStep(c)
    BY <1>0, <1>a, <1>2 DEF CallbackStep, TimerFires, RequeueWaitingAutoJob
  <2>7. \A h \in Handlers : ~ValidateRequest(h) /\ ~HandlerStep(h)
    BY <1>0, <1>a, <1>2 DEF ValidateRequest, HandlerStep, SubmitSingle, CreateBulk
  <2>8. ~RecoveryStep /\ ~RecoveryDbError /\ ~Crash /\ vars' # vars
        /\ \A o \in Orders : ~EnsureWarehouseLedgerJob(o)
    BY <1>0, <1>a, <1>2 DEF RecoveryStep, ListResumableAutoJobs, PushResumedJob, ResumeBatch,
       RecoveryDbError, Crash, EnsureWarehouseLedgerJob, vars
  <2> QED
    BY <2>1, <2>2, <2>3, <2>4, <2>5, <2>6, <2>7, <2>8 DEF Next
<1> QED
  BY <1>1, <1>2

LEMMA SuccessStep ==
  ASSUME RunInv, SuccessInv, [Next]_vars, Undisturbed', dbErrors' = 0,
         NEW o \in Orders, item'[o] = "succeeded"
  PROVE  job'[o] \in {"completed", "manual"}
<1>b. Undisturbed /\ dbErrors = 0 /\ ~overflowed'
  BY StaysDisturbed DEF RunInv, Undisturbed
<1>a. /\ item \in [Orders -> ItemStatus]
      /\ \A s \in Threads : pc[s] \notin {"idle", "next", "submit"} => ref[s] \in Orders
  BY DEF RunInv, TypeOK
<1>1. CASE item[o] = "succeeded"
  BY <1>b, <1>1, DoneStep DEF SuccessInv, SuccessMeansDone
<1>2. CASE item[o] # "succeeded"
  <2>1. PICK t \in Threads : FinishBulkItem(t, "succeeded") \/ FinishBulkItem(t, "failed")
                             \/ StartNextBulkItem(t) \/ (t \in Handlers /\ CreateBulk(t))
    BY <1>2 DEF Next, vars, SharedStep, Push, FailOverflow, EnqueueBulkJob, LoadCreatedJob,
       LoadExistingJob, DbError, WorkerStep, EndRun, Dequeue, ClaimAutoJob, ExecuteStep,
       ExecuteComplete, ExecuteUnconfirmed, ExecuteFail, SaveRunError, LoadFinishedJob,
       CallbackStep, TimerFires, RequeueWaitingAutoJob, ValidateRequest, HandlerStep, SubmitSingle,
       EnsureWarehouseLedgerJob, RecoveryStep, ListResumableAutoJobs, PushResumedJob, ResumeBatch,
       RecoveryDbError, Crash, Threads
  <2>2. ~StartNextBulkItem(t)
    BY <1>a, <1>2 DEF StartNextBulkItem, NextItem, RunningItems, FirstPending
  <2>3. ~CreateBulk(t)
    BY <1>2 DEF CreateBulk
  <2>4. ~FinishBulkItem(t, "failed")
    BY <1>a, <1>2 DEF FinishBulkItem
  <2>5. pc[t] = "finish_succeeded" /\ ref[t] = o /\ job' = job
    BY <1>a, <1>2, <2>1, <2>2, <2>3, <2>4 DEF FinishBulkItem, FinishLabel
  <2> QED
    BY SMTT(30), <1>b, <2>5 DEF SuccessInv, FinishersRight
<1> QED
  BY <1>1, <1>2

\* Every item the batch counts as succeeded is an order that was fulfilled or
\* handed to the operators, and stays so, across restarts and retries, as long
\* as the queue is exact and no database call fails.
THEOREM SucceededItemsDone == Spec => []SuccessMeansDone
<1>1. RunInv /\ SuccessInv /\ [Next]_vars => SuccessInv'
  <2> SUFFICES ASSUME RunInv, SuccessInv, [Next]_vars PROVE SuccessInv'
    OBVIOUS
  <2>1. FinishersRight'
    BY FinishersStep DEF FinishersRight
  <2>2. SuccessMeansDone'
    BY SuccessStep DEF SuccessMeansDone
  <2> QED
    BY <2>1, <2>2 DEF SuccessInv
<1>2. SuccessInv => SuccessMeansDone
  BY DEF SuccessInv
<1> QED
  BY SuccessInit, RunInvariant, <1>1, <1>2, PTL DEF Spec

-----------------------------------------------------------------------------
(* A running batch is in somebody's hands                                  *)

\* Somebody will take the item further: its job is under way (or stopped for
\* the operators), or a goroutine is about to enqueue, examine or finish it.
ItemInHand(o) ==
    \/ job[o] \in {"queued", "running", "waiting", "manual"}
    \/ \E t \in Threads :
          ref[t] = o /\ pc[t] \in {"enqueue", "overflow", "finish_failed", "finish_succeeded"}
    \/ job[o] = "completed" /\ \E t \in Threads : ref[t] = o /\ pc[t] = "existing"
    \/ job[o] = "completed" /\ \E w \in Workers : ref[w] = o /\ pc[w] = "loaded"

BatchHeld ==
    dbErrors = 0 /\ resume = "done" /\ batch = "running" =>
        \/ \E t \in Threads : pc[t] = "next"
        \/ \E o \in RunningItems : ItemInHand(o)

\* A set of sequence numbers has a least one.
LEMMA LeastNatural ==
  ASSUME NEW T \in SUBSET Nat, T # {}
  PROVE  \E x \in T : \A y \in T : x <= y
<1>1. PICK x \in T : \A y \in T : ~ (<<y, x>> \in OpToRel(<, Nat))
  BY NatLessThanWellFounded, WFMin, Zenon
<1>2. \A y \in T : x <= y
  <2> SUFFICES ASSUME NEW y \in T, y < x PROVE FALSE
    OBVIOUS
  <2>1. <<y, x>> \in OpToRel(<, Nat)
    BY ZenonT(30) DEF OpToRel
  <2> QED
    BY <1>1, <2>1, Zenon
<1> QED
  BY <1>2

\* An open batch has a next item: one that runs, or the first of the pending ones.
LEMMA OpenBatchHasNext ==
  ASSUME BatchInv, batch = "running"
  PROVE  NextItem # {}
<1>0. turn \in [Orders -> Nat] /\ OpenItems(item) # {}
  BY DEF BatchInv, TypeOK, BatchWellFormed
<1>1. CASE RunningItems # {}
  BY <1>1 DEF NextItem
<1>2. CASE RunningItems = {}
  <2> DEFINE Pending == {o \in Orders : item[o] = "pending"}
             Turns == {turn[o] : o \in Pending}
  <2>1. Pending # {}
    BY <1>0, <1>2 DEF OpenItems, RunningItems
  <2>2. Turns \in SUBSET Nat /\ Turns # {}
    BY <1>0, <2>1
  <2>3. PICK x \in Turns : \A y \in Turns : x <= y
    <3> HIDE DEF Turns
    <3> QED
      BY <2>2, LeastNatural
  <2>4. PICK o \in Pending : turn[o] = x
    OBVIOUS
  <2>5. o \in FirstPending
    BY <2>3, <2>4 DEF FirstPending
  <2> QED
    BY <1>2, <2>5 DEF NextItem
<1> QED
  BY <1>1, <1>2

\* A step that leaves the running items, and the job of each, alone keeps what is in hand if
\* the goroutines it moves held nothing.
LEMMA HandKept ==
  ASSUME NEW o \in Orders, ItemInHand(o),
         job'[o] = job[o] \/ job'[o] \in {"queued", "running", "waiting", "manual"},
         \A t \in Threads :
            ref[t] = o /\ pc[t] \in {"enqueue", "overflow", "finish_failed", "finish_succeeded", "existing", "loaded"}
              => ref'[t] = ref[t] /\ pc'[t] = pc[t]
  PROVE  ItemInHand(o)'
BY DEF ItemInHand, Threads

\* Whatever step is taken, a running batch keeps, or is given, somebody to advance it.
LEMMA HeldStep ==
  ASSUME BatchInv, BatchHeld, [Next]_vars,
         dbErrors' = 0, resume' = "done", batch' = "running"
  PROVE  \/ \E t \in Threads : pc'[t] = "next"
         \/ \E o \in RunningItems' : ItemInHand(o)'
<1> DEFINE Goal == \/ \E t \in Threads : pc'[t] = "next"
                   \/ \E o \in RunningItems' : ItemInHand(o)'
<1> SUFFICES Goal
  OBVIOUS
<1>0. /\ Workers \subseteq Threads /\ Callbacks \subseteq Threads
      /\ Handlers \subseteq Threads /\ Recovery \in Threads
  BY DEF Threads
<1>a. /\ job \in [Orders -> JobStatus] /\ item \in [Orders -> ItemStatus]
      /\ accepted \in [Handlers -> Seq(Orders)]
      /\ pc \in [Threads -> Pc] /\ ref \in [Threads -> Orders \cup {NoOrder}]
      /\ \A t \in Threads : pc[t] \notin {"idle", "next", "submit"} => ref[t] \in Orders
      /\ \A o, p \in RunningItems : o = p
  BY DEF BatchInv, TypeOK, BatchWellFormed
\* Somebody holds the batch already, unless this step starts it.
<1>h. ASSUME resume = "done", batch = "running", dbErrors = 0
      PROVE  \/ \E t \in Threads : pc[t] = "next"
             \/ \E o \in RunningItems : ItemInHand(o)
  BY <1>h DEF BatchHeld
<1>k. ASSUME NEW t \in Threads, pc[t] # "next", resume = "done", batch = "running", dbErrors = 0,
             item' = item,
             \A s \in Threads : s # t => pc'[s] = pc[s] /\ ref'[s] = ref[s],
             \A o \in RunningItems : ItemInHand(o) => ItemInHand(o)'
      PROVE  Goal
  BY <1>h, <1>k DEF RunningItems
<1>1. ASSUME NEW t \in Threads, Push(t) PROVE Goal
  BY ZenonT(60), <1>a, <1>k, <1>1, HandKept DEF Push, RunningItems
<1>2. ASSUME NEW t \in Threads, FailOverflow(t) PROVE Goal
  <2>1. ref[t] \in Orders /\ pc[t] = "overflow" /\ job' = [job EXCEPT ![ref[t]] = "failed"]
        /\ pc' = [pc EXCEPT ![t] = "finish_failed"] /\ UNCHANGED <<ref, batch, item, resume, dbErrors>>
    BY <1>a, <1>2 DEF FailOverflow
  <2>2. ItemInHand(ref[t])'
    BY <1>a, <2>1 DEF ItemInHand
  <2>3. ASSUME NEW o \in RunningItems, ItemInHand(o), o # ref[t] PROVE ItemInHand(o)'
    BY <1>a, <2>1, <2>3, HandKept DEF RunningItems
  <2> QED
    BY <1>a, <1>k, <2>1, <2>2, <2>3
<1>3. ASSUME NEW t \in Threads, NEW v \in {"succeeded", "failed"}, FinishBulkItem(t, v)
      PROVE Goal
  <2>1. /\ pc[t] \in {"finish_succeeded", "finish_failed"} /\ ref[t] \in Orders
        /\ UNCHANGED <<job, resume, dbErrors>>
    BY <1>a, <1>3 DEF FinishBulkItem, FinishLabel
  <2>2. CASE batch = "running" /\ item[ref[t]] = "running"
    BY <1>a, <1>3, <2>2 DEF FinishBulkItem
  <2>3. CASE ~(batch = "running" /\ item[ref[t]] = "running")
    <3>1. UNCHANGED <<batch, item>> /\ Return(t)
      BY <1>3, <2>3 DEF FinishBulkItem
    <3>2. ASSUME NEW o \in RunningItems, ItemInHand(o) PROVE ItemInHand(o)'
      <4>1. ref[t] # o
        BY <2>3, <3>1, <3>2 DEF RunningItems
      <4> QED
        BY <1>a, <2>1, <3>1, <3>2, <4>1, HandKept DEF RunningItems
    <3> QED
      BY <1>a, <1>k, <2>1, <3>1, <3>2
  <2> QED
    BY <2>2, <2>3
<1>4. ASSUME NEW t \in Threads, StartNextBulkItem(t) PROVE Goal
  <2>1. batch = "running" /\ NextItem # {}
    BY <1>4, OpenBatchHasNext DEF StartNextBulkItem
  <2>2. PICK o \in NextItem : /\ item' = [item EXCEPT ![o] = "running"]
                              /\ GotoFor(t, "enqueue", o)
    BY <1>4, <2>1 DEF StartNextBulkItem
  <2>3. o \in Orders
    BY <2>1, <2>2 DEF NextItem, RunningItems, FirstPending
  <2>4. o \in RunningItems' /\ ItemInHand(o)'
    BY <1>a, <2>2, <2>3 DEF RunningItems, ItemInHand
  <2> QED
    BY <2>4
<1>5. ASSUME NEW t \in Threads, EnqueueBulkJob(t) PROVE Goal
  <2>1. /\ pc[t] = "enqueue" /\ ref[t] \in Orders /\ UNCHANGED <<ref, batch, item, resume, dbErrors>>
        /\ pc' = [pc EXCEPT ![t] = pc'[t]]
        /\ \/ job' = [job EXCEPT ![ref[t]] = "queued"]
           \/ job' = job /\ job[ref[t]] \notin {"none", "failed"} /\ pc'[t] = "existing"
    BY <1>a, <1>5 DEF EnqueueBulkJob, Enqueueable
  <2>2. ItemInHand(ref[t])'
    BY <1>a, <2>1 DEF ItemInHand, JobStatus
  <2>3. ASSUME NEW o \in RunningItems, ItemInHand(o), o # ref[t] PROVE ItemInHand(o)'
    BY <1>a, <2>1, <2>3, HandKept DEF RunningItems
  <2> QED
    BY <1>a, <1>k, <2>1, <2>2, <2>3
<1>6. ASSUME NEW t \in Threads, LoadCreatedJob(t) PROVE Goal
  BY <1>a, <1>k, <1>6, HandKept DEF LoadCreatedJob, RunningItems
<1>7. ASSUME NEW t \in Threads, LoadExistingJob(t) PROVE Goal
  <2>1. /\ pc[t] = "existing" /\ ref[t] \in Orders /\ UNCHANGED <<job, batch, item, resume, dbErrors>>
        /\ \A s \in Threads : s # t => pc'[s] = pc[s] /\ ref'[s] = ref[s]
        /\ job[ref[t]] = "completed" => pc'[t] = "finish_succeeded" /\ ref'[t] = ref[t]
    BY <1>a, <1>7 DEF LoadExistingJob
  <2>2. ASSUME NEW o \in RunningItems, ItemInHand(o) PROVE ItemInHand(o)'
    <3>1. CASE ref[t] = o /\ job[o] = "completed"
      BY <2>1, <3>1 DEF ItemInHand
    <3>2. CASE ~(ref[t] = o /\ job[o] = "completed")
      BY <1>0, <2>1, <2>2, <3>2 DEF ItemInHand
    <3> QED
      BY <3>1, <3>2
  <2> QED
    BY <1>k, <2>1, <2>2
<1>8. ASSUME NEW t \in Threads, DbError(t) PROVE Goal
  BY <1>8 DEF DbError, BatchInv, TypeOK
<1>9. ASSUME NEW w \in Workers, Dequeue(w) PROVE Goal
  BY <1>0, <1>a, <1>k, <1>9, HandKept DEF Dequeue, RunningItems
<1>10. ASSUME NEW w \in Workers, ClaimAutoJob(w) PROVE Goal
  BY <1>0, <1>a, <1>k, <1>10, HandKept DEF ClaimAutoJob, RunningItems
<1>11. ASSUME NEW w \in Workers, ExecuteStep(w) PROVE Goal
  BY <1>0, <1>a, <1>k, <1>11, HandKept DEF ExecuteStep, RunningItems
<1>12. ASSUME NEW w \in Workers, ExecuteComplete(w) PROVE Goal
  <2>1. /\ ref[w] \in Orders /\ pc[w] = "execute" /\ job' = [job EXCEPT ![ref[w]] = "completed"]
        /\ pc' = [pc EXCEPT ![w] = "loaded"] /\ UNCHANGED <<ref, batch, item, resume, dbErrors>>
    BY <1>0, <1>a, <1>12 DEF ExecuteComplete
  <2>2. ItemInHand(ref[w])'
    BY <1>0, <1>a, <2>1 DEF ItemInHand
  <2>3. ASSUME NEW o \in RunningItems, ItemInHand(o), o # ref[w] PROVE ItemInHand(o)'
    BY <1>0, <1>a, <2>1, <2>3, HandKept DEF RunningItems
  <2> QED
    BY <1>0, <1>a, <1>k, <2>1, <2>2, <2>3
<1>13. ASSUME NEW w \in Workers, ExecuteUnconfirmed(w) PROVE Goal
  <2>1. /\ pc[w] = "execute" /\ ref[w] \in Orders /\ UNCHANGED <<ref, batch, item, resume, dbErrors>>
        /\ \A s \in Threads : s # w => pc'[s] = pc[s]
        /\ job' = job \/ job' = [job EXCEPT ![ref[w]] = "waiting"]
    BY <1>0, <1>a, <1>13 DEF ExecuteUnconfirmed
  <2>2. ASSUME NEW o \in RunningItems, ItemInHand(o) PROVE ItemInHand(o)'
    BY <1>0, <1>a, <2>1, <2>2, HandKept DEF RunningItems
  <2> QED
    BY <1>0, <1>k, <2>1, <2>2
<1>14. ASSUME NEW w \in Workers, ExecuteFail(w) PROVE Goal
  BY <1>0, <1>a, <1>k, <1>14, HandKept DEF ExecuteFail, RunningItems
<1>15. ASSUME NEW w \in Workers, SaveRunError(w) PROVE Goal
  <2>1. /\ ref[w] \in Orders /\ pc[w] \in {"save_failed", "save_manual"}
        /\ \E s \in {"failed", "manual"} : job' = [job EXCEPT ![ref[w]] = s]
        /\ pc'[w] \in {"finish_failed", "finish_succeeded"}
        /\ pc' = [pc EXCEPT ![w] = pc'[w]] /\ UNCHANGED <<ref, batch, item, resume, dbErrors>>
    BY <1>0, <1>a, <1>15 DEF SaveRunError
  <2>2. ItemInHand(ref[w])'
    BY <1>0, <2>1 DEF ItemInHand
  <2>3. ASSUME NEW o \in RunningItems, ItemInHand(o), o # ref[w] PROVE ItemInHand(o)'
    BY <1>0, <1>a, <2>1, <2>3, HandKept DEF RunningItems
  <2> QED
    BY <1>0, <1>a, <1>k, <2>1, <2>2, <2>3
<1>16. ASSUME NEW w \in Workers, LoadFinishedJob(w) PROVE Goal
  <2>1. /\ pc[w] = "loaded" /\ ref[w] \in Orders /\ UNCHANGED <<job, batch, item, resume, dbErrors>>
        /\ \A s \in Threads : s # w => pc'[s] = pc[s] /\ ref'[s] = ref[s]
        /\ job[ref[w]] = "completed" => pc'[w] = "finish_succeeded" /\ ref'[w] = ref[w]
    BY <1>0, <1>a, <1>16 DEF LoadFinishedJob, RunFinished
  <2>2. ASSUME NEW o \in RunningItems, ItemInHand(o) PROVE ItemInHand(o)'
    <3>1. CASE ref[w] = o /\ job[o] = "completed"
      BY <1>0, <2>1, <3>1 DEF ItemInHand
    <3>2. CASE ~(ref[w] = o /\ job[o] = "completed")
      BY <1>0, <2>1, <2>2, <3>2 DEF ItemInHand
    <3> QED
      BY <3>1, <3>2
  <2> QED
    BY <1>0, <1>k, <2>1, <2>2
<1>17. ASSUME NEW c \in Callbacks, TimerFires(c) PROVE Goal
  <2>1. /\ pc[c] = "idle" /\ UNCHANGED <<job, batch, item, resume, dbErrors>>
        /\ \A s \in Threads : s # c => pc'[s] = pc[s] /\ ref'[s] = ref[s]
    BY <1>0, <1>a, <1>17 DEF TimerFires
  <2>2. ASSUME NEW o \in RunningItems, ItemInHand(o) PROVE ItemInHand(o)'
    BY <1>0, <1>a, <2>1, <2>2, HandKept DEF RunningItems
  <2> QED
    BY <1>0, <1>k, <2>1, <2>2
<1>18. ASSUME NEW c \in Callbacks, RequeueWaitingAutoJob(c) PROVE Goal
  BY SMTT(30), <1>0, <1>a, <1>k, <1>18, HandKept DEF RequeueWaitingAutoJob, RunningItems
<1>19. ASSUME NEW h \in Handlers, ValidateRequest(h) PROVE Goal
  BY <1>0, <1>a, <1>k, <1>19, HandKept DEF ValidateRequest, RunningItems
<1>20. ASSUME NEW h \in Handlers, SubmitSingle(h) PROVE Goal
  <2> DEFINE p == accepted[h][1]
  <2>1. /\ pc[h] = "submit" /\ UNCHANGED <<batch, item, resume, dbErrors>>
        /\ \A s \in Threads : s # h => pc'[s] = pc[s] /\ ref'[s] = ref[s]
        /\ job' = job \/ job' = [job EXCEPT ![p] = "queued"]
    BY <1>0, <1>a, <1>20 DEF SubmitSingle
  <2>2. ASSUME NEW o \in RunningItems, ItemInHand(o) PROVE ItemInHand(o)'
    BY <1>0, <1>a, <2>1, <2>2, HandKept DEF RunningItems
  <2> QED
    BY <1>0, <1>k, <2>1, <2>2
<1>21. ASSUME NEW h \in Handlers, CreateBulk(h) PROVE Goal
  <2>1. /\ pc[h] = "submit" /\ UNCHANGED <<job, resume, dbErrors>>
        /\ \A s \in Threads : s # h => pc'[s] = pc[s] /\ ref'[s] = ref[s]
        /\ pc'[h] = "next" \/ UNCHANGED <<batch, item>>
    BY <1>0, <1>a, <1>21 DEF CreateBulk
  <2>2. ASSUME NEW o \in RunningItems, ItemInHand(o) PROVE ItemInHand(o)'
    BY <1>0, <1>a, <2>1, <2>2, HandKept DEF RunningItems
  <2> QED
    BY <1>0, <1>k, <2>1, <2>2
<1>22. ASSUME NEW p \in Orders, EnsureWarehouseLedgerJob(p) PROVE Goal
  <2>1. /\ job[p] = "none" /\ job' = [job EXCEPT ![p] = "completed"]
        /\ UNCHANGED <<pc, ref, batch, item, resume, dbErrors>>
    BY <1>22 DEF EnsureWarehouseLedgerJob
  <2>2. ASSUME NEW o \in RunningItems, ItemInHand(o) PROVE ItemInHand(o)'
    BY <1>a, <2>1, <2>2 DEF RunningItems, ItemInHand
  <2> QED
    BY <1>h, <2>1, <2>2 DEF RunningItems
<1>23. ~ListResumableAutoJobs /\ ~PushResumedJob /\ ~RecoveryDbError /\ ~Crash
  BY DEF ListResumableAutoJobs, PushResumedJob, RecoveryDbError, Crash, BatchInv, TypeOK
<1>24. CASE ResumeBatch
  BY <1>0, <1>a, <1>24 DEF ResumeBatch
<1>25. CASE UNCHANGED vars
  BY <1>h, <1>25 DEF vars, ItemInHand, RunningItems
<1> QED
  BY <1>1, <1>2, <1>3, <1>4, <1>5, <1>6, <1>7, <1>8, <1>9, <1>10, <1>11, <1>12,
     <1>13, <1>14, <1>15, <1>16, <1>17, <1>18, <1>19, <1>20, <1>21, <1>22, <1>23,
     <1>24, <1>25
  DEF Next, SharedStep, WorkerStep, EndRun, CallbackStep, HandlerStep, RecoveryStep

\* While no database call has failed, a running batch always has a goroutine
\* about to take its next item, or a running item that somebody will take
\* further, whatever goroutines advance it and whenever the server restarts.
THEOREM BatchIsHeld == Spec => []BatchInHand
<1>1. Init => BatchHeld
  BY DEF Init, BatchHeld
<1>2. BatchInv /\ BatchHeld /\ [Next]_vars => (BatchInv /\ BatchHeld)'
  <2>1. BatchInv /\ [Next]_vars => BatchInv'
    BY TypeStep, BatchStep DEF BatchInv
  <2>2. BatchInv /\ BatchHeld /\ [Next]_vars => BatchHeld'
    BY HeldStep DEF BatchHeld
  <2> QED
    BY <2>1, <2>2
<1>3. BatchHeld => BatchInHand
  BY DEF BatchHeld, BatchInHand, ItemInHand
<1> QED
  BY BatchInit, <1>1, <1>2, <1>3, PTL DEF Spec
=============================================================================
