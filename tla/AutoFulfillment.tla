-------------------------- MODULE AutoFulfillment --------------------------
(***************************************************************************)
(* The automatic fulfilment of the orders of one shop: the job of each     *)
(* order and the bulk batch in PostgreSQL, the in-memory job queue, the    *)
(* worker goroutines, the HTTP handlers that ask for a run, the timer that *)
(* re-examines an unconfirmed shipment, and the goroutine that resumes the *)
(* unfinished work when the server starts.                                 *)
(*                                                                         *)
(* One action is one SQL statement or transaction, or one operation on the *)
(* channel; everything between two of them is local to a goroutine.  What  *)
(* a run does with SHEIN and the warehouse is here only its outcome.       *)
(***************************************************************************)
EXTENDS Integers, Sequences, FiniteSets

CONSTANTS
    Orders,         \* orders of the shop
    NoOrder,        \* "no order": the ref of an idle goroutine
    Workers,        \* the goroutines ranging over the job queue (autoWorkerCount)
    Handlers,       \* HTTP handlers serving POST auto-fulfillment/run at once
    Callbacks,      \* timer callbacks in progress at once
    Recovery,       \* the goroutine that resumes unfinished jobs at start-up
    QueueCap,       \* capacity of the job channel
    MaxAttempts,    \* autoMaxAttempts
    Requests,       \* kinds of request the operators send: "single", "bulk"
    Outcomes,       \* how a run may end: "completed", "unconfirmed", "failed", "manual"
    EarlyRequests,  \* may a request be served before Recovery has read the jobs?
    MaxRequests,    \* bound on requests of the operators
    MaxCrashes,     \* bound on restarts of the server
    MaxDbErrors     \* bound on failed database calls

Threads == Workers \cup Handlers \cup Callbacks \cup {Recovery}

ASSUME OrdersAssumption == IsFiniteSet(Orders) /\ NoOrder \notin Orders
ASSUME ThreadsAssumption ==
    /\ Workers \cap Handlers = {} /\ Workers \cap Callbacks = {}
    /\ Handlers \cap Callbacks = {}
    /\ Recovery \notin Workers \cup Handlers \cup Callbacks
ASSUME BoundsAssumption ==
    /\ QueueCap \in Nat \ {0} /\ MaxAttempts \in Nat \ {0}
    /\ MaxRequests \in Nat /\ MaxCrashes \in Nat /\ MaxDbErrors \in Nat
    /\ EarlyRequests \in BOOLEAN
    /\ Requests \subseteq {"single", "bulk"}
    /\ Outcomes \subseteq {"completed", "unconfirmed", "failed", "manual"}

VARIABLES
    \* PostgreSQL
    job,        \* status of the order's job, "none" without a row
    attempts,   \* its number of claims, counted up to MaxAttempts
    batch,      \* status of the shop's latest batch
    item,       \* status of each order's item in that batch
    turn,       \* its sequence number
    \* memory of the server
    queue,      \* the job channel
    timers,     \* armed timers per order
    pc, ref,    \* what each goroutine does next, and for which order
    accepted,   \* orders a handler has validated
    resume,     \* progress of Recovery: "list", "jobs", "done"
    todo,       \* jobs Recovery still has to push
    \* history
    requests, crashes, dbErrors, overflowed

jobVars == <<job, attempts>>
batchVars == <<batch, item, turn>>
memory == <<queue, timers, accepted, resume, todo>>
history == <<requests, crashes, dbErrors, overflowed>>
vars == <<jobVars, batchVars, memory, pc, ref, history>>

JobStatus == {"none", "queued", "running", "waiting", "completed", "failed", "manual"}
ItemStatus == {"none", "pending", "running", "succeeded", "failed"}
BatchStatus == {"none", "running", "completed", "completed_with_errors"}

\* "claim" .. "loaded": processAutoFulfillment; "fire": the timer callback;
\* "submit": runAutoFulfillment; "next" .. "existing": enqueueNextBulkItem;
\* "push", "overflow": enqueueAutoJob; "finish_*": finishBulkItem.
Pc == {"idle", "claim", "execute", "save_failed", "save_manual", "loaded",
       "fire", "submit", "next", "enqueue", "created", "existing",
       "push", "overflow", "finish_succeeded", "finish_failed"}

TypeOK ==
    /\ job \in [Orders -> JobStatus]
    /\ attempts \in [Orders -> 0..MaxAttempts]
    /\ batch \in BatchStatus
    /\ item \in [Orders -> ItemStatus]
    /\ turn \in [Orders -> Nat]
    /\ queue \in Seq(Orders) /\ Len(queue) <= QueueCap
    /\ timers \in [Orders -> Nat]
    /\ pc \in [Threads -> Pc]
    /\ ref \in [Threads -> Orders \cup {NoOrder}]
    /\ \A t \in Threads : pc[t] \notin {"idle", "next", "submit"} => ref[t] \in Orders
    /\ accepted \in [Handlers -> Seq(Orders)]
    /\ resume \in {"list", "jobs", "done"}
    /\ todo \subseteq Orders
    /\ requests \in 0..MaxRequests
    /\ crashes \in 0..MaxCrashes /\ dbErrors \in 0..MaxDbErrors
    /\ overflowed \in BOOLEAN

Init ==
    /\ job = [o \in Orders |-> "none"]
    /\ attempts = [o \in Orders |-> 0]
    /\ batch = "none"
    /\ item = [o \in Orders |-> "none"]
    /\ turn = [o \in Orders |-> 0]
    /\ queue = <<>>
    /\ timers = [o \in Orders |-> 0]
    /\ pc = [t \in Threads |-> "idle"]
    /\ ref = [t \in Threads |-> NoOrder]
    /\ accepted = [h \in Handlers |-> <<>>]
    /\ resume = "list"
    /\ todo = {}
    /\ requests = 0 /\ crashes = 0 /\ dbErrors = 0 /\ overflowed = FALSE

-----------------------------------------------------------------------------
(* Moves of a goroutine, and writes of a job's status *)

Goto(t, label) == pc' = [pc EXCEPT ![t] = label] /\ UNCHANGED ref
GotoFor(t, label, o) ==
    /\ pc' = [pc EXCEPT ![t] = label]
    /\ ref' = [ref EXCEPT ![t] = o]
Return(t) == GotoFor(t, "idle", NoOrder)

SetAutoJobState(o, status) == job' = [job EXCEPT ![o] = status] /\ UNCHANGED attempts

-----------------------------------------------------------------------------
(* enqueueAutoJob: a non-blocking send; a full queue fails the job *)

HasRoom == Len(queue) < QueueCap

Push(t) ==
    /\ pc[t] = "push"
    /\ IF HasRoom
       THEN /\ queue' = Append(queue, ref[t])
            /\ Return(t)
            /\ UNCHANGED overflowed
       ELSE /\ overflowed' = TRUE
            /\ Goto(t, "overflow")
            /\ UNCHANGED queue
    /\ UNCHANGED <<jobVars, batchVars, timers, accepted, resume, todo, requests, crashes, dbErrors>>

FailOverflow(t) ==
    /\ pc[t] = "overflow"
    /\ SetAutoJobState(ref[t], "failed")
    /\ Goto(t, "finish_failed")
    /\ UNCHANGED <<batchVars, memory, history>>

(* finishBulkItem: the transaction that gives a running item its verdict    *)
(* and, when that was the last open item, closes the batch                 *)

OpenItems(items) == {o \in Orders : items[o] \in {"pending", "running"}}

\* Mutation: a failed item closes the batch at once.
StatusFailingFast(items) ==
    IF \E o \in Orders : items[o] = "failed" THEN "completed_with_errors"
    ELSE IF OpenItems(items) # {} THEN "running" ELSE "completed"

BulkFulfillmentBatchStatus(items) ==
    IF OpenItems(items) # {} THEN "running"
    ELSE IF \E o \in Orders : items[o] = "failed" THEN "completed_with_errors"
    ELSE "completed"

FinishLabel == [succeeded |-> "finish_succeeded", failed |-> "finish_failed"]

FinishBulkItem(t, verdict) ==
    /\ pc[t] = FinishLabel[verdict]
    /\ IF batch = "running" /\ item[ref[t]] = "running"
       THEN /\ item' = [item EXCEPT ![ref[t]] = verdict]
            /\ batch' = BulkFulfillmentBatchStatus(item')
            /\ IF batch' = "running" THEN GotoFor(t, "next", NoOrder) ELSE Return(t)
       ELSE Return(t) /\ UNCHANGED <<batch, item>>
    /\ UNCHANGED <<jobVars, turn, memory, history>>

(* enqueueNextBulkItem: take the running item of the batch, or start the   *)
(* first pending one, and make sure that its job is on the queue           *)

FirstPending ==
    {o \in Orders : /\ item[o] = "pending"
                    /\ \A p \in Orders : item[p] = "pending" => turn[o] <= turn[p]}
RunningItems == {o \in Orders : item[o] = "running"}

NextItem ==
    IF batch # "running" THEN {}
    ELSE IF RunningItems # {} THEN RunningItems ELSE FirstPending

StartNextBulkItem(t) ==
    /\ pc[t] = "next"
    /\ \/ \E o \in NextItem :
             /\ item' = [item EXCEPT ![o] = "running"]
             /\ GotoFor(t, "enqueue", o)
       \/ NextItem = {} /\ Return(t) /\ UNCHANGED item
    /\ UNCHANGED <<jobVars, batch, turn, memory, history>>

\* EnqueueAutoJob inserts a job, or revives a failed one, and nothing else
\* (the mutation: a completed one too).
EnqueueableAgain(o) == job[o] \in {"none", "failed", "completed"}

Enqueueable(o) == job[o] \in {"none", "failed"}

EnqueueBulkJob(t) ==
    /\ pc[t] = "enqueue"
    /\ IF Enqueueable(ref[t])
       THEN SetAutoJobState(ref[t], "queued") /\ Goto(t, "created")
       ELSE Goto(t, "existing") /\ UNCHANGED jobVars
    /\ UNCHANGED <<batchVars, memory, history>>

\* GetAutoJob after the insert: a new job is pushed, ...
LoadCreatedJob(t) ==
    /\ pc[t] = "created"
    /\ Goto(t, "push")
    /\ UNCHANGED <<jobVars, batchVars, memory, history>>

\* ... an old one according to the status it has by now.
LoadExistingJob(t) ==
    /\ pc[t] = "existing"
    /\ \/ job[ref[t]] = "completed" /\ Goto(t, "finish_succeeded")
       \/ job[ref[t]] = "queued" /\ Goto(t, "push")
       \/ job[ref[t]] \notin {"completed", "queued"} /\ Return(t)
    /\ UNCHANGED <<jobVars, batchVars, memory, history>>

-----------------------------------------------------------------------------
(* processAutoFulfillment *)

Dequeue(w) ==
    /\ pc[w] = "idle" /\ queue # <<>>
    /\ queue' = Tail(queue)
    /\ GotoFor(w, "claim", Head(queue))
    /\ UNCHANGED <<jobVars, batchVars, timers, accepted, resume, todo, history>>

\* Mutation: a worker takes over a job that another one is running.
ClaimableRunning(o) == job[o] \in {"queued", "running"}

Claimable(o) == job[o] = "queued"

ClaimAutoJob(w) ==
    /\ pc[w] = "claim"
    /\ IF Claimable(ref[w])
       THEN /\ job' = [job EXCEPT ![ref[w]] = "running"]
            /\ attempts' = [attempts EXCEPT
                    ![ref[w]] = IF @ < MaxAttempts THEN @ + 1 ELSE @]
            /\ Goto(w, "execute")
       ELSE Return(w) /\ UNCHANGED jobVars
    /\ UNCHANGED <<batchVars, memory, history>>

\* setAutomaticStep: every step of a run writes the status "running" again.
ExecuteStep(w) ==
    /\ pc[w] = "execute"
    /\ SetAutoJobState(ref[w], "running")
    /\ UNCHANGED <<batchVars, memory, pc, ref, history>>

\* The label is bought and handed over, or the order was already fulfilled.
ExecuteComplete(w) ==
    /\ pc[w] = "execute" /\ "completed" \in Outcomes
    /\ SetAutoJobState(ref[w], "completed")
    /\ Goto(w, "loaded")
    /\ UNCHANGED <<batchVars, memory, history>>

\* Mutation: retries are not limited.
RetryForever(o) == TRUE

MayRetry(o) == attempts[o] < MaxAttempts
ArmTimer(o) == timers' = [timers EXCEPT ![o] = @ + 1]

\* The carrier has not confirmed: look again later, unless out of attempts.
ExecuteUnconfirmed(w) ==
    /\ pc[w] = "execute" /\ "unconfirmed" \in Outcomes
    /\ IF MayRetry(ref[w])
       THEN /\ SetAutoJobState(ref[w], "waiting")
            /\ ArmTimer(ref[w])
            /\ Goto(w, "loaded")
       ELSE Goto(w, "save_failed") /\ UNCHANGED <<jobVars, timers>>
    /\ UNCHANGED <<batchVars, queue, accepted, resume, todo, history>>

ExecuteFail(w) ==
    /\ pc[w] = "execute"
    /\ \/ "failed" \in Outcomes /\ Goto(w, "save_failed")
       \/ "manual" \in Outcomes /\ Goto(w, "save_manual")
    /\ UNCHANGED <<jobVars, batchVars, memory, history>>

\* A failed run fails its batch item; an order handed to the operators is
\* skipped by the batch, which counts it as succeeded.
SaveRunError(w) ==
    /\ \/ /\ pc[w] = "save_failed"
          /\ SetAutoJobState(ref[w], "failed")
          /\ Goto(w, "finish_failed")
       \/ /\ pc[w] = "save_manual"
          /\ SetAutoJobState(ref[w], "manual")
          /\ Goto(w, "finish_succeeded")
    /\ UNCHANGED <<batchVars, memory, history>>

\* Mutations: any run without an error, or none, finishes the batch item.
AnyRunFinishes(o) == TRUE
NoRunFinishes(o) == FALSE

RunFinished(o) == job[o] = "completed"

LoadFinishedJob(w) ==
    /\ pc[w] = "loaded"
    /\ IF RunFinished(ref[w]) THEN Goto(w, "finish_succeeded") ELSE Return(w)
    /\ UNCHANGED <<jobVars, batchVars, memory, history>>

-----------------------------------------------------------------------------
(* The timer armed for an unconfirmed shipment *)

TimerFires(c) ==
    /\ pc[c] = "idle"
    /\ \E o \in Orders :
          /\ timers[o] > 0
          /\ timers' = [timers EXCEPT ![o] = @ - 1]
          /\ GotoFor(c, "fire", o)
    /\ UNCHANGED <<jobVars, batchVars, queue, accepted, resume, todo, history>>

RequeueWaitingAutoJob(c) ==
    /\ pc[c] = "fire"
    /\ IF job[ref[c]] = "waiting" /\ attempts[ref[c]] < MaxAttempts
       THEN SetAutoJobState(ref[c], "queued") /\ Goto(c, "push")
       ELSE Return(c) /\ UNCHANGED jobVars
    /\ UNCHANGED <<batchVars, memory, history>>

-----------------------------------------------------------------------------
(* runAutoFulfillment: the orders are validated against the queue first,   *)
(* and submitted, singly or as a batch, in later statements                *)

CanRunAutomaticFulfillment(o) == job[o] \in {"none", "failed"}

Selections(S) == {s \in UNION {[1..n -> S] : n \in 1..Cardinality(S)} :
                    \A i, j \in DOMAIN s : s[i] = s[j] => i = j}

ValidateRequest(h) ==
    /\ pc[h] = "idle"
    /\ EarlyRequests \/ resume # "list"
    /\ requests < MaxRequests /\ requests' = requests + 1
    /\ \E s \in Selections({o \in Orders : CanRunAutomaticFulfillment(o)}) :
          /\ (IF Len(s) = 1 THEN "single" ELSE "bulk") \in Requests
          /\ accepted' = [accepted EXCEPT ![h] = s]
    /\ Goto(h, "submit")
    /\ UNCHANGED <<jobVars, batchVars, queue, timers, resume, todo,
                   crashes, dbErrors, overflowed>>

SubmitSingle(h) ==
    /\ pc[h] = "submit" /\ Len(accepted[h]) = 1
    /\ LET o == accepted[h][1] IN
          IF Enqueueable(o)
          THEN SetAutoJobState(o, "queued") /\ GotoFor(h, "created", o)
          ELSE Return(h) /\ UNCHANGED jobVars
    /\ accepted' = [accepted EXCEPT ![h] = <<>>]
    /\ UNCHANGED <<batchVars, queue, timers, resume, todo, history>>

\* CreateBulkFulfillmentBatch: refused while another batch runs.
CreateBulk(h) ==
    /\ pc[h] = "submit" /\ Len(accepted[h]) > 1
    /\ IF batch = "running"
       THEN Return(h) /\ UNCHANGED batchVars
       ELSE LET s == accepted[h] IN
            /\ batch' = "running"
            /\ item' = [o \in Orders |->
                    IF \E i \in DOMAIN s : s[i] = o THEN "pending" ELSE "none"]
            /\ turn' = [o \in Orders |->
                    IF \E i \in DOMAIN s : s[i] = o
                    THEN CHOOSE i \in DOMAIN s : s[i] = o ELSE 0]
            /\ GotoFor(h, "next", NoOrder)
    /\ accepted' = [accepted EXCEPT ![h] = <<>>]
    /\ UNCHANGED <<jobVars, queue, timers, resume, todo, history>>

-----------------------------------------------------------------------------
(* startAutoWorkers: the goroutine that resumes what a restart interrupted *)

\* Mutation: a job whose worker died with the server is not resumed.
ResumableIdle(o) == job[o] \in {"queued", "waiting"}

Resumable(o) == job[o] \in {"queued", "running", "waiting"}

ListResumableAutoJobs ==
    /\ resume = "list"
    /\ job' = [o \in Orders |-> IF Resumable(o) THEN "queued" ELSE job[o]]
    /\ todo' = {o \in Orders : Resumable(o)}
    /\ resume' = "jobs"
    /\ UNCHANGED <<attempts, batchVars, queue, timers, accepted, pc, ref, history>>

PushResumedJob ==
    /\ resume = "jobs" /\ pc[Recovery] = "idle"
    /\ \E o \in todo :
          /\ todo' = todo \ {o}
          /\ GotoFor(Recovery, "push", o)
    /\ UNCHANGED <<jobVars, batchVars, queue, timers, accepted, resume, history>>

\* Mutation: the batch is not resumed.
ForgetBatch ==
    /\ resume = "jobs" /\ pc[Recovery] = "idle" /\ todo = {}
    /\ resume' = "done"
    /\ UNCHANGED <<jobVars, batchVars, queue, timers, accepted, todo, pc, ref, history>>

ResumeBatch ==
    /\ resume = "jobs" /\ pc[Recovery] = "idle" /\ todo = {}
    /\ resume' = "done"
    /\ Goto(Recovery, "next")
    /\ UNCHANGED <<jobVars, batchVars, queue, timers, accepted, todo, history>>

-----------------------------------------------------------------------------
(* The warehouse watch: an order shipped by hand gets a completed job *)

EnsureWarehouseLedgerJob(o) ==
    /\ job[o] = "none"
    /\ SetAutoJobState(o, "completed")
    /\ UNCHANGED <<batchVars, memory, pc, ref, history>>

-----------------------------------------------------------------------------
(* Failures *)

\* The server stops and starts again: only the database survives.
Crash ==
    /\ crashes < MaxCrashes
    /\ crashes' = crashes + 1
    /\ queue' = <<>>
    /\ timers' = [o \in Orders |-> 0]
    /\ pc' = [t \in Threads |-> "idle"]
    /\ ref' = [t \in Threads |-> NoOrder]
    /\ accepted' = [h \in Handlers |-> <<>>]
    /\ resume' = "list"
    /\ todo' = {}
    /\ UNCHANGED <<jobVars, batchVars, requests, dbErrors, overflowed>>

\* A failed statement: logged and given up, except that the status of a job
\* which cannot be saved does not stop its batch item from being finished.
\* A failed statement of a run is one of its outcomes, not an error here.
DbError(t) ==
    /\ dbErrors < MaxDbErrors /\ dbErrors' = dbErrors + 1
    /\ \/ /\ pc[t] \in {"save_failed", "overflow"}
          /\ Goto(t, "finish_failed")
       \/ pc[t] = "save_manual" /\ Goto(t, "finish_succeeded")
       \/ /\ pc[t] \in {"claim", "loaded", "fire", "submit", "next", "enqueue",
                        "created", "existing", "finish_succeeded", "finish_failed"}
          /\ Return(t)
    /\ accepted' = [h \in Handlers |-> IF h = t THEN <<>> ELSE accepted[h]]
    /\ UNCHANGED <<jobVars, batchVars, queue, timers, resume, todo,
                   requests, crashes, overflowed>>

RecoveryDbError ==
    /\ resume = "list"
    /\ dbErrors < MaxDbErrors /\ dbErrors' = dbErrors + 1
    /\ resume' = "done"
    /\ UNCHANGED <<jobVars, batchVars, queue, timers, accepted, todo, pc, ref,
                   requests, crashes, overflowed>>

-----------------------------------------------------------------------------

\* The parts of enqueueAutoJob, finishBulkItem and enqueueNextBulkItem, which
\* any goroutine may be executing.
SharedStep(t) ==
    \/ Push(t) \/ FailOverflow(t)
    \/ FinishBulkItem(t, "succeeded") \/ FinishBulkItem(t, "failed")
    \/ StartNextBulkItem(t) \/ EnqueueBulkJob(t)
    \/ LoadCreatedJob(t) \/ LoadExistingJob(t)

EndRun(w) == ExecuteComplete(w) \/ ExecuteUnconfirmed(w) \/ ExecuteFail(w)

WorkerStep(w) ==
    \/ Dequeue(w) \/ ClaimAutoJob(w) \/ EndRun(w)
    \/ SaveRunError(w) \/ LoadFinishedJob(w)

CallbackStep(c) == TimerFires(c) \/ RequeueWaitingAutoJob(c)
HandlerStep(h) == SubmitSingle(h) \/ CreateBulk(h)
RecoveryStep == ListResumableAutoJobs \/ PushResumedJob \/ ResumeBatch

Next ==
    \/ \E t \in Threads : SharedStep(t) \/ DbError(t)
    \/ \E w \in Workers : WorkerStep(w) \/ ExecuteStep(w)
    \/ \E c \in Callbacks : CallbackStep(c)
    \/ \E h \in Handlers : ValidateRequest(h) \/ HandlerStep(h)
    \/ \E o \in Orders : EnsureWarehouseLedgerJob(o)
    \/ RecoveryStep \/ RecoveryDbError \/ Crash

Spec == Init /\ [][Next]_vars

\* A goroutine that can go on does so: a run ends because its context expires
\* after autoOperationWindow, a timer fires after autoRetryDelay.  Requests,
\* crashes, database errors and the extra writes of a run are never owed.
Fairness ==
    /\ \A t \in Threads : WF_vars(SharedStep(t))
    /\ \A w \in Workers : WF_vars(WorkerStep(w))
    /\ \A c \in Callbacks : WF_vars(CallbackStep(c))
    /\ \A h \in Handlers : WF_vars(HandlerStep(h))
    /\ WF_vars(RecoveryStep)

FairSpec == Spec /\ Fairness

-----------------------------------------------------------------------------
(* Properties *)

\* The assumptions under which the queue is exact: no request was served
\* before Recovery read the jobs, and the channel never filled up.
Undisturbed == ~EarlyRequests /\ ~overflowed

Running(w) == pc[w] \in {"execute", "save_failed", "save_manual"}

\* The batch and its items agree: one item runs at a time, items start in
\* sequence, the batch is open exactly while an item is, and it closes with
\* errors exactly when an item failed (StartNext- and FinishBulkFulfillmentItem
\* interleaved by every goroutine).
BatchWellFormed ==
    /\ \A o, p \in RunningItems : o = p
    /\ \A o, p \in Orders :
          item[o] \notin {"none", "pending"} /\ item[p] = "pending" => turn[o] < turn[p]
    /\ batch = "running" <=> OpenItems(item) # {}
    /\ batch = "completed" => \A o \in Orders : item[o] # "failed"
    /\ batch = "completed_with_errors" => \E o \in Orders : item[o] = "failed"

\* Two workers never run the same order, however often it was pushed: the
\* compare-and-set of ClaimAutoJob is the only lock of a run.
OneWorkerPerOrder ==
    Undisturbed =>
        \A v, w \in Workers : Running(v) /\ Running(w) /\ ref[v] = ref[w] => v = w

\* A job that says it is under way has somebody to move it: a reference on the
\* channel, a timer, a goroutine, or Recovery (no database call has failed).
JobIsHandled ==
    dbErrors = 0 /\ resume # "list" => \A o \in Orders :
        /\ job[o] = "queued" =>
              \/ o \in todo
              \/ \E i \in DOMAIN queue : queue[i] = o
              \/ \E t \in Threads : ref[t] = o /\ pc[t] \in {"created", "push", "claim", "overflow"}
        /\ job[o] = "running" => \E w \in Workers : Running(w) /\ ref[w] = o
        /\ job[o] = "waiting" => timers[o] > 0 \/ \E c \in Callbacks : ref[c] = o /\ pc[c] = "fire"

\* A running batch is never forgotten: a goroutine is about to take its next
\* item, or its running item has a job under way or a goroutine that is about
\* to finish it.  (An item whose job is "manual" is: see BatchFinishes.)
BatchInHand ==
    dbErrors = 0 /\ resume = "done" /\ batch = "running" =>
        \/ \E t \in Threads : pc[t] = "next"
        \/ \E o \in RunningItems :
              \/ job[o] \in {"queued", "running", "waiting", "manual"}
              \/ \E t \in Threads :
                    /\ ref[t] = o
                    /\ pc[t] \in {"enqueue", "overflow", "finish_failed", "finish_succeeded"}
              \/ \E w \in Workers : ref[w] = o /\ pc[w] = "loaded"
              \/ job[o] = "completed" /\ \E t \in Threads : ref[t] = o /\ pc[t] = "existing"

\* An item the batch counts as succeeded is an order that was fulfilled or
\* handed to the operators, and stays so.
SuccessMeansDone ==
    Undisturbed /\ dbErrors = 0 => \A o \in Orders :
        item[o] = "succeeded" => job[o] \in {"completed", "manual"}

\* A fulfilled order is never submitted again (README.md:168-170), as long as
\* the queue is exact.
CompletedStaysCompleted ==
    [][Undisturbed /\ ~overflowed' =>
          \A o \in Orders : job[o] = "completed" => job'[o] = "completed"]_vars

\* A batch comes to its end (docs/go-fulfillment.md:94-96), whatever becomes
\* of its orders.
BatchFinishes == batch = "running" ~> batch # "running"

\* A job under way settles: the confirmation of an unconfirmed shipment is
\* awaited MaxAttempts times, not for ever.
JobSettles ==
    \A o \in Orders : job[o] \in {"queued", "running", "waiting"}
                        ~> job[o] \in {"completed", "failed", "manual"}
=============================================================================
