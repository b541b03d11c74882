--------------------------- MODULE OrderFullSync ---------------------------
(***************************************************************************)
(* The resumable full order synchronisation: the job of one sync key and   *)
(* its time windows in PostgreSQL, the runs of the command                 *)
(* sync-orders-full that work on it - one process each, possibly two at    *)
(* once -, and the order list of SHEIN they page through.                  *)
(*                                                                         *)
(* One action is one SQL transaction or one call of SHEIN with what the    *)
(* process decides from its answer.  A process may fail (an exception, so  *)
(* its handler runs) or crash (nothing runs) between any two of them.      *)
(* Orders are queried by allocation time (queryType 1), which never        *)
(* changes: the answers of SHEIN do not depend on when they are asked for. *)
(* A continuation window starts at a createTime of the records, which is   *)
(* taken to be that time; a detail answer holds each order it was asked    *)
(* for.                                                                    *)
(***************************************************************************)
EXTENDS Integers, Sequences, FiniteSets

CONSTANTS
    Runs,        \* processes running the command
    Orders,      \* orders of the shop, in the order SHEIN created them
    Time,        \* Time[o]: the second order o was allocated in
    Start, End,  \* the interval of the job
    Step,        \* window_hours, in seconds
    PageSizes,   \* the --page-size values of the runs
    Limit,       \* 9990, the depth a window is paged to
    ResetAlone,  \* --reset is only given while no other run is active
    MaxResets,   \* bound on resets
    MaxFaults    \* bound on failures and crashes

ASSUME OrdersAssumption == Orders \subseteq Nat /\ IsFiniteSet(Orders)
ASSUME TimesAssumption ==
    /\ Time \in [Orders -> Nat]
    /\ Start \in Nat /\ End \in Nat /\ Start <= End /\ Step \in Nat
    /\ \A o \in Orders : Start <= Time[o] /\ Time[o] <= End
ASSUME SizesAssumption ==
    /\ PageSizes \subseteq Nat \ {0} /\ Limit \in Nat \ {0}
    /\ ResetAlone \in BOOLEAN /\ MaxResets \in Nat /\ MaxFaults \in Nat

VARIABLES
    job,         \* status of the job row, "none" before it exists
    generation,  \* how often the windows were deleted: part of a window's id
    windows,     \* the window rows: window_index is 1, 2, ... without a gap
    rows,        \* what is stored of an order: nothing, its list entry, its detail
    pc,          \* where a run stands
    size,        \* its page_size
    queue,       \* the pending windows it has read and not yet started
    win,         \* its local variable window, a row as it was read
    page,        \* its local variable page_no
    todo,        \* records of the page it has still to store
    verdict,     \* the job status it computed from the summary
    past,        \* history: orders past the limit of a window that no
                 \* continuation window covers yet, with the window's start
    faults

jobVars == <<job, generation, windows>>
vars == <<job, generation, windows, rows, pc, size, queue, win, page, todo, verdict,
          past, faults>>

-----------------------------------------------------------------------------
(* The order list of SHEIN: the orders of a window in allocation order.    *)
Before(o, o2) == Time[o] < Time[o2] \/ (Time[o] = Time[o2] /\ o < o2)
InWindow(from, to) == {o \in Orders : from <= Time[o] /\ Time[o] <= to}
Rank(from, to, o) ==
    Cardinality({o2 \in InWindow(from, to) : o2 = o \/ Before(o2, o)})
Records(from, to, n, s) ==
    {o \in InWindow(from, to) : (n - 1) * s < Rank(from, to, o) /\ Rank(from, to, o) <= n * s}
\* Past its limit SHEIN may answer an empty page.
OrderListAnswers(from, to, n, s) ==
    {Records(from, to, n, s)} \cup (IF (n - 1) * s >= Limit THEN {{}} ELSE {})

(* build_time_windows: the next window starts one second after this one.   *)
WindowCount == (End - Start) \div (Step + 1) + 1
WindowStart(i) == Start + (i - 1) * (Step + 1)
WindowEnd(i) == IF WindowStart(i) + Step <= End THEN WindowStart(i) + Step ELSE End
NewWindow(from, to) == [start |-> from, end |-> to, status |-> "pending", next |-> 1]

NoWindow == [gen |-> 0, index |-> 0, start |-> 0, end |-> 0, next |-> 0]
Snapshot(i) == [gen |-> generation, index |-> i, start |-> windows[i].start,
                end |-> windows[i].end, next |-> windows[i].next]
Unfinished == {i \in DOMAIN windows : windows[i].status # "success"}

\* A statement on a window id that was deleted since changes no row.
IsStored(w) == w.gen = generation /\ w.index \in DOMAIN windows
SetStatus(w, status) ==
    windows' = IF IsStored(w) THEN [windows EXCEPT ![w.index].status = status] ELSE windows
PageRecords(p) == Records(win[p].start, win[p].end, page[p], size[p])
PastPage(p) ==
    {o \in InWindow(win[p].start, win[p].end) :
        page[p] * size[p] < Rank(win[p].start, win[p].end, o)}
\* Mutant: the continuation starts one second after the last record.
NextSecond(p) ==
    1 + CHOOSE t \in {Time[o] : o \in PageRecords(p)} : \A o \in PageRecords(p) : Time[o] <= t
Latest(p) == CHOOSE t \in {Time[o] : o \in PageRecords(p)} : \A o \in PageRecords(p) : Time[o] <= t

-----------------------------------------------------------------------------
Init ==
    /\ job = "none" /\ generation = 0 /\ windows = <<>>
    /\ rows = [o \in Orders |-> "absent"]
    /\ pc = [p \in Runs |-> "idle"]
    /\ size \in [Runs -> PageSizes]
    /\ queue = [p \in Runs |-> {}] /\ win = [p \in Runs |-> NoWindow]
    /\ page = [p \in Runs |-> 1] /\ todo = [p \in Runs |-> {}]
    /\ verdict = [p \in Runs |-> "running"]
    /\ past = {} /\ faults = 0

Goto(p, label) == pc' = [pc EXCEPT ![p] = label]

\* ensure_order_full_sync_job: the job is created, or taken up again.
EnsureJob(p) ==
    /\ pc[p] = "idle"
    /\ job' = IF job = "success" THEN "success" ELSE "running"
    /\ \E s \in PageSizes : size' = [size EXCEPT ![p] = s]
    /\ win' = [win EXCEPT ![p] = NoWindow]
    /\ Goto(p, "windows")
    /\ UNCHANGED <<generation, windows, rows, queue, page, todo, verdict, past, faults>>

\* The same with --reset: the windows go in the same transaction.
ResetJob(p) ==
    /\ pc[p] = "idle" /\ job # "none" /\ generation < MaxResets
    /\ ResetAlone => \A p2 \in Runs : pc[p2] = "idle"
    /\ job' = "running" /\ generation' = generation + 1
    /\ windows' = <<>>
    /\ \E s \in PageSizes : size' = [size EXCEPT ![p] = s]
    /\ win' = [win EXCEPT ![p] = NoWindow]
    /\ past' = {}
    /\ Goto(p, "windows")
    /\ UNCHANGED <<rows, queue, page, todo, verdict, faults>>

\* A window index that is taken keeps its row.
EnsureWindows(p) ==
    /\ pc[p] = "windows"
    /\ windows' = [i \in 1..(IF Len(windows) < WindowCount THEN WindowCount ELSE Len(windows)) |->
                      IF i <= Len(windows) THEN windows[i]
                      ELSE NewWindow(WindowStart(i), WindowEnd(i))]
    /\ Goto(p, "pending")
    /\ UNCHANGED <<job, generation, rows, size, queue, win, page, todo, verdict, past, faults>>

LoadPending(p) ==
    /\ pc[p] = "pending"
    /\ queue' = [queue EXCEPT ![p] = {Snapshot(i) : i \in Unfinished}]
    /\ Goto(p, IF Unfinished = {} THEN "summary" ELSE "window")
    /\ UNCHANGED <<jobVars, rows, size, win, page, todo, verdict, past, faults>>

\* The run goes through what it read, whatever became of it meanwhile.
StartWindow(p) ==
    /\ pc[p] = "window"
    /\ \E w \in queue[p] :
          /\ \A w2 \in queue[p] : w.index <= w2.index
          /\ win' = [win EXCEPT ![p] = w]
          /\ queue' = [queue EXCEPT ![p] = @ \ {w}]
          /\ page' = [page EXCEPT ![p] = w.next]
          /\ SetStatus(w, "running")
    /\ Goto(p, "list")
    /\ UNCHANGED <<job, generation, rows, size, todo, verdict, past, faults>>

ListPage(p) ==
    /\ pc[p] = "list"
    /\ \E answer \in OrderListAnswers(win[p].start, win[p].end, page[p], size[p]) :
          /\ todo' = [todo EXCEPT ![p] = answer]
          /\ Goto(p, IF answer = {} THEN "finish" ELSE "upsert")
    /\ UNCHANGED <<jobVars, rows, size, queue, win, page, verdict, past, faults>>

\* Mutant: the page is recorded before the details are fetched.
UpsertOrderThenComplete(p) ==
    /\ pc[p] = "upsert"
    /\ \E o \in todo[p] :
          /\ rows' = [rows EXCEPT ![o] = IF @ = "absent" THEN "listed" ELSE @]
          /\ todo' = [todo EXCEPT ![p] = @ \ {o}]
          /\ Goto(p, IF todo[p] = {o} THEN "complete" ELSE "upsert")
    /\ UNCHANGED <<jobVars, size, queue, win, page, verdict, past, faults>>
\* upsert_order keeps the detail of a row that has one.
UpsertOrder(p) ==
    /\ pc[p] = "upsert"
    /\ \E o \in todo[p] :
          /\ \A o2 \in todo[p] \ {o} : Before(o, o2)
          /\ rows' = [rows EXCEPT ![o] = IF @ = "absent" THEN "listed" ELSE @]
          /\ todo' = [todo EXCEPT ![p] = IF @ = {o} THEN PageRecords(p) ELSE @ \ {o}]
          /\ Goto(p, IF todo[p] = {o} THEN "detail" ELSE "upsert")
    /\ UNCHANGED <<jobVars, size, queue, win, page, verdict, past, faults>>

\* One call of order-detail answers for the page; each row is updated alone.
UpdateOrderDetail(p) ==
    /\ pc[p] = "detail"
    /\ \E o \in todo[p] :
          /\ \A o2 \in todo[p] \ {o} : Before(o, o2)
          /\ rows' = [rows EXCEPT ![o] = IF @ = "absent" THEN @ ELSE "detailed"]
          /\ todo' = [todo EXCEPT ![p] = @ \ {o}]
          /\ Goto(p, IF todo[p] = {o} THEN "complete" ELSE "detail")
    /\ UNCHANGED <<jobVars, size, queue, win, page, verdict, past, faults>>

\* len(records) < page_size, for a page that is not empty.
IsShort(p) == Cardinality(InWindow(win[p].start, win[p].end)) < page[p] * size[p]
AtLimit(p) == page[p] * size[p] >= Limit

CompletePage(p) ==
    /\ pc[p] = "complete"
    /\ windows' = IF IsStored(win[p])
                  THEN [windows EXCEPT ![win[p].index].next = page[p] + 1] ELSE windows
    /\ \/ /\ IsShort(p)
          /\ Goto(p, "finish") /\ UNCHANGED <<page, past>>
       \/ /\ ~IsShort(p) /\ AtLimit(p)
          /\ past' = past \cup ({win[p].start} \X PastPage(p))
          /\ Goto(p, "continue") /\ UNCHANGED page
       \/ /\ ~IsShort(p) /\ ~AtLimit(p)
          /\ page' = [page EXCEPT ![p] = @ + 1]
          /\ Goto(p, "list") /\ UNCHANGED past
    /\ UNCHANGED <<job, generation, rows, size, queue, win, todo, verdict, faults>>

Continues(w, t) == t < w.end
Covered(w, t) == \E i \in DOMAIN windows : windows[i].start = t /\ windows[i].end = w.end

\* The rest of a window that is too deep becomes a window of its own.
CreateContinuation(p) ==
    LET t == Latest(p) IN
       /\ pc[p] = "continue"
       /\ windows' = IF Continues(win[p], t) /\ ~Covered(win[p], t)
                     THEN Append(windows, NewWindow(t, win[p].end)) ELSE windows
       /\ past' = IF win[p].start < t /\ Continues(win[p], t)
                  THEN past \ ({win[p].start} \X PastPage(p)) ELSE past
       /\ Goto(p, "finish")
       /\ UNCHANGED <<job, generation, rows, size, queue, win, page, todo, verdict, faults>>

\* Mutant: the window is left running.
LeaveWindow(p) ==
    /\ pc[p] = "finish"
    /\ Goto(p, IF queue[p] = {} THEN "pending" ELSE "window")
    /\ UNCHANGED <<job, generation, windows, rows, size, queue, win, page, todo, verdict, past,
                   faults>>
FinishWindow(p) ==
    /\ pc[p] = "finish"
    /\ SetStatus(win[p], "success")
    /\ Goto(p, IF queue[p] = {} THEN "pending" ELSE "window")
    /\ UNCHANGED <<job, generation, rows, size, queue, win, page, todo, verdict, past, faults>>

ReadSummary(p) ==
    /\ pc[p] = "summary"
    /\ verdict' = [verdict EXCEPT ![p] = IF Unfinished = {} THEN "success" ELSE "running"]
    /\ Goto(p, "job")
    /\ UNCHANGED <<jobVars, rows, size, queue, win, page, todo, past, faults>>

\* A run that ends forgets its local variables.
Leave(p) ==
    /\ Goto(p, "idle")
    /\ queue' = [queue EXCEPT ![p] = {}] /\ win' = [win EXCEPT ![p] = NoWindow]
    /\ todo' = [todo EXCEPT ![p] = {}] /\ page' = [page EXCEPT ![p] = 1]
    /\ verdict' = [verdict EXCEPT ![p] = "running"]
    /\ UNCHANGED size

FinishJob(p) ==
    /\ pc[p] = "job"
    /\ job' = verdict[p]
    /\ Leave(p)
    /\ UNCHANGED <<generation, windows, rows, past, faults>>

\* The except clause fails the window the variable was last bound to, which
\* may be one that has just been finished.
Tried == {"pending", "window", "list", "upsert", "detail", "complete", "continue",
          "finish", "summary", "job"}
Fail(p) ==
    /\ pc[p] \in Tried /\ faults < MaxFaults
    /\ faults' = faults + 1
    /\ Goto(p, IF win[p] = NoWindow THEN "failJob" ELSE "failWindow")
    /\ UNCHANGED <<jobVars, rows, size, queue, win, page, todo, verdict, past>>

\* Mutant: the window is closed whether or not its loop raised.
CloseFailedWindow(p) ==
    /\ pc[p] = "failWindow"
    /\ SetStatus(win[p], "success")
    /\ Goto(p, "failJob")
    /\ UNCHANGED <<job, generation, rows, size, queue, win, page, todo, verdict, past, faults>>
FailWindow(p) ==
    /\ pc[p] = "failWindow"
    /\ SetStatus(win[p], "failed")
    /\ Goto(p, "failJob")
    /\ UNCHANGED <<job, generation, rows, size, queue, win, page, todo, verdict, past, faults>>

FailJob(p) ==
    /\ pc[p] = "failJob"
    /\ job' = "failed"
    /\ Leave(p)
    /\ UNCHANGED <<generation, windows, rows, past, faults>>

Crash(p) ==
    /\ pc[p] # "idle" /\ faults < MaxFaults
    /\ faults' = faults + 1
    /\ Leave(p)
    /\ UNCHANGED <<jobVars, rows, past>>

Work(p) ==
    \/ EnsureWindows(p) \/ LoadPending(p) \/ StartWindow(p) \/ ListPage(p)
    \/ UpsertOrder(p) \/ UpdateOrderDetail(p) \/ CompletePage(p) \/ CreateContinuation(p)
    \/ FinishWindow(p) \/ ReadSummary(p) \/ FinishJob(p) \/ FailWindow(p) \/ FailJob(p)

Next == \E p \in Runs : EnsureJob(p) \/ ResetJob(p) \/ Work(p) \/ Fail(p) \/ Crash(p)

Spec == Init /\ [][Next]_vars
FairSpec == Spec /\ WF_vars(\E p \in Runs : Work(p))

-----------------------------------------------------------------------------
Labels == Tried \cup {"idle", "windows", "failWindow", "failJob"}
WindowRows == [start : Nat, end : Nat, status : {"pending", "running", "success", "failed"},
               next : Nat \ {0}]
Snapshots == [gen : Nat, index : Nat, start : Nat, end : Nat, next : Nat \ {0}]

TypeOK ==
    /\ job \in {"none", "running", "success", "failed"}
    /\ generation \in Nat /\ faults \in Nat
    /\ windows \in Seq(WindowRows)
    /\ rows \in [Orders -> {"absent", "listed", "detailed"}]
    /\ pc \in [Runs -> Labels]
    /\ size \in [Runs -> PageSizes]
    /\ queue \in [Runs -> SUBSET Snapshots]
    /\ win \in [Runs -> Snapshots \cup {NoWindow}]
    /\ page \in [Runs -> Nat \ {0}]
    /\ todo \in [Runs -> SUBSET Orders]
    /\ verdict \in [Runs -> {"running", "success"}]
    /\ past \in SUBSET (Nat \X Orders)

IsDone(o) == rows[o] = "detailed"

\* Every order of the pages before a window's next_page is stored with its
\* detail: progress is recorded after the work it stands for, whatever
\* interrupts the run and whoever else works on the window
\* (complete_order_full_sync_window_page).
ProgressIsEarned ==
    \A i \in DOMAIN windows : \A o \in InWindow(windows[i].start, windows[i].end) :
        \A s \in PageSizes :
            IsDone(o) \/ (windows[i].next - 1) * s < Rank(windows[i].start, windows[i].end, o)

\* Every order of a finished window is stored with its detail, or a later
\* window that is still to be fetched holds it, or it lies past the limit of
\* a window whose continuation was not written.
FinishedWindowIsComplete ==
    \A i \in DOMAIN windows : windows[i].status = "success" =>
        \A o \in InWindow(windows[i].start, windows[i].end) :
            \/ IsDone(o)
            \/ \E t \in {x[1] : x \in past} : windows[i].start <= t /\ <<t, o>> \in past
            \/ \E j \in Unfinished :
                  /\ windows[i].start < windows[j].start
                  /\ o \in InWindow(windows[j].start, windows[j].end)

\* Once the job has windows, an order of its interval is stored with its
\* detail, or a rerun of the key fetches it, or it lies past the limit of a
\* window whose continuation was not written.
NothingElseLost ==
    windows # <<>> => \A o \in Orders :
        \/ IsDone(o)
        \/ \E t \in {x[1] : x \in past} : <<t, o>> \in past
        \/ \E i \in Unfinished : o \in InWindow(windows[i].start, windows[i].end)

\* README.md:334-336: "Progress is stored in PostgreSQL after each list page
\* and detail batch, so rerunning the same --sync-key resumes unfinished
\* windows."  An order that is not stored would be in an unfinished window.
RerunResumes ==
    windows # <<>> => \A o \in Orders :
        IsDone(o) \/ \E i \in Unfinished : o \in InWindow(windows[i].start, windows[i].end)

\* A run that works alone ends: the windows it has to fetch do not grow
\* without end, although it adds continuation windows itself, restarts at
\* recorded pages and reads the unfinished windows again and again.  (Two runs
\* of one key can hand a window to each other for ever.)
OneActive == \E p \in Runs : pc[p] # "idle" /\ \A p2 \in Runs \ {p} : pc[p2] = "idle"
LoneRunEnds == OneActive ~> ~OneActive
=============================================================================
