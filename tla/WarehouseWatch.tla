--------------------------- MODULE WarehouseWatch ---------------------------
(***************************************************************************)
(* From a bought label to the warehouse: the fulfilment task of one        *)
(* package, the background watcher that follows it, the handlers and the   *)
(* hand-over of an automatic run that work on it at the same time, and the *)
(* parcels (outbound orders) of the warehouse system XLWMS.                *)
(*                                                                         *)
(* A thread reads the row of the task, makes several requests to XLWMS and *)
(* SHEIN, and writes what it found with one statement; no lock is held in  *)
(* between.  One action is one statement or one request.  my[t] is the     *)
(* ParcelWatchUpdate a thread builds, seen[t] the parcel it looked up.     *)
(***************************************************************************)
EXTENDS Integers, FiniteSets

CONSTANTS
    Watchers,       \* the loop of startWarehouseWatch
    Callers,        \* HTTP handlers, and the run that hands its order over
    Ids,            \* outbound order numbers XLWMS can give
    None,           \* no outbound order
    Kinds,          \* the kinds of packages considered, see Init
    Requests,       \* what callers ask for, see AllRequests
    MaxRequests,    \* bound on the requests, hand-overs and reports
    MaxFaults,      \* bound on failed calls and aborted threads
    MaxMoves        \* bound on what the warehouse does with parcels by itself

Threads == Watchers \cup Callers

\* A report is an answer of SHEIN that some other handler writes to the row.
AllRequests == {"sync", "create", "upload", "list", "hand_over", "report"}

ASSUME WatchAssumption ==
    /\ Watchers \cap Callers = {} /\ None \notin Ids
    /\ IsFiniteSet(Ids)
    /\ Kinds \subseteq {"dps", "dps_other_shop", "oms"}
    /\ Requests \subseteq AllRequests
    /\ {MaxRequests, MaxFaults, MaxMoves} \subseteq Nat

VARIABLES
    kind,           \* where the label was bought, and by which shop
    row,            \* the package's row of shein_go_fulfillment_tasks
    \* SHEIN
    platform,       \* state of the order as the synchronisation stored it
    \* XLWMS
    parcel,         \* status of each outbound order
    labelled,       \* outbound orders with a label attached
    cancelling,     \* outbound orders whose cancellation is under way
    oms,            \* the platform order in OMS
    \* threads
    pc, role, my, seen, rec,
    \* history
    requests, faults, moves,
    overlapped      \* two threads have replaced the parcel at the same time

parcels == <<parcel, labelled, cancelling>>
outside == <<platform, parcels, oms>>
threads == <<pc, role, my, seen, rec>>
history == <<requests, faults, moves, overlapped>>
vars == <<kind, row, outside, threads, history>>

\* What a ParcelWatchUpdate holds.  The status "leak" is manual_required with
\* the message that XLWMS has no order for the package.
SyncStates == {"", "waiting_sync", "failed", "leak", "manual_required",
               "verified", "manual_resolved"}
Updates == [outbound : Ids \cup {None},
            key : {"", "open", "shipped", "stopped"}, sync : SyncStates]
NoUpdate == [outbound |-> None, key |-> "", sync |-> ""]
ManualRequired(u) == u.sync \in {"leak", "manual_required"}

ParcelStates == {"draft", "processing", "shipped", "canceled", "exception"}
Sightings == [id : Ids \cup {None}, status : ParcelStates \cup {"unknown"}]
Nothing == [id |-> None, status |-> "unknown"]

WatchPc == {"lookup", "lookup_failed", "platform", "query", "assign", "requery",
            "save", "save_expired", "unprintable"}
\* Between these steps a thread is replacing the parcel.
ReplacePc == {"cancel", "await", "print", "mark", "create"}
ParcelPc == {"ensure", "ensure_lookup", "cancel_lookup", "relook", "record",
             "record_save", "list_lookup", "upload_lookup",
             "print_upload", "mark_upload", "upload", "uploaded"} \cup ReplacePc

TypeOK ==
    /\ kind \in Kinds
    /\ row \in [status : {"placed", "ready", "failed", "resolved"}, resolved : BOOLEAN,
                watch : Updates]
    /\ platform \in {"pending", "shipped"}
    /\ parcel \in [Ids -> ParcelStates \cup {"none"}]
    /\ labelled \subseteq Ids /\ cancelling \subseteq Ids
    /\ oms \in {"missing", "pending", "processing", "shipped", "stopped"}
    /\ pc \in [Threads -> {"idle"} \cup WatchPc \cup ParcelPc]
    /\ role \in [Threads -> {"watch", "hand_over", "operator"}]
    /\ my \in [Threads -> Updates] /\ rec \in [Threads -> Updates]
    /\ seen \in [Threads -> Sightings]
    /\ requests \in 0..MaxRequests /\ faults \in 0..MaxFaults
    /\ moves \in 0..MaxMoves
    /\ overlapped \in BOOLEAN

\* "dps": a DPS warehouse, of a shop that creates its parcels; "dps_other_shop":
\* a DPS warehouse of another shop; "oms": a warehouse served through OMS.
Init ==
    /\ kind \in Kinds
    /\ row = [status |-> "ready", resolved |-> FALSE, watch |-> NoUpdate]
    /\ platform = "pending"
    /\ parcel = [i \in Ids |-> "none"] /\ labelled = {} /\ cancelling = {}
    /\ oms = "missing"
    /\ pc = [t \in Threads |-> "idle"]
    /\ role = [t \in Threads |-> "watch"]
    /\ my = [t \in Threads |-> NoUpdate]
    /\ rec = [t \in Threads |-> NoUpdate]
    /\ seen = [t \in Threads |-> Nothing]
    /\ requests = 0 /\ faults = 0 /\ moves = 0 /\ overlapped = FALSE

RequiresManualParcelCreate == kind = "dps"
DPSWarehouse == kind # "oms"
PlatformFulfilled == platform = "shipped"

CountRequest(what) ==
    /\ what \in Requests /\ requests < MaxRequests
    /\ requests' = requests + 1

-----------------------------------------------------------------------------
(* Control of the threads *)

Goto(t, step) == pc' = [pc EXCEPT ![t] = step]
Start(t, step, r, update) ==
    /\ pc[t] = "idle"
    /\ Goto(t, step)
    /\ role' = [role EXCEPT ![t] = r]
    /\ my' = [my EXCEPT ![t] = update]
    /\ UNCHANGED <<seen, rec>>
Finish(t) ==
    /\ Goto(t, "idle")
    /\ role' = [role EXCEPT ![t] = "watch"]
    /\ my' = [my EXCEPT ![t] = NoUpdate]
    /\ seen' = [seen EXCEPT ![t] = Nothing]
    /\ rec' = [rec EXCEPT ![t] = NoUpdate]
Continue(t, step) == Goto(t, step) /\ UNCHANGED <<role, my, seen, rec>>
See(t, step, s) ==
    /\ Goto(t, step)
    /\ seen' = [seen EXCEPT ![t] = s]
    /\ UNCHANGED <<role, my, rec>>
Save(t, update) ==
    /\ Goto(t, "save")
    /\ my' = [my EXCEPT ![t] = update]
    /\ seen' = [seen EXCEPT ![t] = Nothing]
    /\ rec' = [rec EXCEPT ![t] = NoUpdate]
    /\ UNCHANGED role

\* ensureAutomaticDPSParcel or createLingxingParcel returns an error: the
\* watcher keeps it in the row, the others report it to their callers.
ParcelError(t) ==
    IF role[t] = "watch"
    THEN Save(t, [my[t] EXCEPT !.sync = "waiting_sync"])
    ELSE Finish(t)

\* Mutations: a resolved row is written all the same; the first outbound order
\* of a package is kept; the cancellation is not awaited; an archived row waits on; a parcel in work counts as shipped.
SaveResolvedToo(update) ==
    row' = [row EXCEPT !.watch = update]
KeepFirstOutbound(update) ==
    row' = IF row.resolved THEN row
           ELSE [row EXCEPT !.watch =
                    [update EXCEPT !.outbound = IF row.watch.outbound = None THEN @
                                                ELSE row.watch.outbound]]
GoOnAtOnce(t) == "print"
ArchiveLater(update) == [update EXCEPT !.key = "shipped"]
ShippedInWork(update, s) ==
    [update EXCEPT !.outbound = s.id, !.sync = "verified", !.key = "shipped"]

-----------------------------------------------------------------------------
(* Statements on the row *)

\* A saved update replaces the outcome of the synchronisation, and the outbound
\* order and the status key by known ones only.
SaveParcelWatch(update) ==
    row' = IF row.resolved THEN row
           ELSE [row EXCEPT !.watch =
                    [outbound |-> IF update.outbound = None THEN @.outbound ELSE update.outbound,
                     key |-> IF update.key = "" THEN @.key ELSE update.key,
                     sync |-> update.sync]]

MarkFulfillmentTaskLabelReady ==
    row' = IF row.resolved THEN row ELSE [row EXCEPT !.status = "ready"]

MarkFulfillmentTaskUnprintable ==
    row' = IF row.resolved THEN row ELSE [row EXCEPT !.status = "failed"]

\* What order-detail says of the package; only "ready" replaces anything.
UpsertedStatus ==
    IF row.resolved \/ (row.status = "failed" /\ ManualRequired(row.watch))
    THEN row.status ELSE "ready"
UpsertFulfillmentTask ==
    /\ CountRequest("report")
    /\ row' = [row EXCEPT !.status = UpsertedStatus]
    /\ UNCHANGED <<kind, outside, threads, faults, moves, overlapped>>

\* What check-express-order says of the purchase, read before or after SHEIN
\* confirmed it.
CheckedStatus(status) == IF row.resolved THEN row.status ELSE status
UpdateFulfillmentTaskResult ==
    /\ CountRequest("report")
    /\ \E status \in {"placed", "ready"} :
          row' = [row EXCEPT !.status = CheckedStatus(status)]
    /\ UNCHANGED <<kind, outside, threads, faults, moves, overlapped>>

ResolveFulfillmentTask ==
    /\ row' = [status |-> "resolved", resolved |-> TRUE,
               watch |-> [row.watch EXCEPT !.sync = "manual_resolved"]]
    /\ UNCHANGED <<kind, outside, threads, history>>

\* The selection of ListWarehouseWatchTasks.
Selected ==
    /\ row.status = "ready"
    /\ ~(row.watch.sync = "verified" /\ row.watch.key = "shipped")
    /\ ~(ManualRequired(row.watch) /\ row.watch.outbound = None)

-----------------------------------------------------------------------------
(* The parcel of the order *)

Sighting(i) == [id |-> i, status |-> parcel[i]]
Active == {i \in Ids : parcel[i] \notin {"none", "canceled"}}
Canceled == {i \in Ids : parcel[i] = "canceled"}

\* firstActiveLingxingParcel: a canceled parcel only when there is no other.
LookupLingxingParcel ==
    IF Active # {} THEN {Sighting(i) : i \in Active}
    ELSE IF Canceled # {} THEN {Sighting(i) : i \in Canceled}
    ELSE {Nothing}

AllowsLabelUpdate(s) == s.status \in {"processing", "exception"}
LabelPrintable(t) == ~PlatformFulfilled /\ my[t].key # "shipped"

\* applyLingxingParcelWarehouseDecision
StatusKey(status) ==
    CASE status \in {"draft", "processing"} -> "open"
      [] status = "shipped" -> "shipped"
      [] OTHER -> "stopped"
Decided(update, s) ==
    [update EXCEPT
        !.outbound = s.id,
        !.key = StatusKey(s.status),
        !.sync = CASE s.status \in {"draft", "processing"} -> "waiting_sync"
                   [] s.status = "shipped" -> "verified"
                   [] OTHER -> "manual_required"]
Parcelled(update, s) ==
    IF s.id # None /\ s.status # "unknown" THEN Decided(update, s)
    ELSE [update EXCEPT !.sync = "waiting_sync"]

\* ensureAutomaticDPSParcel returns a parcel, or a request is done with it.
ParcelEnsured(t, s) ==
    IF role[t] = "watch" THEN Save(t, Parcelled(my[t], s)) ELSE Finish(t)

\* ensureAutomaticDPSParcel: read the state of the order, look the parcel up,
\* and keep, relabel, refuse or replace it.  A "draft" is a parcel of status 0 or
\* 1, the second of which is not replaced.
EnsureAutomaticDPSParcel(t) ==
    /\ pc[t] = "ensure"
    /\ IF LabelPrintable(t) THEN Continue(t, "ensure_lookup") ELSE ParcelError(t)
    /\ UNCHANGED <<kind, row, outside, history>>

EnsureLookup(t) ==
    /\ pc[t] = "ensure_lookup"
    /\ \E s \in LookupLingxingParcel :
          IF s.id \in labelled THEN ParcelEnsured(t, s)
          ELSE \/ AllowsLabelUpdate(s) /\ See(t, "print_upload", s)
               \/ s.status \in {"unknown", "draft"} /\ Continue(t, "cancel_lookup")
               \/ s.status \in {"draft", "shipped", "canceled", "exception"} /\ ParcelError(t)
    /\ UNCHANGED <<kind, row, outside, history>>

\* createLingxingParcel: cancel what is there, wait until it is gone, fetch a
\* fresh label, create, look the new parcel up and record it.
CancelLookup(t) ==
    /\ pc[t] = "cancel_lookup"
    /\ \E s \in LookupLingxingParcel :
          \/ (s.id = None \/ s.status = "canceled") /\ Continue(t, "print")
          \/ s.status = "shipped" /\ ParcelError(t)
          \/ s.id # None /\ s.status \notin {"canceled", "shipped"} /\ See(t, "cancel", s)
    /\ overlapped' = (overlapped \/ \E u \in Threads \ {t} : pc[u] \in ReplacePc)
    /\ UNCHANGED <<kind, row, outside, requests, faults, moves>>

AfterCancel(t) == "await"
CancelParcel(t) ==
    /\ pc[t] = "cancel"
    /\ IF parcel[seen[t].id] \in {"shipped", "canceled"}
       THEN ParcelError(t) /\ UNCHANGED cancelling
       ELSE Continue(t, AfterCancel(t)) /\ cancelling' = cancelling \cup {seen[t].id}
    /\ UNCHANGED <<kind, row, platform, parcel, labelled, oms, history>>

\* The cancellation succeeds, is refused, or outlasts the 20 seconds.
WaitForLingxingParcelCanceled(t) ==
    /\ pc[t] = "await"
    /\ IF parcel[seen[t].id] = "canceled" THEN See(t, "print", Nothing) ELSE ParcelError(t)
    /\ UNCHANGED <<kind, row, outside, history>>

\* A watcher that learns that SHEIN no longer prints the label (code 9999400)
\* gives the package up.
PackageExpired(t) ==
    IF role[t] # "watch" THEN Finish(t)
    ELSE /\ Goto(t, "save_expired")
         /\ my' = [my EXCEPT ![t].sync = "manual_required"]
         /\ UNCHANGED <<role, seen, rec>>

\* sheinLabelURL; the answer is persisted in the row by a step of its own.
PrintExpressInfo(t) ==
    /\ pc[t] \in {"print", "print_upload"}
    /\ IF ~LabelPrintable(t) THEN ParcelError(t)
       ELSE \/ Continue(t, IF pc[t] = "print" THEN "mark" ELSE "mark_upload")
            \/ PackageExpired(t)
    /\ UNCHANGED <<kind, row, outside, history>>

PersistPrint(t) ==
    /\ pc[t] \in {"mark", "mark_upload"}
    /\ MarkFulfillmentTaskLabelReady
    /\ Continue(t, IF pc[t] = "mark" THEN "create" ELSE "upload")
    /\ UNCHANGED <<kind, outside, history>>

\* XLWMS may not show the label it was given.
CreateParcel(t) ==
    /\ pc[t] = "create"
    /\ \E i \in Ids, label \in BOOLEAN :
          /\ parcel[i] = "none"
          /\ parcel' = [parcel EXCEPT ![i] = "draft"]
          /\ labelled' = IF label THEN labelled \cup {i} ELSE labelled
          /\ See(t, "relook", [Nothing EXCEPT !.id = i])
    /\ UNCHANGED <<kind, row, platform, cancelling, oms, history>>

LookupCreatedParcel(t) ==
    /\ pc[t] = "relook"
    /\ \E s \in LookupLingxingParcel : See(t, "record", s)
    /\ UNCHANGED <<kind, row, outside, history>>

\* UpdateParcelTrackingLabel, on the parcel a new lookup finds.
UploadLingxingParcelLabel(t) ==
    /\ pc[t] = "upload"
    /\ \E s \in LookupLingxingParcel :
          IF AllowsLabelUpdate(s)
          THEN /\ labelled' = labelled \cup {s.id}
               /\ IF role[t] = "operator" THEN Finish(t) ELSE Continue(t, "uploaded")
          ELSE ParcelError(t) /\ UNCHANGED labelled
    /\ UNCHANGED <<kind, row, platform, parcel, cancelling, oms, history>>

LookupUploadedParcel(t) ==
    /\ pc[t] = "uploaded"
    /\ \E s \in LookupLingxingParcel : ParcelEnsured(t, s)
    /\ UNCHANGED <<kind, row, outside, history>>

\* recordParcelWatch reads the row, merges the parcel, and saves the result.
RecordedWatch(s) ==
    [outbound |-> IF s.id = None THEN row.watch.outbound ELSE s.id,
     key |-> row.watch.key,
     sync |-> IF row.watch.sync = "" THEN "waiting_sync" ELSE row.watch.sync]
RecordParcelWatch(t) ==
    /\ pc[t] = "record"
    /\ Goto(t, "record_save")
    /\ rec' = [rec EXCEPT ![t] = RecordedWatch(seen[t])]
    /\ UNCHANGED <<kind, row, outside, role, my, seen, history>>
SaveRecord(t) ==
    /\ pc[t] = "record_save"
    /\ SaveParcelWatch(rec[t])
    /\ ParcelEnsured(t, seen[t])
    /\ UNCHANGED <<kind, outside, history>>

-----------------------------------------------------------------------------
(* The watcher: refreshWarehouseWatch *)

\* One task of syncWarehouseWatch, by the loop or for POST .../sync.
BeginRefresh(t) ==
    /\ Selected
    /\ Start(t, IF DPSWarehouse THEN "lookup" ELSE "platform", "watch",
             [row.watch EXCEPT !.sync = "waiting_sync"])
    /\ UNCHANGED <<kind, row, outside, faults, moves, overlapped>>
StartPass(t) ==
    t \in Watchers /\ BeginRefresh(t) /\ UNCHANGED requests
SyncOMSPlatformOrders(t) ==
    t \in Callers /\ CountRequest("sync") /\ BeginRefresh(t)

LookupWatchedParcel(t) ==
    /\ pc[t] = "lookup"
    /\ \E s \in LookupLingxingParcel :
          /\ seen' = [seen EXCEPT ![t] = s]
          /\ my' = [my EXCEPT ![t] = IF s.id = None THEN @
                                     ELSE [@ EXCEPT !.outbound = s.id]]
    /\ Goto(t, "platform")
    /\ UNCHANGED <<kind, row, outside, role, rec, history>>

\* A failed lookup ends the refresh when the row knows no parcel and the shop
\* does not create them; otherwise it goes on as if there were none.
LookupFails(t) ==
    /\ pc[t] = "lookup"
    /\ Continue(t, IF my[t].outbound = None /\ ~RequiresManualParcelCreate
                   THEN "lookup_failed" ELSE "platform")

\* SHEIN has shipped or delivered the order: archive the row.
Archived(update) == [update EXCEPT !.key = "shipped", !.sync = "verified"]
ReadPlatform(t) ==
    /\ pc[t] \in {"lookup_failed", "platform"}
    /\ IF PlatformFulfilled THEN Save(t, Archived(my[t]))
       ELSE IF pc[t] = "lookup_failed" THEN Save(t, [my[t] EXCEPT !.sync = "failed"])
       ELSE Continue(t, "query")
    /\ UNCHANGED <<kind, row, outside, history>>

\* decideSHEINOMSPlatformOrder, for an order SHEIN has not shipped: without an
\* order in OMS, XLWMS has 30 minutes to show one.
DecideSHEINOMSPlatformOrder(update) ==
    CASE oms = "missing" ->
            {[update EXCEPT !.key = "open", !.sync = s] : s \in {"waiting_sync", "leak"}}
      [] oms \in {"pending", "processing"} ->
            {[update EXCEPT !.key = "open", !.sync = "waiting_sync"]}
      [] oms = "shipped" -> {[update EXCEPT !.key = "shipped", !.sync = "verified"]}
      [] OTHER -> {[update EXCEPT !.key = "stopped", !.sync = "manual_required"]}

\* What decides about the package: its parcel, the lack of one it needs, or
\* its order in OMS.
QueryPlatformOrder(t) ==
    /\ pc[t] = "query"
    /\ IF seen[t].id # None THEN Save(t, Decided(my[t], seen[t]))
       ELSE IF RequiresManualParcelCreate /\ my[t].outbound = None THEN Continue(t, "ensure")
       ELSE IF oms = "pending" THEN Continue(t, "assign")
       ELSE \E update \in DecideSHEINOMSPlatformOrder(my[t]) : Save(t, update)
    /\ UNCHANGED <<kind, row, outside, history>>

\* A pending order is assigned to the warehouse of the label and read again; an
\* order canceled since counts as none.
AssignPendingOMSPlatformOrder(t) ==
    /\ pc[t] = "assign"
    /\ IF oms = "pending" THEN Continue(t, "requery") /\ oms' = "processing"
       ELSE UNCHANGED oms /\ Save(t, [my[t] EXCEPT !.key = "open"])
    /\ UNCHANGED <<kind, row, platform, parcels, history>>
RequeryPlatformOrder(t) ==
    /\ pc[t] = "requery"
    /\ \/ \E update \in DecideSHEINOMSPlatformOrder(my[t]) : Save(t, update)
       \/ oms = "stopped" /\ Save(t, [my[t] EXCEPT !.key = "open"])
    /\ UNCHANGED <<kind, row, outside, history>>

SaveWatch(t) ==
    /\ pc[t] = "save"
    /\ SaveParcelWatch(my[t])
    /\ Finish(t)
    /\ UNCHANGED <<kind, outside, history>>

\* The package is permanently invalid.
SaveExpired(t) ==
    /\ pc[t] = "save_expired"
    /\ SaveParcelWatch(my[t])
    /\ IF row.resolved THEN Finish(t) ELSE Continue(t, "unprintable")
    /\ UNCHANGED <<kind, outside, history>>
GiveUpPackage(t) ==
    /\ pc[t] = "unprintable"
    /\ MarkFulfillmentTaskUnprintable
    /\ Finish(t)
    /\ UNCHANGED <<kind, outside, history>>

-----------------------------------------------------------------------------
(* Handlers of the operators, and the hand-over of an automatic run *)

Request(t, what) ==
    /\ t \in Callers /\ RequiresManualParcelCreate /\ CountRequest(what)
    /\ UNCHANGED <<kind, row, outside, faults, moves, overlapped>>
\* All they use of the row they loaded is its status key.
KeySeen == [NoUpdate EXCEPT !.key = row.watch.key]
ParcelRequestAllowed ==
    row.status = "ready" /\ ~PlatformFulfilled /\ row.watch.key # "shipped"

CreateXLWMSParcel(t) ==
    Request(t, "create") /\ ParcelRequestAllowed /\ Start(t, "cancel_lookup", "operator", KeySeen)
UploadXLWMSParcelLabel(t) ==
    Request(t, "upload") /\ ParcelRequestAllowed /\ Start(t, "upload_lookup", "operator", KeySeen)
LookupParcelToUpload(t) ==
    /\ pc[t] = "upload_lookup"
    /\ \E s \in LookupLingxingParcel :
          IF AllowsLabelUpdate(s) THEN See(t, "print_upload", s) ELSE Finish(t)
    /\ UNCHANGED <<kind, row, outside, history>>

\* The list of the tasks shows live parcels and records those of new rows.
FulfillmentTasks(t) ==
    Request(t, "list") /\ row.watch.sync = "" /\ Start(t, "list_lookup", "operator", KeySeen)
AttachLingxingParcelStatus(t) ==
    /\ pc[t] = "list_lookup"
    /\ \E s \in LookupLingxingParcel :
          IF s.id = None THEN Finish(t) ELSE See(t, "record", s)
    /\ UNCHANGED <<kind, row, outside, history>>

\* completeAutomaticWarehouseHandoff, whatever the row says.
CompleteAutomaticWarehouseHandoff(t) ==
    Request(t, "hand_over") /\ Start(t, "ensure", "hand_over", KeySeen)

-----------------------------------------------------------------------------
(* Failed calls, and threads that end early *)

\* The next request or statement of a thread fails, or the answer of the last
\* one is an error although it had its effect.  The update of a failed save is
\* lost, a failed reading of the order counts as not shipped.
FailsWith(t) ==
    CASE pc[t] = "lookup" -> LookupFails(t)
      [] pc[t] = "lookup_failed" -> Save(t, [my[t] EXCEPT !.sync = "failed"])
      [] pc[t] = "platform" -> Continue(t, "query")
      [] pc[t] = "query" -> Save(t, [my[t] EXCEPT !.sync = "failed"])
      [] pc[t] \in {"assign", "requery"} -> Save(t, [my[t] EXCEPT !.key = "open"])
      [] pc[t] \in {"ensure", "ensure_lookup", "cancel_lookup", "cancel", "await", "print",
                    "create", "print_upload", "upload", "uploaded"} -> ParcelError(t)
      [] pc[t] \in {"mark", "mark_upload"} ->
            Continue(t, IF pc[t] = "mark" THEN "create" ELSE "upload")
      [] pc[t] = "relook" -> Continue(t, "record") \/ ParcelError(t)
      [] pc[t] \in {"record", "record_save"} -> ParcelEnsured(t, seen[t])
      [] OTHER -> Finish(t)
CallFails(t) ==
    /\ pc[t] # "idle" /\ faults < MaxFaults /\ faults' = faults + 1
    /\ FailsWith(t)
    /\ UNCHANGED <<kind, row, outside, requests, moves, overlapped>>

\* The deadline of a context passes, or the server is restarted; an answer
\* under way is lost.
Abort(t) ==
    /\ pc[t] # "idle" /\ faults < MaxFaults /\ faults' = faults + 1
    /\ Finish(t)
    /\ UNCHANGED <<kind, row, outside, requests, moves, overlapped>>

-----------------------------------------------------------------------------
(* SHEIN and XLWMS *)

ShipOnPlatform ==
    /\ platform' = "shipped"
    /\ UNCHANGED <<kind, row, parcels, oms, threads, history>>

ParcelMoves ==
    \E i \in Ids \ cancelling, status \in ParcelStates :
        /\ moves < MaxMoves /\ moves' = moves + 1
        /\ <<parcel[i], status>> \in
              {"draft"} \X {"processing", "shipped", "exception", "canceled"}
              \cup {"processing"} \X {"shipped", "exception", "canceled"}
              \cup {"exception"} \X {"processing"}
        /\ parcel' = [parcel EXCEPT ![i] = status]
        /\ UNCHANGED <<kind, row, platform, labelled, cancelling, oms, threads,
                       requests, faults, overlapped>>
CancellationEnds ==
    \E i \in cancelling :
        /\ cancelling' = cancelling \ {i}
        /\ parcel' = IF parcel[i] = "shipped" THEN parcel ELSE [parcel EXCEPT ![i] = "canceled"]
        /\ UNCHANGED <<kind, row, platform, labelled, oms, threads, history>>
CancellationRefused ==
    /\ \E i \in cancelling : cancelling' = cancelling \ {i}
    /\ UNCHANGED <<kind, row, platform, parcel, labelled, oms, threads, history>>

\* Parcels the program did not create, for the shops it creates none for.
ForeignParcel ==
    /\ kind = "dps_other_shop" /\ Active = {}
    /\ \E i \in Ids : parcel[i] = "none" /\ parcel' = [parcel EXCEPT ![i] = "draft"]
    /\ UNCHANGED <<kind, row, platform, labelled, cancelling, oms, threads, history>>

OrderMoves ==
    /\ kind # "dps"
    /\ \E status \in {"pending", "processing", "shipped", "stopped"} :
          /\ <<oms, status>> \in {<<"missing", "pending">>, <<"pending", "processing">>,
                <<"processing", "shipped">>, <<"pending", "stopped">>, <<"processing", "stopped">>}
          /\ oms' = status
    /\ UNCHANGED <<kind, row, platform, parcels, threads, history>>

-----------------------------------------------------------------------------

WatchStep(t) ==
    \/ LookupWatchedParcel(t) \/ ReadPlatform(t) \/ QueryPlatformOrder(t)
    \/ AssignPendingOMSPlatformOrder(t) \/ RequeryPlatformOrder(t)
    \/ SaveWatch(t) \/ SaveExpired(t) \/ GiveUpPackage(t)
ParcelStep(t) ==
    \/ EnsureAutomaticDPSParcel(t) \/ EnsureLookup(t) \/ CancelLookup(t) \/ CancelParcel(t)
    \/ WaitForLingxingParcelCanceled(t) \/ PrintExpressInfo(t) \/ PersistPrint(t)
    \/ CreateParcel(t) \/ LookupCreatedParcel(t) \/ RecordParcelWatch(t) \/ SaveRecord(t)
    \/ UploadLingxingParcelLabel(t) \/ LookupUploadedParcel(t)
    \/ LookupParcelToUpload(t) \/ AttachLingxingParcelStatus(t)
RequestStep(t) ==
    \/ SyncOMSPlatformOrders(t) \/ CreateXLWMSParcel(t) \/ UploadXLWMSParcelLabel(t)
    \/ FulfillmentTasks(t) \/ CompleteAutomaticWarehouseHandoff(t)
Reports ==
    UpsertFulfillmentTask \/ UpdateFulfillmentTaskResult \/ ResolveFulfillmentTask
Outside ==
    \/ ShipOnPlatform \/ ParcelMoves \/ CancellationEnds
    \/ CancellationRefused \/ ForeignParcel \/ OrderMoves

Next ==
    \/ \E t \in Threads :
          \/ StartPass(t) \/ WatchStep(t) \/ ParcelStep(t) \/ RequestStep(t)
          \/ CallFails(t) \/ Abort(t)
    \/ Reports
    \/ Outside

Spec == Init /\ [][Next]_vars

\* A started thread goes on, every call having a deadline, and the loop of the
\* watcher comes back every two minutes.  Nothing else is owed.
Fairness ==
    \A t \in Threads : WF_vars(StartPass(t) \/ WatchStep(t) \/ ParcelStep(t))
FairSpec == Spec /\ Fairness

-----------------------------------------------------------------------------
(* Properties *)

\* An order whose parcel was never replaced by two threads at once has at most
\* one living parcel, whatever calls failed, timed out or lost their answers:
\* each creation finds the previous parcel and waits for its cancellation.
OneActiveParcel == ~overlapped => \A i, j \in Active : i = j

\* The watch archives a package only when the order was really shipped, by the
\* parcel, in OMS, or on SHEIN, however old the observations it saves are.
ArchivedMeansShipped ==
    row.watch.sync = "verified" =>
        PlatformFulfilled \/ oms = "shipped" \/ \E i \in Ids : parcel[i] = "shipped"

\* Once an operator has resolved a package, no answer of SHEIN, no watcher and
\* no request that was already running changes its row.
ResolvedStays == [][row.resolved => row' = row]_vars

\* Orders SHEIN has shipped leave the watch for good, although threads that
\* started before may still write what they saw.
ShippedLeavesWatch == PlatformFulfilled ~> []~Selected

\* In the end the row of a watched package names a living parcel if there is
\* one, although stale updates, replacements and failures meet.
ParcelIsRecorded ==
    <>[](Selected /\ Active # {} /\ kind # "oms" => row.watch.outbound \in Active)
=============================================================================
