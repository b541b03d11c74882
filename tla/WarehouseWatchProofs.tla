------------------------ MODULE WarehouseWatchProofs ------------------------
(***************************************************************************)
(* What holds of the parcels and of the watched row for any number of      *)
(* watchers, callers and outbound orders, and any number of requests,      *)
(* failed calls and moves of the warehouse.                                *)
(***************************************************************************)
EXTENDS WarehouseWatch, TLAPS

PcStates == {"idle"} \cup WatchPc \cup ParcelPc

\* The order of a thread that cancels a parcel is a real one.
CancelsAParcel == \A t \in Threads : pc[t] \in {"cancel", "await"} => seen[t].id \in Ids

TypeInv == TypeOK /\ CancelsAParcel

\* A resolved row says so in both of its columns.
ResolvedRow ==
    row.resolved => row.status = "resolved" /\ row.watch.sync = "manual_resolved"

\* What a thread holds back rests on something that was shipped, and that
\* stays so.
Evidence ==
    PlatformFulfilled \/ oms = "shipped" \/ \E i \in Ids : parcel[i] = "shipped"
ThreadsArchiveNothing ==
    \A t \in Threads :
        my[t].sync # "verified" /\ rec[t].sync # "verified" /\ seen[t].status # "shipped"
ArchiveInv == Evidence \/ (row.watch.sync # "verified" /\ ThreadsArchiveNothing)

\* Only the parcels of shops that create them are replaced, and a thread that
\* replaces one alone knows every living parcel of the order.
CreatePc == {"ensure", "ensure_lookup", "cancel_lookup"} \cup ReplacePc
FreshPc == {"print", "mark", "create"}
OwnShop == \A t \in Threads : pc[t] \in CreatePc => kind = "dps"
ReplacedAlone ==
    /\ \A s, t \in Threads : pc[s] \in ReplacePc /\ pc[t] \in ReplacePc => s = t
    /\ \A t \in Threads : pc[t] \in {"cancel", "await"} => Active \subseteq {seen[t].id}
    /\ \A t \in Threads : pc[t] \in FreshPc => Active = {}
    /\ \A i, j \in Active : i = j
ReplaceInv == OwnShop /\ (~overlapped => ReplacedAlone)

-----------------------------------------------------------------------------
(* Types *)

\* What a lookup finds: nothing, a living parcel, or a canceled one when none lives.
LEMMA Sighted ==
    ASSUME TypeOK, NEW s \in LookupLingxingParcel
    PROVE  /\ s \in Sightings
           /\ s.status # "unknown" => s.id \in Ids
           /\ s.status = "shipped" => Evidence
           /\ s.id = None \/ s.status = "canceled" => Active = {}
           /\ s.id # None /\ s.status # "canceled" => s.id \in Active
  <1> USE WatchAssumption
  <1>1. CASE Active # {}
    <2>1. PICK i \in Active : s = Sighting(i)
      BY <1>1 DEF LookupLingxingParcel
    <2>2. i \in Ids /\ parcel[i] \in ParcelStates \ {"canceled"} /\ s.id = i /\ s.status = parcel[i]
      BY <2>1 DEF Active, Sighting, TypeOK
    <2>3. s \in Sightings
      BY <2>1, <2>2 DEF Sighting, Sightings
    <2> QED BY <2>1, <2>2, <2>3 DEF Evidence, ParcelStates
  <1>2. CASE Active = {} /\ Canceled # {}
    <2>1. PICK i \in Canceled : s = Sighting(i)
      BY <1>2 DEF LookupLingxingParcel
    <2>2. i \in Ids /\ s.id = i /\ s.status = "canceled"
      BY <2>1 DEF Canceled, Sighting
    <2>3. s \in Sightings
      BY <2>1, <2>2 DEF Sighting, Sightings, Canceled, ParcelStates
    <2> QED BY <1>2, <2>2, <2>3
  <1>3. CASE Active = {} /\ Canceled = {}
    <2>1. s = Nothing
      BY <1>3 DEF LookupLingxingParcel
    <2> QED BY <1>3, <2>1 DEF Nothing, Sightings
  <1> QED BY <1>1, <1>2, <1>3

ThreadTypes ==
    /\ pc \in [Threads -> PcStates]
    /\ role \in [Threads -> {"watch", "hand_over", "operator"}]
    /\ my \in [Threads -> Updates] /\ rec \in [Threads -> Updates]
    /\ seen \in [Threads -> Sightings]
    /\ CancelsAParcel

\* The control operators keep the state of the threads typed.
LEMMA ControlTyped ==
    ASSUME ThreadTypes, NEW t \in Threads
    PROVE  /\ Finish(t) => ThreadTypes'
           /\ \A step \in PcStates \ {"cancel"} :
                 (step = "await" => pc[t] = "cancel") /\ Continue(t, step) => ThreadTypes'
           /\ \A step \in PcStates, s \in Sightings :
                 (step \in {"cancel", "await"} => s.id \in Ids) /\ See(t, step, s) => ThreadTypes'
           /\ \A update \in Updates : Save(t, update) => ThreadTypes'
           /\ ParcelError(t) => ThreadTypes'
  <1> USE DEF ThreadTypes, CancelsAParcel
  <1>1. NoUpdate \in Updates /\ Nothing \in Sightings /\ {"idle", "save"} \subseteq PcStates
    BY DEF NoUpdate, Updates, SyncStates, Nothing, Sightings, PcStates, WatchPc
  <1>2. Finish(t) => ThreadTypes'
    BY <1>1 DEF Finish, Goto
  <1>3. \A update \in Updates : Save(t, update) => ThreadTypes'
    BY <1>1 DEF Save, Goto
  <1>4. [my[t] EXCEPT !.sync = "waiting_sync"] \in Updates
    BY ZenonT(60) DEF Updates, SyncStates
  <1>5. ParcelError(t) => ThreadTypes'
    BY <1>2, <1>3, <1>4 DEF ParcelError
  <1>6. ASSUME NEW step \in PcStates \ {"cancel"}, step = "await" => pc[t] = "cancel",
               Continue(t, step)
        PROVE  ThreadTypes'
    BY <1>6 DEF Continue, Goto
  <1>7. ASSUME NEW step \in PcStates, NEW s \in Sightings,
               step \in {"cancel", "await"} => s.id \in Ids, See(t, step, s)
        PROVE  ThreadTypes'
    BY <1>7 DEF See, Goto
  <1> QED BY <1>2, <1>3, <1>5, <1>6, <1>7

\* The updates a refresh builds are typed.
LEMMA UpdatesTyped ==
    ASSUME NEW u \in Updates
    PROVE  /\ \A s \in SyncStates : [u EXCEPT !.sync = s] \in Updates
           /\ \A k \in {"", "open", "shipped", "stopped"} : [u EXCEPT !.key = k] \in Updates
           /\ \A i \in Ids : [u EXCEPT !.outbound = i] \in Updates
           /\ Archived(u) \in Updates
           /\ DecideSHEINOMSPlatformOrder(u) \subseteq Updates
           /\ \A s \in Sightings : Decided(u, s) \in Updates /\ Parcelled(u, s) \in Updates
  <1>1. /\ \A s \in SyncStates : [u EXCEPT !.sync = s] \in Updates
        /\ \A k \in {"", "open", "shipped", "stopped"} : [u EXCEPT !.key = k] \in Updates
        /\ \A k \in {"", "open", "shipped", "stopped"}, s \in SyncStates :
              [u EXCEPT !.key = k, !.sync = s] \in Updates
    BY DEF Updates
  <1>2. \A i \in Ids : [u EXCEPT !.outbound = i] \in Updates
    BY DEF Updates
  <1>3. Archived(u) \in Updates
    BY DEF Updates, Archived, SyncStates
  <1>4. DecideSHEINOMSPlatformOrder(u) \subseteq Updates
    <2>1. {"waiting_sync", "leak", "verified", "manual_required"} \subseteq SyncStates
      BY DEF SyncStates
    <2> QED BY <1>1, <2>1 DEF DecideSHEINOMSPlatformOrder
  <1>5. ASSUME NEW s \in Sightings PROVE Decided(u, s) \in Updates /\ Parcelled(u, s) \in Updates
    <2>1. Decided(u, s) \in Updates
      BY DEF Decided, StatusKey, Updates, SyncStates, Sightings
    <2>2. [u EXCEPT !.sync = "waiting_sync"] \in Updates
      BY DEF Updates, SyncStates
    <2> QED BY <2>1, <2>2 DEF Parcelled
  <1> QED BY <1>1, <1>2, <1>3, <1>4, <1>5

\* Both outcomes of ensureAutomaticDPSParcel are typed, and so is giving up.
LEMMA OutcomesTyped ==
    ASSUME ThreadTypes, NEW t \in Threads
    PROVE  /\ PackageExpired(t) => ThreadTypes'
           /\ \A s \in Sightings : ParcelEnsured(t, s) => ThreadTypes'
  <1>1. my[t] \in Updates
    BY DEF ThreadTypes
  <1>2. ASSUME PackageExpired(t), role[t] = "watch" PROVE ThreadTypes'
    <2>1. [my[t] EXCEPT !.sync = "manual_required"] \in Updates
      BY <1>1 DEF Updates, SyncStates
    <2> QED BY <1>2, <2>1 DEF ThreadTypes, CancelsAParcel, PackageExpired, Goto, PcStates, WatchPc
  <1> QED BY <1>1, <1>2, ControlTyped, UpdatesTyped DEF PackageExpired, ParcelEnsured

\* TypeOK of everything but the threads.
PlaceTypes ==
    /\ kind \in Kinds
    /\ row \in [status : {"placed", "ready", "failed", "resolved"}, resolved : BOOLEAN,
                watch : Updates]
    /\ platform \in {"pending", "shipped"}
    /\ parcel \in [Ids -> ParcelStates \cup {"none"}]
    /\ labelled \subseteq Ids /\ cancelling \subseteq Ids
    /\ oms \in {"missing", "pending", "processing", "shipped", "stopped"}
    /\ requests \in 0..MaxRequests /\ faults \in 0..MaxFaults
    /\ moves \in 0..MaxMoves
    /\ overlapped \in BOOLEAN

LEMMA TypesSplit ==
    /\ TypeInv <=> PlaceTypes /\ ThreadTypes
    /\ TypeInv' <=> PlaceTypes' /\ ThreadTypes'
  BY DEF TypeInv, TypeOK, PlaceTypes, ThreadTypes, PcStates

LEMMA PlaceUnchanged ==
    ASSUME PlaceTypes, UNCHANGED <<kind, row, outside, history>> PROVE PlaceTypes'
  BY DEF PlaceTypes, outside, parcels, history

LEMMA ThreadsUnchanged ==
    ASSUME ThreadTypes, UNCHANGED threads PROVE ThreadTypes'
  BY DEF ThreadTypes, CancelsAParcel, threads

\* The statements on the row keep it typed.
LEMMA RowTyped ==
    ASSUME PlaceTypes
    PROVE  /\ \A u \in Updates :
                 SaveParcelWatch(u) /\ UNCHANGED <<kind, outside, history>> => PlaceTypes'
           /\ MarkFulfillmentTaskLabelReady /\ UNCHANGED <<kind, outside, history>> => PlaceTypes'
           /\ MarkFulfillmentTaskUnprintable /\ UNCHANGED <<kind, outside, history>> => PlaceTypes'
  <1> USE DEF PlaceTypes, outside, parcels, history
  <1>1. ASSUME NEW u \in Updates, SaveParcelWatch(u), UNCHANGED <<kind, outside, history>>
        PROVE  PlaceTypes'
    <2>1. row' = row \/ \E w \in Updates : row' = [row EXCEPT !.watch = w]
      <3>1. [outbound |-> IF u.outbound = None THEN row.watch.outbound ELSE u.outbound,
             key |-> IF u.key = "" THEN row.watch.key ELSE u.key,
             sync |-> u.sync] \in Updates
        BY DEF Updates
      <3> QED BY <1>1, <3>1 DEF SaveParcelWatch
    <2> QED BY <1>1, <2>1
  <1>2. MarkFulfillmentTaskLabelReady /\ UNCHANGED <<kind, outside, history>> => PlaceTypes'
    BY DEF MarkFulfillmentTaskLabelReady
  <1>3. MarkFulfillmentTaskUnprintable /\ UNCHANGED <<kind, outside, history>> => PlaceTypes'
    BY DEF MarkFulfillmentTaskUnprintable
  <1> QED BY <1>1, <1>2, <1>3

LEMMA TypeInit == Init => TypeInv
  <1> SUFFICES ASSUME Init PROVE TypeInv
    OBVIOUS
  <1> USE WatchAssumption
  <1>1. NoUpdate \in Updates /\ Nothing \in Sightings
    BY DEF NoUpdate, Updates, SyncStates, Nothing, Sightings
  <1>2. ThreadTypes
    BY <1>1 DEF Init, ThreadTypes, CancelsAParcel, PcStates
  <1>3. PlaceTypes
    <2>1. 0 \in 0..MaxRequests /\ 0 \in 0..MaxFaults /\ 0 \in 0..MaxMoves
      OBVIOUS
    <2>2. [status |-> "ready", resolved |-> FALSE, watch |-> NoUpdate]
             \in [status : {"placed", "ready", "failed", "resolved"}, resolved : BOOLEAN,
                  watch : Updates]
      BY <1>1
    <2> QED BY <2>1, <2>2 DEF Init, PlaceTypes
  <1> QED BY <1>2, <1>3, TypesSplit

\* The steps of a thread that touch nothing but itself keep the types.
LEMMA LocalTypes ==
    ASSUME TypeInv, NEW t \in Threads,
           \/ EnsureAutomaticDPSParcel(t) \/ EnsureLookup(t)
           \/ WaitForLingxingParcelCanceled(t) \/ PrintExpressInfo(t) \/ LookupCreatedParcel(t)
           \/ LookupUploadedParcel(t) \/ RecordParcelWatch(t)
           \/ LookupWatchedParcel(t) \/ ReadPlatform(t) \/ QueryPlatformOrder(t)
           \/ RequeryPlatformOrder(t) \/ LookupParcelToUpload(t) \/ AttachLingxingParcelStatus(t)
    PROVE  TypeInv'
  <1>1. TypeOK /\ PlaceTypes /\ ThreadTypes
    BY TypesSplit DEF TypeInv
  <1>2. my[t] \in Updates /\ rec[t] \in Updates /\ seen[t] \in Sightings /\ row.watch \in Updates
    BY <1>1 DEF PlaceTypes, ThreadTypes
  <1>a. UNCHANGED <<kind, row, outside, history>>
    BY DEF EnsureAutomaticDPSParcel, EnsureLookup, WaitForLingxingParcelCanceled, PrintExpressInfo,
           LookupCreatedParcel, LookupUploadedParcel, RecordParcelWatch, LookupWatchedParcel,
           ReadPlatform, QueryPlatformOrder, RequeryPlatformOrder, LookupParcelToUpload,
           AttachLingxingParcelStatus
  <1> SUFFICES ThreadTypes'
    <2>1. PlaceTypes'
      BY <1>1, <1>a, PlaceUnchanged
    <2> QED BY <2>1, TypesSplit
  <1> USE <1>1, <1>2 DEF PcStates, WatchPc, ParcelPc, ReplacePc
  <1>3. CASE EnsureAutomaticDPSParcel(t)
    BY <1>3, ControlTyped DEF EnsureAutomaticDPSParcel
  <1>4. CASE EnsureLookup(t)
    BY <1>4, ControlTyped, OutcomesTyped, Sighted DEF EnsureLookup
  <1>5. CASE WaitForLingxingParcelCanceled(t)
    BY <1>5, ControlTyped DEF WaitForLingxingParcelCanceled, Nothing, Sightings
  <1>6. CASE PrintExpressInfo(t)
    BY <1>6, ControlTyped, OutcomesTyped DEF PrintExpressInfo
  <1>7. CASE LookupCreatedParcel(t)
    BY <1>7, ControlTyped, Sighted DEF LookupCreatedParcel
  <1>8. CASE LookupUploadedParcel(t)
    BY <1>8, OutcomesTyped, Sighted DEF LookupUploadedParcel
  <1>9. CASE RecordParcelWatch(t)
    <2>1. RecordedWatch(seen[t]) \in Updates
      BY DEF RecordedWatch, Updates, SyncStates, Sightings
    <2> QED BY <1>9, <2>1 DEF RecordParcelWatch, Goto, ThreadTypes, CancelsAParcel
  <1>10. CASE LookupWatchedParcel(t)
    <2>1. PICK s \in LookupLingxingParcel :
             /\ seen' = [seen EXCEPT ![t] = s]
             /\ my' = [my EXCEPT ![t] = IF s.id = None THEN @ ELSE [@ EXCEPT !.outbound = s.id]]
      BY <1>10 DEF LookupWatchedParcel
    <2>2. s \in Sightings /\ my' \in [Threads -> Updates]
      BY <2>1, Sighted DEF ThreadTypes, Updates, Sightings
    <2> QED BY <1>10, <2>1, <2>2 DEF LookupWatchedParcel, Goto, ThreadTypes, CancelsAParcel
  <1>11. CASE ReadPlatform(t)
    <2>1. Archived(my[t]) \in Updates /\ [my[t] EXCEPT !.sync = "failed"] \in Updates
      BY UpdatesTyped DEF SyncStates
    <2> QED BY <1>11, <2>1, ControlTyped DEF ReadPlatform
  <1>12. CASE QueryPlatformOrder(t)
    <2>1. /\ Decided(my[t], seen[t]) \in Updates
          /\ DecideSHEINOMSPlatformOrder(my[t]) \subseteq Updates
      BY UpdatesTyped
    <2> QED BY <1>12, <2>1, ControlTyped DEF QueryPlatformOrder
  <1>13. CASE RequeryPlatformOrder(t)
    <2>1. /\ [my[t] EXCEPT !.key = "open"] \in Updates
          /\ DecideSHEINOMSPlatformOrder(my[t]) \subseteq Updates
      BY UpdatesTyped DEF SyncStates
    <2> QED BY <1>13, <2>1, ControlTyped DEF RequeryPlatformOrder
  <1>14. CASE LookupParcelToUpload(t)
    BY <1>14, ControlTyped, Sighted DEF LookupParcelToUpload
  <1>15. CASE AttachLingxingParcelStatus(t)
    BY <1>15, ControlTyped, Sighted DEF AttachLingxingParcelStatus
  <1> QED BY <1>3, <1>4, <1>5, <1>6, <1>7, <1>8, <1>9, <1>10, <1>11, <1>12, <1>13, <1>14, <1>15

\* Every step keeps the types.
LEMMA TypeStep == TypeInv /\ [Next]_vars => TypeInv'
  <1> SUFFICES ASSUME TypeInv, [Next]_vars PROVE TypeInv'
    OBVIOUS
  <1> USE WatchAssumption
  <1>a. TypeOK /\ PlaceTypes /\ ThreadTypes
    BY TypesSplit DEF TypeInv
  <1>b. ASSUME UNCHANGED <<kind, row, outside, history>>, ThreadTypes' PROVE TypeInv'
    BY <1>a, <1>b, PlaceUnchanged, TypesSplit
  <1>c. ASSUME PlaceTypes', UNCHANGED threads PROVE TypeInv'
    BY <1>a, <1>c, ThreadsUnchanged, TypesSplit
  <1>d. ASSUME NEW t \in Threads
        PROVE  my[t] \in Updates /\ rec[t] \in Updates /\ seen[t] \in Sightings
    BY <1>a DEF ThreadTypes
  <1>1. CASE UNCHANGED vars
    BY <1>1, <1>a, PlaceUnchanged, ThreadsUnchanged, TypesSplit DEF vars
  <1>2. ASSUME NEW t \in Threads, WatchStep(t) PROVE TypeInv'
    <2>1. CASE \/ LookupWatchedParcel(t) \/ ReadPlatform(t) \/ QueryPlatformOrder(t)
               \/ RequeryPlatformOrder(t)
      BY <2>1, LocalTypes
    <2>2. CASE AssignPendingOMSPlatformOrder(t)
      <3>1. PlaceTypes'
        BY <1>a, <2>2 DEF PlaceTypes, AssignPendingOMSPlatformOrder, parcels, history
      <3>2. [my[t] EXCEPT !.key = "open"] \in Updates
        BY <1>d, UpdatesTyped
      <3>3. ThreadTypes'
        BY <1>a, <2>2, <3>2, ControlTyped DEF AssignPendingOMSPlatformOrder, PcStates, WatchPc
      <3> QED BY <3>1, <3>3, TypesSplit
    <2>3. CASE SaveWatch(t)
      BY <1>a, <1>d, <2>3, RowTyped, ControlTyped, TypesSplit DEF SaveWatch
    <2>4. CASE SaveExpired(t)
      BY <1>a, <1>d, <2>4, RowTyped, ControlTyped, TypesSplit DEF SaveExpired, PcStates, WatchPc
    <2>5. CASE GiveUpPackage(t)
      BY <1>a, <2>5, RowTyped, ControlTyped, TypesSplit DEF GiveUpPackage
    <2> QED BY <1>2, <2>1, <2>2, <2>3, <2>4, <2>5 DEF WatchStep
  <1>3. ASSUME NEW t \in Threads, ParcelStep(t) PROVE TypeInv'
    <2>1. CASE \/ EnsureAutomaticDPSParcel(t) \/ EnsureLookup(t)
               \/ WaitForLingxingParcelCanceled(t) \/ PrintExpressInfo(t)
               \/ LookupCreatedParcel(t) \/ LookupUploadedParcel(t) \/ RecordParcelWatch(t)
               \/ LookupParcelToUpload(t) \/ AttachLingxingParcelStatus(t)
      BY <2>1, LocalTypes
    <2>2. CASE CancelLookup(t)
      <3>1. PlaceTypes'
        BY <1>a, <2>2 DEF CancelLookup, PlaceTypes, outside, parcels
      <3>2. PICK s \in LookupLingxingParcel :
               Continue(t, "print") \/ ParcelError(t) \/ (s.id # None /\ See(t, "cancel", s))
        BY <2>2 DEF CancelLookup
      <3>3. s \in Sightings /\ (s.id # None => s.id \in Ids)
        BY <1>a, Sighted DEF Sightings
      <3>4. ThreadTypes'
        BY <1>a, <3>2, <3>3, ControlTyped DEF PcStates, ParcelPc, ReplacePc
      <3> QED BY <3>1, <3>4, TypesSplit
    <2>3. CASE CancelParcel(t)
      <3>1. seen[t].id \in Ids
        BY <2>3 DEF TypeInv, CancelsAParcel, CancelParcel
      <3>2. PlaceTypes'
        BY <1>a, <2>3, <3>1 DEF CancelParcel, PlaceTypes, history
      <3>3. ThreadTypes'
        BY <1>a, <2>3, ControlTyped DEF CancelParcel, AfterCancel, PcStates, ParcelPc, ReplacePc
      <3> QED BY <3>2, <3>3, TypesSplit
    <2>4. CASE PersistPrint(t)
      BY <1>a, <2>4, RowTyped, ControlTyped, TypesSplit
         DEF PersistPrint, PcStates, ParcelPc, ReplacePc
    <2>5. CASE CreateParcel(t)
      <3>1. PICK i \in Ids, label \in BOOLEAN :
               /\ parcel' = [parcel EXCEPT ![i] = "draft"]
               /\ labelled' = IF label THEN labelled \cup {i} ELSE labelled
               /\ See(t, "relook", [Nothing EXCEPT !.id = i])
        BY <2>5 DEF CreateParcel
      <3>2. PlaceTypes'
        BY <1>a, <2>5, <3>1 DEF CreateParcel, PlaceTypes, ParcelStates, history
      <3>3. [Nothing EXCEPT !.id = i] \in Sightings
        BY DEF Nothing, Sightings
      <3>4. ThreadTypes'
        BY <1>a, <3>1, <3>3, ControlTyped DEF PcStates, ParcelPc
      <3> QED BY <3>2, <3>4, TypesSplit
    <2>6. CASE UploadLingxingParcelLabel(t)
      <3>1. PICK s \in LookupLingxingParcel :
               \/ /\ AllowsLabelUpdate(s) /\ labelled' = labelled \cup {s.id}
                  /\ Finish(t) \/ Continue(t, "uploaded")
               \/ ParcelError(t) /\ UNCHANGED labelled
        BY <2>6 DEF UploadLingxingParcelLabel
      <3>2. AllowsLabelUpdate(s) => s.id \in Ids
        BY <1>a, Sighted DEF AllowsLabelUpdate
      <3>3. PlaceTypes'
        BY <1>a, <2>6, <3>1, <3>2 DEF UploadLingxingParcelLabel, PlaceTypes, history
      <3>4. ThreadTypes'
        BY <1>a, <3>1, ControlTyped DEF PcStates, ParcelPc
      <3> QED BY <3>3, <3>4, TypesSplit
    <2>7. CASE SaveRecord(t)
      BY <1>a, <1>d, <2>7, RowTyped, OutcomesTyped, TypesSplit DEF SaveRecord
    <2> QED BY <1>3, <2>1, <2>2, <2>3, <2>4, <2>5, <2>6, <2>7 DEF ParcelStep
  <1>4. ASSUME NEW t \in Threads, StartPass(t) \/ RequestStep(t) PROVE TypeInv'
    <2>1. PICK step \in PcStates \ {"cancel", "await"}, r \in {"watch", "hand_over", "operator"},
               update \in Updates : Start(t, step, r, update)
      <3>1. KeySeen \in Updates /\ [row.watch EXCEPT !.sync = "waiting_sync"] \in Updates
        BY <1>a DEF PlaceTypes, KeySeen, NoUpdate, Updates, SyncStates
      <3> QED
        BY <1>4, <3>1 DEF StartPass, RequestStep, SyncOMSPlatformOrders, BeginRefresh,
           CreateXLWMSParcel, UploadXLWMSParcelLabel, FulfillmentTasks,
           CompleteAutomaticWarehouseHandoff, PcStates, WatchPc, ParcelPc, ReplacePc
    <2>2. ThreadTypes'
      BY <1>a, <2>1 DEF Start, Goto, ThreadTypes, CancelsAParcel
    <2>3. /\ UNCHANGED <<kind, row, outside, faults, moves, overlapped>>
          /\ requests' = requests \/ (requests < MaxRequests /\ requests' = requests + 1)
      BY <1>4 DEF StartPass, RequestStep, SyncOMSPlatformOrders, BeginRefresh, Request,
         CreateXLWMSParcel, UploadXLWMSParcelLabel, FulfillmentTasks,
         CompleteAutomaticWarehouseHandoff, CountRequest
    <2>4. PlaceTypes'
      <3>1. requests' \in 0..MaxRequests
        BY <1>a, <2>3 DEF PlaceTypes
      <3> QED BY <1>a, <2>3, <3>1 DEF PlaceTypes, outside, parcels
    <2> QED BY <2>2, <2>4, TypesSplit
  <1>5. ASSUME NEW t \in Threads, CallFails(t) \/ Abort(t) PROVE TypeInv'
    <2>1. PlaceTypes'
      BY <1>5, <1>a DEF CallFails, Abort, PlaceTypes, outside, parcels
    <2>2. \A s \in {"failed"}, k \in {"open"} :
             [my[t] EXCEPT !.sync = s] \in Updates /\ [my[t] EXCEPT !.key = k] \in Updates
      BY <1>d, UpdatesTyped DEF SyncStates
    <2>3. FailsWith(t) => ThreadTypes'
      BY <1>a, <1>d, <2>2, ControlTyped, OutcomesTyped
         DEF FailsWith, LookupFails, PcStates, WatchPc, ParcelPc, ReplacePc
    <2>4. ThreadTypes'
      BY <1>5, <1>a, <2>3, ControlTyped DEF CallFails, Abort
    <2> QED BY <2>1, <2>4, TypesSplit
  <1>6. CASE Reports
    <2> USE <1>a DEF PlaceTypes, outside, parcels, history
    <2>1. CASE UpsertFulfillmentTask \/ UpdateFulfillmentTaskResult
      <3>1. PICK status \in {"placed", "ready", "failed", "resolved"} : row' = [row EXCEPT !.status = status]
        BY <2>1
           DEF UpsertFulfillmentTask, UpsertedStatus, UpdateFulfillmentTaskResult,
               CheckedStatus
      <3>2. /\ UNCHANGED <<kind, outside, threads, faults, moves, overlapped>>
            /\ requests' \in 0..MaxRequests
        BY <2>1 DEF UpsertFulfillmentTask, UpdateFulfillmentTaskResult, CountRequest
      <3> QED BY <1>c, <3>1, <3>2
    <2>2. CASE ResolveFulfillmentTask
      <3>1. [row.watch EXCEPT !.sync = "manual_resolved"] \in Updates
        BY UpdatesTyped DEF SyncStates
      <3> QED BY <1>c, <2>2, <3>1 DEF ResolveFulfillmentTask
    <2> QED BY <1>6, <2>1, <2>2 DEF Reports
  <1>7. CASE Outside
    <2> USE <1>a DEF PlaceTypes, ParcelStates, parcels, history
    <2>1. CASE ShipOnPlatform
      BY <1>c, <2>1 DEF ShipOnPlatform
    <2>2. CASE ParcelMoves
      <3>1. PICK i \in Ids, status \in ParcelStates : parcel' = [parcel EXCEPT ![i] = status]
        BY ZenonT(60), <2>2 DEF ParcelMoves
      <3>2. moves' \in 0..MaxMoves
        BY <2>2 DEF ParcelMoves
      <3>3. UNCHANGED <<kind, row, platform, labelled, cancelling, oms, threads, requests, faults, overlapped>>
        BY <2>2 DEF ParcelMoves
      <3> QED BY <1>c, <3>1, <3>2, <3>3
    <2>3. CASE CancellationEnds \/ CancellationRefused
      BY <1>c, <2>3 DEF CancellationEnds, CancellationRefused
    <2>4. CASE ForeignParcel
      BY <1>c, <2>4 DEF ForeignParcel
    <2>5. CASE OrderMoves
      BY <1>c, <2>5 DEF OrderMoves
    <2> QED BY <1>7, <2>1, <2>2, <2>3, <2>4, <2>5 DEF Outside
  <1> QED BY <1>1, <1>2, <1>3, <1>4, <1>5, <1>6, <1>7 DEF Next

\* The rows, the parcels, the orders and the threads have their types, for any
\* watchers, callers and outbound orders.
THEOREM WatchTypeCorrect == Spec => []TypeOK
  <1>1. Spec => []TypeInv
    BY TypeInit, TypeStep, PTL DEF Spec
  <1>2. TypeInv => TypeOK
    BY DEF TypeInv
  <1> QED BY <1>1, <1>2, PTL

-----------------------------------------------------------------------------
(* A resolved row stays                                                    *)

\* The statements that write the row are the only ones to change it.
LEMMA RowChanges ==
    ASSUME [Next]_vars
    PROVE  \/ row' = row
           \/ \E t \in Threads : SaveParcelWatch(my[t]) \/ SaveParcelWatch(rec[t])
           \/ MarkFulfillmentTaskLabelReady \/ MarkFulfillmentTaskUnprintable
           \/ Reports
  <1>1. CASE UNCHANGED vars
    BY <1>1 DEF vars
  <1>2. ASSUME NEW t \in Threads, WatchStep(t)
        PROVE  row' = row \/ SaveParcelWatch(my[t]) \/ MarkFulfillmentTaskUnprintable
    BY <1>2 DEF WatchStep, LookupWatchedParcel, ReadPlatform, QueryPlatformOrder,
       AssignPendingOMSPlatformOrder, RequeryPlatformOrder, SaveWatch, SaveExpired, GiveUpPackage
  <1>3. ASSUME NEW t \in Threads, ParcelStep(t)
        PROVE  row' = row \/ SaveParcelWatch(rec[t]) \/ MarkFulfillmentTaskLabelReady
    BY <1>3 DEF ParcelStep, EnsureAutomaticDPSParcel, EnsureLookup, CancelLookup, CancelParcel,
       WaitForLingxingParcelCanceled, PrintExpressInfo, PersistPrint, CreateParcel,
       LookupCreatedParcel, RecordParcelWatch, SaveRecord, UploadLingxingParcelLabel,
       LookupUploadedParcel, LookupParcelToUpload, AttachLingxingParcelStatus
  <1>4. ASSUME NEW t \in Threads,
               StartPass(t) \/ RequestStep(t) \/ CallFails(t) \/ Abort(t)
        PROVE  row' = row
    BY <1>4 DEF StartPass, BeginRefresh, RequestStep, SyncOMSPlatformOrders, CreateXLWMSParcel,
       UploadXLWMSParcelLabel, FulfillmentTasks, CompleteAutomaticWarehouseHandoff, Request,
       CallFails, Abort
  <1>5. CASE Outside
    BY <1>5 DEF Outside, ShipOnPlatform, ParcelMoves, CancellationEnds, CancellationRefused,
       ForeignParcel, OrderMoves
  <1> QED BY <1>1, <1>2, <1>3, <1>4, <1>5 DEF Next

\* Every statement that writes the row spares a resolved one, and one writes it so.
LEMMA ResolvedStep ==
    TypeInv /\ ResolvedRow /\ [Next]_vars => ResolvedRow' /\ (row.resolved => row' = row)
  <1> SUFFICES ASSUME TypeInv, ResolvedRow, [Next]_vars
               PROVE  ResolvedRow' /\ (row.resolved => row' = row)
    OBVIOUS
  <1> USE DEF ResolvedRow
  <1>1. row \in [status : {"placed", "ready", "failed", "resolved"}, resolved : BOOLEAN,
                 watch : Updates]
    BY DEF TypeInv, TypeOK
  <1>2. CASE \E update : SaveParcelWatch(update)
    BY <1>1, <1>2 DEF SaveParcelWatch
  <1>3. CASE MarkFulfillmentTaskLabelReady \/ MarkFulfillmentTaskUnprintable
    BY <1>1, <1>3 DEF MarkFulfillmentTaskLabelReady, MarkFulfillmentTaskUnprintable
  <1>4. CASE UpsertFulfillmentTask \/ UpdateFulfillmentTaskResult
    BY <1>1, <1>4
       DEF UpsertFulfillmentTask, UpsertedStatus, UpdateFulfillmentTaskResult, CheckedStatus
  <1>5. CASE ResolveFulfillmentTask
    <2>1. row.watch \in Updates
      BY <1>1
    <2>2. [row.watch EXCEPT !.sync = "manual_resolved"].sync = "manual_resolved"
      BY <2>1 DEF Updates
    <2>3. ResolvedRow'
      BY <1>5, <2>2 DEF ResolveFulfillmentTask
    <2>4. ASSUME row.resolved PROVE row' = row
      <3>1. [row.watch EXCEPT !.sync = "manual_resolved"] = row.watch
        BY <2>1, <2>4 DEF Updates
      <3> QED BY <1>1, <1>5, <2>4, <3>1 DEF ResolveFulfillmentTask
    <2> QED BY <2>3, <2>4
  <1>6. CASE row' = row
    BY <1>6
  <1> QED BY <1>2, <1>3, <1>4, <1>5, <1>6, RowChanges DEF Reports

\* No watcher, request or answer of SHEIN changes the row of a package an operator has resolved.
THEOREM ResolvedRowsStay == Spec => ResolvedStays
  <1>1. Init => ResolvedRow
    BY DEF Init, ResolvedRow
  <1>2. TypeInv /\ ResolvedRow /\ [Next]_vars => [row.resolved => row' = row]_vars
    BY ResolvedStep
  <1>3. TypeInv /\ ResolvedRow /\ [Next]_vars => TypeInv' /\ ResolvedRow'
    BY TypeStep, ResolvedStep
  <1> QED BY <1>1, <1>2, <1>3, TypeInit, PTL DEF Spec, ResolvedStays

-----------------------------------------------------------------------------
(* What was archived was shipped                                           *)

\* Of the threads, only an assignment and a creation change orders or parcels.
LEMMA OutsideChanges ==
    ASSUME [Next]_vars
    PROVE  \/ UNCHANGED <<platform, parcel, oms>>
           \/ \E t \in Threads : AssignPendingOMSPlatformOrder(t) \/ CreateParcel(t)
           \/ Outside
  <1> USE DEF outside, parcels
  <1>1. CASE UNCHANGED vars
    BY <1>1 DEF vars
  <1>2. ASSUME NEW t \in Threads, WatchStep(t)
        PROVE  UNCHANGED <<platform, parcel, oms>> \/ AssignPendingOMSPlatformOrder(t)
    BY <1>2 DEF WatchStep, LookupWatchedParcel, ReadPlatform, QueryPlatformOrder,
       RequeryPlatformOrder, SaveWatch, SaveExpired, GiveUpPackage
  <1>3. ASSUME NEW t \in Threads, ParcelStep(t)
        PROVE  UNCHANGED <<platform, parcel, oms>> \/ CreateParcel(t)
    BY <1>3 DEF ParcelStep, EnsureAutomaticDPSParcel, EnsureLookup, CancelLookup, CancelParcel,
       WaitForLingxingParcelCanceled, PrintExpressInfo, PersistPrint,
       LookupCreatedParcel, RecordParcelWatch, SaveRecord, UploadLingxingParcelLabel,
       LookupUploadedParcel, LookupParcelToUpload, AttachLingxingParcelStatus
  <1>4. ASSUME NEW t \in Threads,
               StartPass(t) \/ RequestStep(t) \/ CallFails(t) \/ Abort(t)
        PROVE  UNCHANGED <<platform, parcel, oms>>
    BY <1>4 DEF StartPass, BeginRefresh, RequestStep, SyncOMSPlatformOrders, CreateXLWMSParcel,
       UploadXLWMSParcelLabel, FulfillmentTasks, CompleteAutomaticWarehouseHandoff, Request,
       CallFails, Abort
  <1>5. CASE Reports
    BY <1>5 DEF Reports, UpsertFulfillmentTask, UpdateFulfillmentTaskResult, ResolveFulfillmentTask
  <1> QED BY <1>1, <1>2, <1>3, <1>4, <1>5 DEF Next

\* Nothing takes back a shipment.
LEMMA EvidenceStays == TypeInv /\ Evidence /\ [Next]_vars => Evidence'
  <1> SUFFICES ASSUME TypeInv, Evidence, [Next]_vars PROVE Evidence'
    OBVIOUS
  <1>1. parcel \in [Ids -> ParcelStates \cup {"none"}]
    BY DEF TypeInv, TypeOK
  <1> USE <1>1 DEF Evidence, PlatformFulfilled, parcels
  <1>2. CASE UNCHANGED <<platform, parcel, oms>>
    BY <1>2
  <1>3. ASSUME NEW t \in Threads, AssignPendingOMSPlatformOrder(t) PROVE Evidence'
    BY <1>3 DEF AssignPendingOMSPlatformOrder
  <1>4. ASSUME NEW t \in Threads, CreateParcel(t) PROVE Evidence'
    BY <1>4 DEF CreateParcel
  <1>5. CASE Outside
    BY <1>5 DEF Outside, ShipOnPlatform, ParcelMoves, CancellationEnds, CancellationRefused,
       ForeignParcel, OrderMoves
  <1> QED BY <1>2, <1>3, <1>4, <1>5, OutsideChanges

\* No thread builds an archiving update before there is evidence: the control operators.
LEMMA ControlArchives ==
    ASSUME ThreadTypes, ThreadsArchiveNothing, NEW t \in Threads
    PROVE  /\ Finish(t) => ThreadsArchiveNothing'
           /\ \A step : Continue(t, step) => ThreadsArchiveNothing'
           /\ \A step, s : s.status # "shipped" /\ See(t, step, s) => ThreadsArchiveNothing'
           /\ \A update : update.sync # "verified" /\ Save(t, update) => ThreadsArchiveNothing'
           /\ ParcelError(t) => ThreadsArchiveNothing'
           /\ PackageExpired(t) => ThreadsArchiveNothing'
           /\ \A s : s.status # "shipped" /\ ParcelEnsured(t, s) => ThreadsArchiveNothing'
  <1> USE DEF ThreadTypes, ThreadsArchiveNothing, Goto
  <1>a. NoUpdate.sync # "verified" /\ Nothing.status # "shipped"
    BY DEF NoUpdate, Nothing
  <1>1. Finish(t) => ThreadsArchiveNothing'
    BY <1>a DEF Finish
  <1>2. \A step : Continue(t, step) => ThreadsArchiveNothing'
    BY DEF Continue
  <1>3. \A step, s : s.status # "shipped" /\ See(t, step, s) => ThreadsArchiveNothing'
    BY DEF See
  <1>4. \A update : update.sync # "verified" /\ Save(t, update) => ThreadsArchiveNothing'
    BY <1>a DEF Save
  <1>5. my[t] \in Updates
    OBVIOUS
  <1>6. \A s \in {"waiting_sync", "manual_required"} : [my[t] EXCEPT !.sync = s].sync = s
    BY <1>5 DEF Updates
  <1>7. ParcelError(t) => ThreadsArchiveNothing'
    BY <1>1, <1>4, <1>6 DEF ParcelError
  <1>8. PackageExpired(t) => ThreadsArchiveNothing'
    BY <1>1, <1>6 DEF PackageExpired
  <1>9. ASSUME NEW s, s.status # "shipped", ParcelEnsured(t, s) PROVE ThreadsArchiveNothing'
    <2>1. Parcelled(my[t], s).sync # "verified"
      BY <1>5, <1>6, <1>9 DEF Parcelled, Decided, Updates
    <2> QED BY <1>1, <1>4, <1>9, <2>1 DEF ParcelEnsured
  <1> QED BY <1>1, <1>2, <1>3, <1>4, <1>7, <1>8, <1>9

\* Before anything is shipped, no step of a thread finds that something was.
LEMMA ThreadsArchiveStep ==
    ASSUME TypeInv, ~Evidence, row.watch.sync # "verified", ThreadsArchiveNothing, [Next]_vars
    PROVE  ThreadsArchiveNothing'
  <1>a. TypeOK /\ PlaceTypes /\ ThreadTypes
    BY TypesSplit DEF TypeInv
  <1>b. ~PlatformFulfilled /\ oms # "shipped" /\ \A s \in LookupLingxingParcel : s.status # "shipped"
    BY <1>a, Sighted DEF Evidence
  <1>c. ASSUME NEW t \in Threads
        PROVE  /\ my[t] \in Updates /\ my[t].sync # "verified" /\ rec[t].sync # "verified"
               /\ seen[t].status # "shipped"
               /\ \A s \in {"waiting_sync", "manual_required", "failed"} :
                     [my[t] EXCEPT !.sync = s].sync = s
               /\ [my[t] EXCEPT !.key = "open"].sync = my[t].sync
               /\ \A update \in DecideSHEINOMSPlatformOrder(my[t]) : update.sync # "verified"
               /\ Decided(my[t], seen[t]).sync # "verified"
    <2>1. /\ my[t] \in Updates /\ my[t].sync # "verified" /\ rec[t].sync # "verified"
          /\ seen[t].status # "shipped"
      BY <1>a DEF ThreadTypes, ThreadsArchiveNothing
    <2>2. /\ \A s \in {"waiting_sync", "manual_required", "failed"} :
                [my[t] EXCEPT !.sync = s].sync = s
          /\ [my[t] EXCEPT !.key = "open"].sync = my[t].sync
          /\ \A k \in {"open", "stopped"}, s \in {"waiting_sync", "leak", "manual_required"} :
                [my[t] EXCEPT !.key = k, !.sync = s].sync = s
      BY <2>1 DEF Updates
    <2>3. \A update \in DecideSHEINOMSPlatformOrder(my[t]) : update.sync # "verified"
      <3> SUFFICES ASSUME NEW update \in DecideSHEINOMSPlatformOrder(my[t])
                   PROVE  update.sync # "verified"
        OBVIOUS
      <3>1. CASE oms = "missing"
        <4>1. PICK s \in {"waiting_sync", "leak"} :
                 update = [my[t] EXCEPT !.key = "open", !.sync = s]
          BY <3>1 DEF DecideSHEINOMSPlatformOrder
        <4> QED BY <4>1, <2>2
      <3>2. CASE oms \in {"pending", "processing"}
        <4>1. update = [my[t] EXCEPT !.key = "open", !.sync = "waiting_sync"]
          BY <3>2 DEF DecideSHEINOMSPlatformOrder
        <4> QED BY <4>1, <2>2
      <3>3. CASE oms \notin {"missing", "pending", "processing"}
        <4>1. update = [my[t] EXCEPT !.key = "stopped", !.sync = "manual_required"]
          BY <1>b, <3>3 DEF DecideSHEINOMSPlatformOrder
        <4> QED BY <4>1, <2>2
      <3> QED BY <3>1, <3>2, <3>3
    <2>4. Decided(my[t], seen[t]).sync # "verified"
      BY <2>1 DEF Decided, Updates
    <2> QED BY <2>1, <2>2, <2>3, <2>4
  <1>1. CASE UNCHANGED threads
    BY <1>1 DEF threads, ThreadsArchiveNothing
  <1>2. ASSUME NEW t \in Threads, WatchStep(t) PROVE ThreadsArchiveNothing'
    <2>1. CASE LookupWatchedParcel(t)
      <3>1. PICK s \in LookupLingxingParcel :
               /\ seen' = [seen EXCEPT ![t] = s]
               /\ my' = [my EXCEPT ![t] = IF s.id = None THEN @ ELSE [@ EXCEPT !.outbound = s.id]]
        BY <2>1 DEF LookupWatchedParcel
      <3>2. my'[t].sync = my[t].sync
        BY <1>a, <1>c, <3>1 DEF ThreadTypes, Updates
      <3>3. \A u \in Threads : my'[u].sync = my[u].sync /\ (u # t => seen'[u] = seen[u])
        BY <1>a, <3>1, <3>2 DEF ThreadTypes
      <3>4. seen'[t] = s /\ rec' = rec
        BY <1>a, <2>1, <3>1 DEF ThreadTypes, LookupWatchedParcel
      <3> QED BY <1>b, <3>1, <3>3, <3>4 DEF ThreadsArchiveNothing
    <2>2. CASE ReadPlatform(t)
      BY <1>a, <1>b, <1>c, <2>2, ControlArchives DEF ReadPlatform
    <2>3. CASE QueryPlatformOrder(t)
      BY <1>a, <1>c, <2>3, ControlArchives DEF QueryPlatformOrder
    <2>4. CASE AssignPendingOMSPlatformOrder(t)
      BY <1>a, <1>c, <2>4, ControlArchives DEF AssignPendingOMSPlatformOrder
    <2>5. CASE RequeryPlatformOrder(t)
      BY <1>a, <1>c, <2>5, ControlArchives DEF RequeryPlatformOrder
    <2>6. CASE SaveWatch(t) \/ SaveExpired(t) \/ GiveUpPackage(t)
      BY <1>a, <2>6, ControlArchives DEF SaveWatch, SaveExpired, GiveUpPackage
    <2> QED BY <1>2, <2>1, <2>2, <2>3, <2>4, <2>5, <2>6 DEF WatchStep
  <1>3. ASSUME NEW t \in Threads, ParcelStep(t) PROVE ThreadsArchiveNothing'
    <2>1. CASE EnsureAutomaticDPSParcel(t) \/ PrintExpressInfo(t) \/ PersistPrint(t) \/ CancelParcel(t)
      BY <1>a, <2>1, ControlArchives
         DEF EnsureAutomaticDPSParcel, PrintExpressInfo, PersistPrint, CancelParcel
    <2>2. CASE EnsureLookup(t) \/ CancelLookup(t)
      BY <1>a, <1>b, <2>2, ControlArchives DEF EnsureLookup, CancelLookup
    <2>3. CASE UploadLingxingParcelLabel(t) \/ LookupUploadedParcel(t) \/ LookupCreatedParcel(t)
      BY <1>a, <1>b, <2>3, ControlArchives
         DEF UploadLingxingParcelLabel, LookupUploadedParcel, LookupCreatedParcel
    <2>4. CASE LookupParcelToUpload(t) \/ AttachLingxingParcelStatus(t)
      BY <1>a, <1>b, <2>4, ControlArchives DEF LookupParcelToUpload, AttachLingxingParcelStatus
    <2>5. CASE WaitForLingxingParcelCanceled(t) \/ CreateParcel(t)
      <3>1. Nothing.status = "unknown" /\ \A i : [Nothing EXCEPT !.id = i].status = "unknown"
        BY DEF Nothing
      <3> QED BY <1>a, <2>5, <3>1, ControlArchives DEF WaitForLingxingParcelCanceled, CreateParcel
    <2>6. CASE RecordParcelWatch(t)
      <3>1. RecordedWatch(seen[t]).sync # "verified"
        BY DEF RecordedWatch
      <3> QED BY <1>a, <2>6, <3>1 DEF RecordParcelWatch, ThreadTypes, ThreadsArchiveNothing
    <2>7. CASE SaveRecord(t)
      BY <1>a, <1>c, <2>7, ControlArchives DEF SaveRecord
    <2> QED BY <1>3, <2>1, <2>2, <2>3, <2>4, <2>5, <2>6, <2>7 DEF ParcelStep
  <1>4. ASSUME NEW t \in Threads, StartPass(t) \/ RequestStep(t) PROVE ThreadsArchiveNothing'
    <2>1. PICK step, r, update : Start(t, step, r, update) /\ update.sync # "verified"
      <3>1. KeySeen.sync # "verified" /\ [row.watch EXCEPT !.sync = "waiting_sync"].sync # "verified"
        BY <1>a DEF PlaceTypes, KeySeen, NoUpdate, Updates
      <3> QED BY <1>4, <3>1 DEF StartPass, RequestStep, SyncOMSPlatformOrders, BeginRefresh,
           CreateXLWMSParcel, UploadXLWMSParcelLabel, FulfillmentTasks, CompleteAutomaticWarehouseHandoff
    <2> QED BY <1>a, <2>1 DEF Start, ThreadTypes, ThreadsArchiveNothing
  <1>5. ASSUME NEW t \in Threads, CallFails(t) \/ Abort(t) PROVE ThreadsArchiveNothing'
    <2>1. FailsWith(t) => ThreadsArchiveNothing'
      BY <1>a, <1>c, ControlArchives DEF FailsWith, LookupFails
    <2> QED BY <1>5, <1>a, <2>1, ControlArchives DEF CallFails, Abort
  <1>6. CASE Reports \/ Outside
    BY <1>1, <1>6 DEF Reports, UpsertFulfillmentTask, UpdateFulfillmentTaskResult,
       ResolveFulfillmentTask, Outside, ShipOnPlatform, ParcelMoves, CancellationEnds,
       CancellationRefused, ForeignParcel, OrderMoves
  <1> QED BY <1>1, <1>2, <1>3, <1>4, <1>5, <1>6 DEF Next, vars

\* What is saved as archived rests on a shipment.
LEMMA ArchiveStep == TypeInv /\ ArchiveInv /\ [Next]_vars => ArchiveInv'
  <1> SUFFICES ASSUME TypeInv, ArchiveInv, [Next]_vars, ~Evidence'
               PROVE  row'.watch.sync # "verified" /\ ThreadsArchiveNothing'
    BY DEF ArchiveInv
  <1>1. ~Evidence /\ row.watch.sync # "verified" /\ ThreadsArchiveNothing
    BY EvidenceStays DEF ArchiveInv
  <1>2. ThreadsArchiveNothing'
    BY <1>1, ThreadsArchiveStep
  <1>3. row \in [status : {"placed", "ready", "failed", "resolved"}, resolved : BOOLEAN,
                 watch : Updates]
    BY DEF TypeInv, TypeOK
  <1>4. row'.watch.sync # "verified"
    <2>1. ASSUME NEW update, update.sync # "verified", SaveParcelWatch(update)
          PROVE  row'.watch.sync # "verified"
      BY <1>1, <1>3, <2>1 DEF SaveParcelWatch
    <2>2. CASE MarkFulfillmentTaskLabelReady \/ MarkFulfillmentTaskUnprintable
      BY <1>1, <1>3, <2>2 DEF MarkFulfillmentTaskLabelReady, MarkFulfillmentTaskUnprintable
    <2>3. CASE Reports
      <3>1. [row.watch EXCEPT !.sync = "manual_resolved"].sync = "manual_resolved"
        BY <1>3 DEF Updates
      <3>2. CASE ResolveFulfillmentTask
        <4>1. row'.watch = [row.watch EXCEPT !.sync = "manual_resolved"]
          BY <3>2 DEF ResolveFulfillmentTask
        <4> QED BY <3>1, <4>1
      <3>3. CASE UpsertFulfillmentTask \/ UpdateFulfillmentTaskResult
        <4>1. row'.watch = row.watch
          BY <1>3, <3>3 DEF UpsertFulfillmentTask, UpdateFulfillmentTaskResult
        <4> QED BY <1>1, <4>1
      <3> QED BY <2>3, <3>2, <3>3 DEF Reports
    <2> QED BY <1>1, <2>1, <2>2, <2>3, RowChanges DEF ThreadsArchiveNothing
  <1> QED BY <1>2, <1>4

\* A package is archived only when its parcel, its order in OMS or its order on SHEIN was shipped.
THEOREM ArchivedShipped == Spec => []ArchivedMeansShipped
  <1>1. Init => ArchiveInv
    <2>1. NoUpdate.sync # "verified" /\ Nothing.status # "shipped"
      BY DEF NoUpdate, Nothing
    <2> QED BY <2>1 DEF Init, ArchiveInv, ThreadsArchiveNothing
  <1>2. TypeInv /\ ArchiveInv /\ [Next]_vars => TypeInv' /\ ArchiveInv'
    BY TypeStep, ArchiveStep
  <1>3. ArchiveInv => ArchivedMeansShipped
    BY DEF ArchiveInv, ArchivedMeansShipped, Evidence
  <1> QED BY <1>1, <1>2, <1>3, TypeInit, PTL DEF Spec

-----------------------------------------------------------------------------
(* One living parcel                                                       *)

\* The step of a thread after which it is not replacing the parcel.
Leaves(t) ==
    /\ \A u \in Threads \ {t} : pc'[u] = pc[u] /\ seen'[u] = seen[u]
    /\ pc'[t] \notin ReplacePc
    /\ pc'[t] \in CreatePc => kind = "dps"

LEMMA ControlLeaves ==
    ASSUME ThreadTypes, NEW t \in Threads
    PROVE  /\ Finish(t) => Leaves(t)
           /\ \A step : step \notin CreatePc /\ Continue(t, step) => Leaves(t)
           /\ \A step : step \in CreatePc \ ReplacePc /\ kind = "dps" /\ Continue(t, step) => Leaves(t)
           /\ \A step, s : step \notin CreatePc /\ See(t, step, s) => Leaves(t)
           /\ \A update : Save(t, update) => Leaves(t)
           /\ ParcelError(t) => Leaves(t)
           /\ PackageExpired(t) => Leaves(t)
           /\ \A s : ParcelEnsured(t, s) => Leaves(t)
  <1> USE DEF ThreadTypes, Leaves, Goto, CreatePc, ReplacePc
  <1>1. Finish(t) => Leaves(t)
    BY DEF Finish
  <1>2. \A step : step \notin CreatePc /\ Continue(t, step) => Leaves(t)
    BY DEF Continue
  <1>3. \A step : step \in CreatePc \ ReplacePc /\ kind = "dps" /\ Continue(t, step) => Leaves(t)
    BY DEF Continue
  <1>4. \A step, s : step \notin CreatePc /\ See(t, step, s) => Leaves(t)
    BY DEF See
  <1>5. \A update : Save(t, update) => Leaves(t)
    BY DEF Save
  <1>6. PackageExpired(t) => Leaves(t)
    BY <1>1 DEF PackageExpired
  <1> HIDE DEF ThreadTypes, Leaves, Goto, CreatePc, ReplacePc
  <1>7. (ParcelError(t) => Leaves(t)) /\ \A s : ParcelEnsured(t, s) => Leaves(t)
    BY <1>1, <1>5 DEF ParcelError, ParcelEnsured
  <1> QED BY <1>1, <1>2, <1>3, <1>4, <1>5, <1>6, <1>7

\* Such a step keeps the invariant while no parcel comes to life, and so does
\* one that leaves the threads alone.
LEMMA LeavesKeepsReplace ==
    ASSUME ReplaceInv, NEW t \in Threads, Leaves(t) \/ UNCHANGED threads,
           kind' = kind, overlapped' = overlapped, Active' \subseteq Active
    PROVE  ReplaceInv'
  <1>1. OwnShop'
    BY DEF ReplaceInv, OwnShop, Leaves, threads
  <1>2. \A u \in Threads : pc'[u] \in ReplacePc => pc'[u] = pc[u] /\ seen'[u] = seen[u]
    BY DEF Leaves, threads
  <1>3. \A u \in Threads : pc'[u] \in FreshPc \cup {"cancel", "await"} => pc'[u] \in ReplacePc
    BY DEF FreshPc, ReplacePc
  <1>4. ASSUME ~overlapped' PROVE ReplacedAlone'
    <2>1. ReplacedAlone
      BY <1>4 DEF ReplaceInv
    <2>2. \A u, v \in Threads : pc'[u] \in ReplacePc /\ pc'[v] \in ReplacePc => u = v
      BY <1>2, <2>1 DEF ReplacedAlone
    <2>3. \A u \in Threads : pc'[u] \in {"cancel", "await"} => Active' \subseteq {seen'[u].id}
      BY <1>2, <1>3, <2>1 DEF ReplacedAlone
    <2>4. \A u \in Threads : pc'[u] \in FreshPc => Active' = {}
      BY <1>2, <1>3, <2>1 DEF ReplacedAlone
    <2>5. \A i, j \in Active' : i = j
      BY <2>1 DEF ReplacedAlone
    <2> QED BY <2>2, <2>3, <2>4, <2>5 DEF ReplacedAlone
  <1> QED BY <1>1, <1>4 DEF ReplaceInv

\* A thread that goes on replacing the parcel keeps the invariant when it knows
\* what is left of it.
LEMMA GoesOnKeepsReplace ==
    ASSUME ReplaceInv, NEW t \in Threads,
           \A u \in Threads \ {t} : pc'[u] = pc[u] /\ seen'[u] = seen[u],
           kind' = kind, overlapped' = overlapped, Active' = Active,
           pc[t] \in ReplacePc, pc'[t] \in ReplacePc,
           ~overlapped /\ pc'[t] \in {"cancel", "await"} => Active \subseteq {seen'[t].id},
           ~overlapped /\ pc'[t] \in FreshPc => Active = {}
    PROVE  ReplaceInv'
  <1>1. OwnShop'
    BY DEF ReplaceInv, OwnShop, CreatePc
  <1>2. ASSUME ~overlapped' PROVE ReplacedAlone'
    <2>1. ReplacedAlone
      BY <1>2 DEF ReplaceInv
    <2>2. \A u, v \in Threads : pc'[u] \in ReplacePc /\ pc'[v] \in ReplacePc => u = v
      BY <2>1 DEF ReplacedAlone
    <2>3. \A u \in Threads : pc'[u] \in {"cancel", "await"} => Active' \subseteq {seen'[u].id}
      BY <1>2, <2>1 DEF ReplacedAlone
    <2>4. \A u \in Threads : pc'[u] \in FreshPc => Active' = {}
      BY <1>2, <2>1 DEF ReplacedAlone
    <2> QED BY <2>1, <2>2, <2>3, <2>4 DEF ReplacedAlone
  <1> QED BY <1>1, <1>2 DEF ReplaceInv

\* Every step keeps the invariant of the replacements.
LEMMA ReplaceStep == TypeInv /\ ReplaceInv /\ [Next]_vars => ReplaceInv'
  <1> SUFFICES ASSUME TypeInv, ReplaceInv, [Next]_vars PROVE ReplaceInv'
    OBVIOUS
  <1>a. TypeOK /\ PlaceTypes /\ ThreadTypes
    BY TypesSplit DEF TypeInv
  <1>b. ASSUME NEW t \in Threads, Leaves(t) \/ UNCHANGED threads,
               UNCHANGED <<kind, overlapped, parcel>>
        PROVE  ReplaceInv'
    BY <1>b, LeavesKeepsReplace DEF Active
  <1>c. /\ \A t \in Threads : pc[t] \in CreatePc => kind = "dps"
        /\ ~overlapped => ReplacedAlone
    BY DEF ReplaceInv, OwnShop
  <1> USE DEF outside, parcels, history
  <1>1. ASSUME UNCHANGED threads, UNCHANGED <<kind, overlapped>>, Active' \subseteq Active
        PROVE  ReplaceInv'
    <2>1. OwnShop' /\ (~overlapped' => ReplacedAlone')
      BY <1>1, <1>c DEF OwnShop, ReplacedAlone, threads
    <2> QED BY <2>1 DEF ReplaceInv
  <1>2. ASSUME NEW t \in Threads, WatchStep(t) PROVE ReplaceInv'
    <2> USE <1>a, <1>b DEF CreatePc, ReplacePc
    <2>1. CASE LookupWatchedParcel(t)
      BY <2>1 DEF LookupWatchedParcel, Goto, Leaves, ThreadTypes
    <2>2. CASE ReadPlatform(t)
      BY <2>2, ControlLeaves DEF ReadPlatform
    <2>3. CASE QueryPlatformOrder(t)
      BY <2>3, ControlLeaves DEF QueryPlatformOrder, RequiresManualParcelCreate
    <2>4. CASE AssignPendingOMSPlatformOrder(t)
      BY <2>4, ControlLeaves DEF AssignPendingOMSPlatformOrder
    <2>5. CASE RequeryPlatformOrder(t)
      BY <2>5, ControlLeaves DEF RequeryPlatformOrder
    <2>6. CASE SaveWatch(t) \/ SaveExpired(t) \/ GiveUpPackage(t)
      BY <2>6, ControlLeaves DEF SaveWatch, SaveExpired, GiveUpPackage
    <2> QED BY <1>2, <2>1, <2>2, <2>3, <2>4, <2>5, <2>6 DEF WatchStep
  <1>3. ASSUME NEW t \in Threads, ParcelStep(t) PROVE ReplaceInv'
    <2>1. CASE \/ EnsureAutomaticDPSParcel(t) \/ EnsureLookup(t) \/ LookupUploadedParcel(t)
               \/ LookupCreatedParcel(t) \/ UploadLingxingParcelLabel(t)
               \/ LookupParcelToUpload(t) \/ AttachLingxingParcelStatus(t) \/ SaveRecord(t)
      <3>1. Leaves(t)
        BY <1>a, <1>c, <2>1, ControlLeaves
           DEF EnsureAutomaticDPSParcel, EnsureLookup, LookupUploadedParcel, LookupCreatedParcel,
               UploadLingxingParcelLabel, LookupParcelToUpload, AttachLingxingParcelStatus,
               SaveRecord, CreatePc, ReplacePc
      <3>2. UNCHANGED <<kind, overlapped, parcel>>
        BY <2>1 DEF EnsureAutomaticDPSParcel, EnsureLookup, LookupUploadedParcel,
               LookupCreatedParcel, UploadLingxingParcelLabel, LookupParcelToUpload,
               AttachLingxingParcelStatus, SaveRecord
      <3> QED BY <1>b, <3>1, <3>2
    <2>2. CASE RecordParcelWatch(t)
      BY <1>a, <1>b, <2>2 DEF RecordParcelWatch, Goto, Leaves, ThreadTypes, CreatePc, ReplacePc
    <2>3. CASE CancelLookup(t)
      <3>1. PICK s \in LookupLingxingParcel :
               \/ (s.id = None \/ s.status = "canceled") /\ Continue(t, "print")
               \/ ParcelError(t)
               \/ s.id # None /\ s.status # "canceled" /\ See(t, "cancel", s)
        BY <2>3 DEF CancelLookup
      <3>2. /\ UNCHANGED <<kind, parcel>> /\ Active' = Active /\ kind = "dps"
            /\ overlapped' = (overlapped \/ \E u \in Threads \ {t} : pc[u] \in ReplacePc)
        BY <1>c, <2>3 DEF CancelLookup, Active, CreatePc
      <3>3. \A u \in Threads \ {t} : pc'[u] = pc[u] /\ seen'[u] = seen[u]
        BY <1>a, <3>1, ControlLeaves DEF Continue, See, Goto, ThreadTypes, Leaves
      <3>4. OwnShop'
        BY <3>2 DEF OwnShop
      <3>5. ASSUME ~overlapped' PROVE ReplacedAlone'
        <4>1. ReplacedAlone /\ \A u \in Threads : pc'[u] \in ReplacePc => u = t
          BY <1>c, <3>2, <3>3, <3>5
        <4>2. pc'[t] \in FreshPc => Active = {}
          BY <1>a, <3>1, Sighted, ControlLeaves
             DEF Continue, See, Goto, ThreadTypes, Leaves, FreshPc, ReplacePc
        <4>3. pc'[t] \in {"cancel", "await"} => Active \subseteq {seen'[t].id}
          <5>1. pc'[t] \in {"cancel", "await"} => s.id \in Active /\ seen'[t] = s
            BY <1>a, <3>1, Sighted, ControlLeaves
               DEF Continue, See, Goto, ThreadTypes, Leaves, ReplacePc
          <5> QED BY <4>1, <5>1 DEF ReplacedAlone
        <4>4. FreshPc \cup {"cancel", "await"} \subseteq ReplacePc
          BY DEF FreshPc, ReplacePc
        <4> QED BY <3>2, <4>1, <4>2, <4>3, <4>4 DEF ReplacedAlone
      <3> QED BY <3>4, <3>5 DEF ReplaceInv
    <2>4. CASE CancelParcel(t)
      <3>1. pc[t] = "cancel" /\ UNCHANGED <<kind, parcel, overlapped>> /\ Active' = Active
        BY <2>4 DEF CancelParcel, Active
      <3>2. CASE ParcelError(t)
        BY <1>a, <1>b, <3>1, <3>2, ControlLeaves
      <3>3. CASE Continue(t, "await")
        <4>1. pc' = [pc EXCEPT ![t] = "await"] /\ seen' = seen
          BY <3>3 DEF Continue, Goto
        <4>2. ~overlapped => Active \subseteq {seen[t].id}
          BY <1>c, <3>1 DEF ReplacedAlone
        <4> QED BY <1>a, <3>1, <4>1, <4>2, GoesOnKeepsReplace DEF ThreadTypes, ReplacePc, FreshPc
      <3> QED BY <2>4, <3>2, <3>3 DEF CancelParcel, AfterCancel
    <2>5. CASE WaitForLingxingParcelCanceled(t)
      <3>1. pc[t] = "await" /\ UNCHANGED <<kind, parcel, overlapped>> /\ Active' = Active
        BY <2>5 DEF WaitForLingxingParcelCanceled, Active
      <3>2. CASE ParcelError(t)
        BY <1>a, <1>b, <3>1, <3>2, ControlLeaves
      <3>3. CASE parcel[seen[t].id] = "canceled" /\ See(t, "print", Nothing)
        <4>1. pc' = [pc EXCEPT ![t] = "print"] /\ seen' = [seen EXCEPT ![t] = Nothing]
          BY <3>3 DEF See, Goto
        <4>2. ~overlapped => Active = {}
          BY <1>c, <3>1, <3>3 DEF ReplacedAlone, Active
        <4> QED BY <1>a, <3>1, <4>1, <4>2, GoesOnKeepsReplace DEF ThreadTypes, ReplacePc
      <3> QED BY <2>5, <3>2, <3>3 DEF WaitForLingxingParcelCanceled
    <2>6. CASE PrintExpressInfo(t) \/ PersistPrint(t)
      <3>1. UNCHANGED <<kind, parcel, overlapped>> /\ Active' = Active
        BY <2>6 DEF PrintExpressInfo, PersistPrint, Active
      <3>2. CASE Leaves(t)
        BY <1>b, <3>1, <3>2
      <3>3. ASSUME NEW step \in FreshPc, pc[t] \in FreshPc, Continue(t, step) PROVE ReplaceInv'
        <4>1. pc' = [pc EXCEPT ![t] = step] /\ seen' = seen
          BY <3>3 DEF Continue, Goto
        <4>2. ~overlapped => Active = {}
          BY <1>c, <3>3 DEF ReplacedAlone
        <4> QED BY <1>a, <3>1, <3>3, <4>1, <4>2, GoesOnKeepsReplace
                   DEF ThreadTypes, ReplacePc, FreshPc
      <3> QED BY <1>a, <2>6, <3>2, <3>3, ControlLeaves
              DEF PrintExpressInfo, PersistPrint, FreshPc, CreatePc, ReplacePc
    <2>7. CASE CreateParcel(t)
      <3>1. PICK i \in Ids :
               /\ parcel' = [parcel EXCEPT ![i] = "draft"]
               /\ See(t, "relook", [Nothing EXCEPT !.id = i])
        BY <2>7 DEF CreateParcel
      <3>2. pc[t] = "create" /\ UNCHANGED <<kind, overlapped>> /\ Leaves(t)
        BY <1>a, <2>7, <3>1, ControlLeaves DEF CreateParcel, CreatePc, ReplacePc
      <3>3. OwnShop'
        BY <1>c, <3>2 DEF OwnShop, Leaves
      <3>4. ASSUME ~overlapped' PROVE ReplacedAlone'
        <4>1. ReplacedAlone /\ Active = {}
          BY <1>c, <3>2, <3>4 DEF ReplacedAlone, FreshPc
        <4>2. \A u \in Threads : pc'[u] \notin ReplacePc
          BY <3>2, <4>1 DEF Leaves, ReplacedAlone, ReplacePc
        <4>3. Active' \subseteq {i}
          BY <1>a, <3>1, <4>1 DEF Active, PlaceTypes
        <4>4. FreshPc \cup {"cancel", "await"} \subseteq ReplacePc
          BY DEF FreshPc, ReplacePc
        <4> QED BY <4>2, <4>3, <4>4 DEF ReplacedAlone
      <3> QED BY <3>3, <3>4 DEF ReplaceInv
    <2> QED BY <1>3, <2>1, <2>2, <2>3, <2>4, <2>5, <2>6, <2>7 DEF ParcelStep
  <1>4. ASSUME NEW t \in Threads, StartPass(t) \/ RequestStep(t) PROVE ReplaceInv'
    <2>1. PICK step, r, update :
             /\ Start(t, step, r, update) /\ step \notin ReplacePc
             /\ step \in CreatePc => kind = "dps"
      <3>1. CASE StartPass(t) \/ SyncOMSPlatformOrders(t)
        <4>1. BeginRefresh(t)
          BY <3>1 DEF StartPass, SyncOMSPlatformOrders
        <4>2. {"lookup", "platform"} \cap CreatePc = {} /\ ReplacePc \subseteq CreatePc
          BY DEF CreatePc, ReplacePc
        <4> QED BY <4>1, <4>2 DEF BeginRefresh
      <3>2. CASE CreateXLWMSParcel(t) \/ UploadXLWMSParcelLabel(t) \/ FulfillmentTasks(t)
                 \/ CompleteAutomaticWarehouseHandoff(t)
        <4>1. /\ kind = "dps"
              /\ \E step \in {"cancel_lookup", "upload_lookup", "list_lookup", "ensure"} : \E r, update :
                    Start(t, step, r, update)
          BY <3>2 DEF CreateXLWMSParcel, UploadXLWMSParcelLabel, FulfillmentTasks, Request,
             CompleteAutomaticWarehouseHandoff, RequiresManualParcelCreate
        <4>2. {"cancel_lookup", "upload_lookup", "list_lookup", "ensure"} \cap ReplacePc = {}
          BY DEF ReplacePc
        <4> QED BY <4>1, <4>2
      <3> QED BY <1>4, <3>1, <3>2 DEF RequestStep
    <2>2. Leaves(t)
      BY <1>a, <2>1 DEF Start, Goto, Leaves, ThreadTypes
    <2>3. UNCHANGED <<kind, overlapped, parcel>>
      BY <1>4 DEF StartPass, RequestStep, SyncOMSPlatformOrders, BeginRefresh, Request,
         CreateXLWMSParcel, UploadXLWMSParcelLabel, FulfillmentTasks,
         CompleteAutomaticWarehouseHandoff
    <2> QED BY <1>b, <2>2, <2>3
  <1>5. ASSUME NEW t \in Threads, CallFails(t) \/ Abort(t) PROVE ReplaceInv'
    <2>1. UNCHANGED <<kind, overlapped, parcel>> /\ Active' = Active
      BY <1>5 DEF CallFails, Abort, Active
    <2>2. CASE Abort(t) \/ (CallFails(t) /\ pc[t] # "mark")
      <3>1. FailsWith(t) /\ pc[t] # "mark" => Leaves(t)
        BY <1>a, <1>c, ControlLeaves DEF FailsWith, LookupFails, CreatePc, ReplacePc
      <3> QED BY <1>a, <1>b, <2>1, <2>2, <3>1, ControlLeaves DEF CallFails, Abort
    <2>3. CASE CallFails(t) /\ pc[t] = "mark"
      <3>1. Continue(t, "create")
        BY <2>3 DEF CallFails, FailsWith
      <3>2. pc' = [pc EXCEPT ![t] = "create"] /\ seen' = seen
        BY <3>1 DEF Continue, Goto
      <3>3. ~overlapped => Active = {}
        BY <1>c, <2>3 DEF ReplacedAlone, FreshPc
      <3> QED BY <1>a, <2>1, <2>3, <3>2, <3>3, GoesOnKeepsReplace DEF ThreadTypes, ReplacePc
    <2> QED BY <1>5, <2>2, <2>3
  <1>6. CASE Reports
    BY <1>1, <1>6 DEF Reports, UpsertFulfillmentTask, UpdateFulfillmentTaskResult,
       ResolveFulfillmentTask, Active
  <1>7. CASE Outside
    <2>1. CASE ShipOnPlatform \/ CancellationRefused \/ OrderMoves
      BY <1>1, <2>1 DEF ShipOnPlatform, CancellationRefused, OrderMoves, Active
    <2>2. CASE ParcelMoves
      <3>1. PICK i \in Ids, status \in ParcelStates :
               parcel[i] \notin {"none", "canceled"} /\ parcel' = [parcel EXCEPT ![i] = status]
        BY <2>2 DEF ParcelMoves
      <3>2. Active' \subseteq Active
        BY <1>a, <3>1 DEF Active, PlaceTypes
      <3>3. UNCHANGED <<kind, overlapped, threads>>
        BY <2>2 DEF ParcelMoves
      <3> QED BY <1>1, <3>2, <3>3
    <2>3. CASE CancellationEnds
      <3>1. Active' \subseteq Active
        BY <1>a, <2>3 DEF CancellationEnds, Active, PlaceTypes
      <3> QED BY <1>1, <2>3, <3>1 DEF CancellationEnds
    <2>4. CASE ForeignParcel
      <3>1. PICK i \in Ids : Active = {} /\ parcel' = [parcel EXCEPT ![i] = "draft"]
        BY <2>4 DEF ForeignParcel
      <3>2. kind = "dps_other_shop" /\ UNCHANGED <<kind, overlapped, threads>>
        BY <2>4 DEF ForeignParcel
      <3>3. Active' \subseteq {i}
        BY <1>a, <3>1 DEF Active, PlaceTypes
      <3>4. OwnShop'
        BY <1>c, <3>2 DEF OwnShop, threads
      <3>5. \A t \in Threads : pc'[t] \notin FreshPc \cup {"cancel", "await"} \cup ReplacePc
        BY <1>c, <3>2 DEF threads, CreatePc, FreshPc, ReplacePc
      <3> QED BY <3>3, <3>4, <3>5 DEF ReplaceInv, ReplacedAlone
    <2> QED BY <1>7, <2>1, <2>2, <2>3, <2>4 DEF Outside
  <1>8. CASE UNCHANGED vars
    BY <1>1, <1>8 DEF vars, Active
  <1> QED BY <1>2, <1>3, <1>4, <1>5, <1>6, <1>7, <1>8 DEF Next

\* A parcel that was never replaced by two threads at once is the only living one.
THEOREM ParcelUnique == Spec => []OneActiveParcel
  <1>1. Init => ReplaceInv
    BY DEF Init, ReplaceInv, OwnShop, ReplacedAlone, Active, CreatePc, FreshPc, ReplacePc
  <1>2. TypeInv /\ ReplaceInv /\ [Next]_vars => TypeInv' /\ ReplaceInv'
    BY TypeStep, ReplaceStep
  <1>3. ReplaceInv => OneActiveParcel
    BY DEF ReplaceInv, ReplacedAlone, OneActiveParcel
  <1> QED BY <1>1, <1>2, <1>3, TypeInit, PTL DEF Spec
=============================================================================
