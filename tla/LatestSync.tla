---------------------------- MODULE LatestSync ----------------------------
(***************************************************************************)
(* Catching up with SHEIN: the script sync_latest_shein_data.py on one of  *)
(* its kinds of data, orders, returns or products (a run for several does  *)
(* them in turn; they share no table).  A run pages through what changed   *)
(* in SHEIN since the newest change it finds stored (the cursor), less an  *)
(* overlap; nothing else of its progress is kept.  SHEIN goes on changing  *)
(* while it reads, a run may take any time and stop anywhere, and the Go   *)
(* server stores orders in the same table, without the time of their last  *)
(* change.                                                                 *)
(*                                                                         *)
(* An item's version is the time of its last change.  The job rows of the  *)
(* orders are left out: every run has a sync key of its own, so no run     *)
(* resumes another (OrderFullSync has the windows and their limit).        *)
(***************************************************************************)
EXTENDS Integers, FiniteSets

CONSTANTS
    Items,              \* orders, returns or products of the shop
    Kinds,              \* what --data may name
    PageSize,
    Overlap, Fallback,  \* --overlap-minutes, --fallback-days
    MaxNow,             \* bound on time
    MaxEvents           \* bound on stops, details left out and orders the server stores

ASSUME ItemsAssumption == Items \subseteq Nat /\ IsFiniteSet(Items) /\ Items # {}
ASSUME KindsAssumption == Kinds \subseteq {"orders", "returns", "products"}
ASSUME BoundsAssumption ==
    /\ PageSize \in Nat \ {0} /\ Overlap \in Nat /\ Fallback \in Nat
    /\ MaxNow \in Nat /\ MaxEvents \in Nat

VARIABLES
    now,
    changed,  \* SHEIN: when an item was last changed, 0 before it exists
    stored,   \* version of its list entry in PostgreSQL, 0 if none
    updated,  \* order_updated_at or last_update_time of its row, 0 if none
    detailed, \* items whose stored detail is that of their last change
    seen,     \* last_seen_at of the rows of products, and of those the server wrote
    pc,       \* where the run stands
    kind,     \* the kind of data
    start, end, page,
    records,  \* the answer it works on: versions and items
    todo,     \* the part of it that is still to be stored
    listed,   \* return_order_nos, collected over the pages
    total,    \* total_count of the first answer, 0 if it had none
    events,
    slipped,    \* history: items no run may look for (the reasons are those
                \* of TooOld, Moved, Outrun, Overtaken and StoreSnapshot)
    undetailed  \* history: items whose detail SHEIN left out, whose run stopped
                \* before it was stored, or was overwritten with an older one

shein == <<now, changed>>
database == <<stored, updated, detailed, seen>>
plan == <<start, end, page>>
answers == <<records, listed, total>>
run == <<pc, kind, plan, todo, answers>>
history == <<slipped, undetailed>>
vars == <<shein, database, run, events, history>>

-----------------------------------------------------------------------------
Reading == pc \in {"list", "upsert", "detail"}

(* SHEIN lists what changed in an interval, oldest change first. *)
Window == {x \in Items : changed[x] # 0 /\ start <= changed[x] /\ changed[x] <= end}
Before(x, y) == changed[x] < changed[y] \/ (changed[x] = changed[y] /\ x < y)
Position(x) == Cardinality({y \in Window : y = x \/ Before(y, x)})
Page == {x \in Window : (page - 1) * PageSize < Position(x) /\ Position(x) <= page * PageSize}

Latest(version) == CHOOSE v \in {version[x] : x \in Items} : \A x \in Items : version[x] <= v
\* The newest of the times by which SHEIN is asked; products have no column for
\* theirs.
Cursor == Latest(IF kind = "products" THEN seen ELSE updated)
\* get_order_progress, get_return_progress and get_product_progress; 0 is None.
\* A row without a time of its last change has none of its creation either
\* (upsert_order and upsert_order_return write both), so that the last resort
\* is when the server wrote one.
Progress == IF Cursor # 0 THEN Cursor ELSE Latest(seen)
\* Mutant: no overlap.
StartAtProgress(to) == IF Progress = 0 THEN to - Fallback ELSE Progress
ResolveStartTime(to) == IF Progress = 0 THEN to - Fallback ELSE Progress - Overlap

Oldest == CHOOSE t \in todo : \A u \in todo : t[1] < u[1] \/ (t[1] = u[1] /\ t[2] <= u[2])
ItemsOf(answer) == {t[2] : t \in answer}

-----------------------------------------------------------------------------
(* How an item comes to be missing behind the cursor.                      *)
Current(x) == stored[x] = changed[x] /\ (kind # "products" => x \in detailed)

\* While no row has the time of a last change, a run does not look further back
\* than --fallback-days or, if the server has stored orders, the overlap.
TooOld ==
    {x \in Items : Cursor = 0 /\ changed[x] # 0 /\ changed[x] < ResolveStartTime(end) /\ ~Current(x)}

\* An item that changes leaves the interval of the run.  If its page has been
\* read, the first item of the next page takes its place there.
Reached == IF pc = "list" THEN (page - 1) * PageSize ELSE page * PageSize
Moved(x) ==
    {y \in Window : Reading /\ x \in Window /\ Position(x) <= Reached /\ Position(y) = Reached + 1}

\* A run that takes longer than the overlap stores a time so late that what
\* changed after its interval is behind the cursor.
Outrun(v) ==
    {y \in Items : end <= changed[y] /\ changed[y] < v - Overlap /\ ~Current(y)}

\* The first product stored moves the cursor past those still to be read.
Overtaken == {x \in Window : Reading /\ kind = "products" /\ stored[x] = 0}

\* The details of a run that stops are missing, and nobody asks for them again.
Unfinished ==
    {x \in (ItemsOf(records) \cup listed) \ detailed : Reading /\ kind # "products"}

-----------------------------------------------------------------------------
Init ==
    /\ now = 1
    /\ changed \in [Items -> {0, 1}]
    /\ stored = [x \in Items |-> 0] /\ updated = [x \in Items |-> 0]
    /\ detailed = {} /\ seen = [x \in Items |-> 0]
    /\ pc = "idle" /\ kind \in Kinds /\ start = 0 /\ end = 0 /\ page = 1
    /\ records = {} /\ todo = {} /\ listed = {} /\ total = 0
    /\ events = 0 /\ slipped = {} /\ undetailed = {}

Tick ==
    /\ now < MaxNow
    /\ now' = now + 1
    /\ UNCHANGED <<changed, database, run, events, history>>

\* Products do not change; they are created.
Change(x) ==
    /\ changed[x] < now
    /\ kind = "products" => changed[x] = 0
    /\ changed' = [changed EXCEPT ![x] = now]
    /\ slipped' = (slipped \ {x}) \cup Moved(x)
    /\ detailed' = detailed \ {x} /\ undetailed' = undetailed \ {x}
    /\ UNCHANGED <<now, stored, updated, seen, run, events>>

\* main: the end of the interval is taken once, for all kinds.
StartRun ==
    /\ pc = "idle"
    /\ pc' = "plan" /\ end' = now
    /\ UNCHANGED <<shein, database, kind, start, page, todo, answers, events, history>>

\* A run that ends forgets its local variables.
EndRun ==
    /\ pc' = "idle" /\ start' = 0 /\ end' = 0 /\ page' = 1 /\ todo' = {}
    /\ records' = {} /\ listed' = {} /\ total' = 0

Plan ==
    /\ pc = "plan"
    /\ \/ /\ ResolveStartTime(end) <= end
          /\ start' = ResolveStartTime(end) /\ pc' = "list"
          /\ UNCHANGED <<end, page, todo, answers>>
       \/ ResolveStartTime(end) > end /\ EndRun
    /\ slipped' = slipped \cup TooOld
    /\ UNCHANGED <<shein, database, kind, events, undetailed>>

\* The details of the returns are fetched after the last page.
FetchDetails ==
    /\ kind = "returns" /\ listed # {}
    /\ pc' = "detail" /\ todo' = {<<0, x>> : x \in listed}
    /\ UNCHANGED <<plan, answers>>

ListPage ==
    /\ pc = "list"
    /\ \/ /\ Page # {} /\ pc' = "upsert"
          /\ records' = {<<changed[x], x>> : x \in Page} /\ todo' = records'
          /\ listed' = IF kind = "returns" THEN listed \cup Page ELSE listed
          /\ IF kind # "orders" /\ page = 1 THEN total' \in {0, Cardinality(Window)}
             ELSE UNCHANGED total
          /\ UNCHANGED plan
       \/ Page = {} /\ FetchDetails
       \/ Page = {} /\ (kind # "returns" \/ listed = {}) /\ EndRun
    /\ UNCHANGED <<shein, database, kind, events, history>>

\* A short page is the last one, and so is the one that reaches the count of
\* the first answer.
IsLastPage == Cardinality(records) < PageSize \/ (total # 0 /\ page * PageSize >= total)
NextPage ==
    \/ /\ ~IsLastPage /\ pc' = "list" /\ page' = page + 1 /\ todo' = {}
       /\ UNCHANGED <<start, end, answers>>
    \/ IsLastPage /\ FetchDetails
    \/ IsLastPage /\ kind # "returns" /\ EndRun
NextItem ==
    todo # {Oldest} /\ todo' = todo \ {Oldest} /\ UNCHANGED <<pc, plan, answers>>

\* The row of a list entry; a product's says only when it was written.
StoreEntry(t) ==
    LET x == t[2]
        written == IF kind = "products" THEN now ELSE t[1]
    IN  /\ stored' = [stored EXCEPT ![x] = t[1]]
        /\ IF kind = "products"
           THEN seen' = [seen EXCEPT ![x] = now] /\ UNCHANGED updated
           ELSE updated' = [updated EXCEPT ![x] = t[1]] /\ UNCHANGED seen
        /\ slipped' = (IF t[1] = changed[x] THEN slipped \ {x} ELSE slipped)
                      \cup (Outrun(written) \ {x})
        /\ UNCHANGED undetailed

\* The details of the orders are fetched page by page.
\* Mutant: after the loop, for its last page only.
UpsertOrderThenDetailLast ==
    /\ pc = "upsert" /\ kind = "orders"
    /\ StoreEntry(Oldest)
    /\ \/ NextItem
       \/ /\ todo = {Oldest} /\ Cardinality(records) < PageSize
          /\ todo' = records /\ pc' = "detail" /\ UNCHANGED <<plan, answers>>
       \/ todo = {Oldest} /\ Cardinality(records) = PageSize /\ NextPage
    /\ UNCHANGED <<shein, detailed, kind, events>>
UpsertOrder ==
    /\ pc = "upsert" /\ kind = "orders"
    /\ StoreEntry(Oldest)
    /\ \/ NextItem
       \/ /\ todo = {Oldest}
          /\ todo' = records /\ pc' = "detail" /\ UNCHANGED <<plan, answers>>
    /\ UNCHANGED <<shein, detailed, kind, events>>

UpsertEntry ==
    /\ pc = "upsert"
    /\ StoreEntry(Oldest)
    /\ NextItem \/ (todo = {Oldest} /\ NextPage)
    /\ UNCHANGED <<shein, detailed, kind, events>>

\* upsert_order_return, the whole row.
UpsertReturn == kind = "returns" /\ UpsertEntry

\* upsert_product or upsert_product_detail; both set last_seen_at.
UpsertProduct == kind = "products" /\ UpsertEntry

\* The detail of an order leaves its order_updated_at alone.  For one that the
\* answer leaves out the whole answer is stored in its place.
UpdateOrderDetail ==
    LET x == Oldest[2] IN
    /\ pc = "detail" /\ kind = "orders"
    /\ \/ /\ detailed' = detailed \cup {x}
          /\ undetailed' = undetailed \ {x} /\ UNCHANGED events
       \/ /\ events < MaxEvents /\ events' = events + 1
          /\ detailed' = detailed \ {x}
          /\ undetailed' = undetailed \cup {x}
    /\ NextItem \/ (todo = {Oldest} /\ NextPage)
    /\ UNCHANGED <<shein, stored, updated, seen, kind, slipped>>

\* That of a return is written like its list entry, with the time of its last
\* change.  One that the answer leaves out keeps what it has.
UpsertReturnDetail ==
    LET x == Oldest[2] IN
    /\ pc = "detail" /\ kind = "returns"
    /\ \/ /\ detailed' = detailed \cup {x}
          /\ stored' = [stored EXCEPT ![x] = changed[x]]
          /\ updated' = [updated EXCEPT ![x] = changed[x]]
          /\ slipped' = (slipped \cup Outrun(changed[x])) \ {x}
          /\ undetailed' = undetailed \ {x} /\ UNCHANGED events
       \/ /\ events < MaxEvents /\ events' = events + 1
          /\ undetailed' = undetailed \cup {x}
          /\ UNCHANGED <<detailed, stored, updated, slipped>>
    /\ NextItem \/ (todo = {Oldest} /\ EndRun)
    /\ UNCHANGED <<shein, seen, kind>>

\* A call of SHEIN or PostgreSQL fails, or the script is killed.
Stop ==
    /\ pc # "idle" /\ events < MaxEvents
    /\ events' = events + 1
    /\ slipped' = slipped \cup Overtaken
    /\ undetailed' = undetailed \cup Unfinished
    /\ EndRun
    /\ UNCHANGED <<shein, database, kind>>

-----------------------------------------------------------------------------
(* The Go server stores the orders it has read, for its own use or in       *)
(* syncOpenOrders, when it has read them all (UpsertOrderSnapshots): what   *)
(* it stores may be older than what is stored.                             *)

\* The list entry of a row that exists is replaced only if the server has one.
\* The time of the last change is not written.
StoreSnapshot(x) ==
    /\ kind = "orders" /\ events < MaxEvents /\ events' = events + 1
    /\ \E v \in 1..changed[x] :
          LET outdated == {y \in {x} : v # changed[x]} IN
          /\ \/ /\ stored' = [stored EXCEPT ![x] = v]
                /\ slipped' = (slipped \ {x}) \cup outdated
             \/ stored[x] # 0 /\ UNCHANGED <<stored, slipped>>
          /\ detailed' = (detailed \cup {x}) \ outdated
          /\ undetailed' = (undetailed \ {x}) \cup outdated
    /\ seen' = [seen EXCEPT ![x] = now]
    /\ UNCHANGED <<shein, updated, run>>

Next ==
    \/ Tick \/ \E x \in Items : Change(x) \/ StoreSnapshot(x)
    \/ StartRun \/ Plan \/ ListPage
    \/ UpsertOrder \/ UpdateOrderDetail \/ UpsertReturn \/ UpsertReturnDetail
    \/ UpsertProduct
    \/ Stop

Spec == Init /\ [][Next]_vars

-----------------------------------------------------------------------------
\* What changed before the next run will start to look, as soon as a run has
\* stored something.
Behind == {x \in Items : Cursor # 0 /\ changed[x] # 0 /\ changed[x] < Cursor - Overlap}

\* The next run starts at the newest change that is stored, less the
\* overlap (resolve_start_time).  Nothing it will not ask for again is missing
\* or out of date, whatever run stopped where and however long it took, but
\* for what was too old for the first run, moved past a reader, changed while
\* a run of returns took longer than the overlap, or was overwritten by the
\* server with what it had read before.
CursorSkipsNothing ==
    kind # "products" => \A x \in Behind : stored[x] = changed[x] \/ x \in slipped

\* The same for the details, which are written after the list entries that
\* move the cursor: they are missing only while the run that listed the item
\* is at work, if it stopped, or if the answer left the item out.
DetailFollowsList ==
    kind # "products" => \A x \in Behind :
        \/ x \in detailed \cup slipped \cup undetailed
        \/ Reading /\ x \in ItemsOf(records) \cup listed

\* Products are asked for by creation time, from the time a row was last
\* written.  One that is older and not stored was still to be read by the
\* run that is at work or by one that stopped, or was created while a run took
\* longer than the overlap.
ProductCursorSkipsNothing ==
    kind = "products" => \A x \in Behind :
        \/ stored[x] # 0 \/ x \in slipped
        \/ Reading /\ x \in Window
=============================================================================
