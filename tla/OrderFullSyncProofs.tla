------------------------ MODULE OrderFullSyncProofs ------------------------
(***************************************************************************)
(* What holds of the full order synchronisation for every list of orders,  *)
(* interval, window size and page size, and any number of runs, failures   *)
(* and crashes.                                                            *)
(***************************************************************************)
EXTENDS OrderFullSync, FiniteSetTheorems, WellFoundedInduction, TLAPS

-----------------------------------------------------------------------------
(* The order list: a window's orders are numbered from 1 without a gap.    *)
UpTo(from, to, o) == {o2 \in InWindow(from, to) : o2 = o \/ Before(o2, o)}

LEMMA LeastNatural ==
    ASSUME NEW T \in SUBSET Nat, T # {}
    PROVE  \E x \in T : \A y \in T : x <= y
  <1>1. PICK x \in T : \A y \in T : ~ (<<y, x>> \in OpToRel(<, Nat))
    BY NatLessThanWellFounded, WFMin, Zenon
  <1>2. \A y \in T : x <= y
    <2> SUFFICES ASSUME NEW y \in T, y < x PROVE FALSE
      OBVIOUS
    <2>1. <<y, x>> \in OpToRel(<, Nat)
      BY ZenonT(30) DEF OpToRel
    <2> QED BY <1>1, <2>1, Zenon
  <1> QED BY <1>2

LEMMA BeforeIsOrder ==
    ASSUME NEW o \in Orders, NEW o2 \in Orders, NEW o3 \in Orders
    PROVE  /\ ~Before(o, o)
           /\ Before(o, o2) \/ Before(o2, o) \/ o = o2
           /\ Before(o, o2) => ~Before(o2, o)
           /\ Before(o, o2) /\ Before(o2, o3) => Before(o, o3)
  <1>1. /\ o \in Nat /\ o2 \in Nat /\ o3 \in Nat
        /\ Time[o] \in Nat /\ Time[o2] \in Nat /\ Time[o3] \in Nat
    BY OrdersAssumption, TimesAssumption
  <1> QED BY <1>1 DEF Before

LEMMA WindowFinite ==
    ASSUME NEW from, NEW to
    PROVE  /\ InWindow(from, to) \subseteq Orders /\ IsFiniteSet(InWindow(from, to))
           /\ Cardinality(InWindow(from, to)) \in Nat
  BY OrdersAssumption, FS_Subset, FS_CardinalityType DEF InWindow

LEMMA RankRange ==
    ASSUME NEW from, NEW to, NEW o \in InWindow(from, to)
    PROVE  /\ Rank(from, to, o) \in Nat /\ 0 < Rank(from, to, o)
           /\ Rank(from, to, o) <= Cardinality(InWindow(from, to))
           /\ Rank(from, to, o) = Cardinality(UpTo(from, to, o))
  <1>1. UpTo(from, to, o) \in SUBSET InWindow(from, to) /\ o \in UpTo(from, to, o)
    BY DEF UpTo
  <1>2. Rank(from, to, o) = Cardinality(UpTo(from, to, o))
    BY DEF Rank, UpTo
  <1>3. /\ IsFiniteSet(UpTo(from, to, o))
        /\ Cardinality(UpTo(from, to, o)) <= Cardinality(InWindow(from, to))
        /\ Cardinality(UpTo(from, to, o)) \in Nat
    BY <1>1, WindowFinite, FS_Subset, FS_CardinalityType
  <1>4. Cardinality(UpTo(from, to, o)) # 0
    BY <1>1, <1>3, FS_EmptySet
  <1> QED BY <1>2, <1>3, <1>4

LEMMA RankOrder ==
    ASSUME NEW from, NEW to, NEW o \in InWindow(from, to), NEW o2 \in InWindow(from, to),
           Before(o, o2)
    PROVE  Rank(from, to, o) < Rank(from, to, o2)
  <1>1. UpTo(from, to, o) \in SUBSET UpTo(from, to, o2)
    BY WindowFinite, BeforeIsOrder DEF UpTo
  <1>2. o2 \in UpTo(from, to, o2) /\ o2 \notin UpTo(from, to, o)
    BY WindowFinite, BeforeIsOrder DEF UpTo
  <1>3. UpTo(from, to, o2) \in SUBSET InWindow(from, to)
    BY DEF UpTo
  <1>4. IsFiniteSet(UpTo(from, to, o2))
    BY <1>3, WindowFinite, FS_Subset
  <1>5. /\ Cardinality(UpTo(from, to, o)) <= Cardinality(UpTo(from, to, o2))
        /\ Cardinality(UpTo(from, to, o)) # Cardinality(UpTo(from, to, o2))
    BY <1>1, <1>2, <1>4, FS_Subset
  <1> QED BY <1>5, RankRange

\* Below every rank there is every other one.
LEMMA RankDense ==
    ASSUME NEW from, NEW to, NEW o \in InWindow(from, to), NEW k \in Nat,
           k < Rank(from, to, o)
    PROVE  \E x \in InWindow(from, to) : Rank(from, to, x) = k + 1
  <1> DEFINE W == InWindow(from, to)
             R(x) == Rank(from, to, x)
             Above == {R(x) : x \in {x \in W : k < R(x)}}
  <1>1. PICK x \in W : k < R(x) /\ \A y \in W : k < R(y) => R(x) <= R(y)
    <2>1. Above \in SUBSET Nat /\ Above # {}
      BY RankRange
    <2>2. PICK r \in Above : \A r2 \in Above : r <= r2
      BY <2>1, LeastNatural
    <2> QED BY <2>2
  <1> DEFINE Pred == UpTo(from, to, x) \ {x}
  <1>2. Pred = {y \in W : Before(y, x)}
    BY BeforeIsOrder, WindowFinite DEF UpTo
  <1>3. Cardinality(Pred) = R(x) - 1 /\ IsFiniteSet(Pred)
    <2>1. UpTo(from, to, x) \in SUBSET W /\ x \in UpTo(from, to, x)
      BY DEF UpTo
    <2>2. IsFiniteSet(UpTo(from, to, x))
      BY <2>1, WindowFinite, FS_Subset
    <2>3. Cardinality(Pred) = Cardinality(UpTo(from, to, x)) - 1 /\ IsFiniteSet(Pred)
      BY <2>1, <2>2, FS_RemoveElement
    <2> QED BY <2>3, RankRange
  <1>4. CASE Pred = {}
    <2>1. R(x) = 1
      BY <1>3, <1>4, FS_EmptySet, RankRange
    <2> QED BY <1>1, <2>1
  <1>5. CASE Pred # {}
    <2> DEFINE Depth == {Cardinality(W) - R(y) : y \in Pred}
    <2>1. Depth \in SUBSET Nat /\ Depth # {}
      BY <1>2, <1>5, RankRange, WindowFinite
    <2>2. PICK y \in Pred : \A z \in Pred : Cardinality(W) - R(y) <= Cardinality(W) - R(z)
      <3>1. PICK d \in Depth : \A d2 \in Depth : d <= d2
        BY <2>1, LeastNatural
      <3> QED BY <3>1
    <2>3. \A z \in Pred : R(z) <= R(y)
      <3> SUFFICES ASSUME NEW z \in Pred PROVE R(z) <= R(y)
        OBVIOUS
      <3>1. R(z) \in Nat /\ R(y) \in Nat /\ Cardinality(W) \in Nat
        BY <1>2, RankRange, WindowFinite
      <3> QED BY <2>2, <3>1
    <2>4. UpTo(from, to, y) = Pred
      <3>1. \A z \in Pred : z = y \/ Before(z, y)
        <4> SUFFICES ASSUME NEW z \in Pred, z # y, ~Before(z, y) PROVE FALSE
          OBVIOUS
        <4>1. Before(y, z)
          BY <1>2, WindowFinite, BeforeIsOrder
        <4>2. R(y) < R(z)
          BY <1>2, <4>1, RankOrder
        <4> QED BY <1>2, <2>3, <4>2, RankRange
      <3>2. \A z \in W : Before(z, y) => Before(z, x)
        BY <1>2, WindowFinite, BeforeIsOrder
      <3> QED BY <1>2, <3>1, <3>2 DEF UpTo
    <2>5. R(y) = R(x) - 1 /\ y \in W
      BY <1>2, <1>3, <2>4, RankRange
    <2>6. R(y) <= k
      <3>1. R(y) \in Nat /\ R(x) \in Nat
        BY <2>5, RankRange
      <3> QED BY <1>1, <2>5, <3>1
    <2>7. R(x) \in Nat
      BY RankRange
    <2> QED BY <1>1, <2>5, <2>6, <2>7
  <1> QED BY <1>4, <1>5

\* A page that is empty is past the last order.
LEMMA RecordsDense ==
    ASSUME NEW from, NEW to, NEW n \in Nat \ {0}, NEW s \in Nat \ {0},
           NEW o \in InWindow(from, to), (n - 1) * s < Rank(from, to, o)
    PROVE  Records(from, to, n, s) # {}
  <1>1. (n - 1) * s \in Nat /\ n * s = (n - 1) * s + s
    OBVIOUS
  <1>2. PICK x \in InWindow(from, to) : Rank(from, to, x) = (n - 1) * s + 1
    BY <1>1, RankDense
  <1>3. x \in Records(from, to, n, s)
    BY <1>1, <1>2 DEF Records
  <1> QED BY <1>3

-----------------------------------------------------------------------------
(* The types of the state.                                                 *)
Paged == {"upsert", "detail", "complete", "continue"}
Working == Paged \cup {"list", "finish"}

\* A run that works on a window has read it, and its page has orders.
LocalsOK ==
    \A p \in Runs :
        /\ pc[p] \in Working => win[p] \in Snapshots
        /\ pc[p] \in Paged => PageRecords(p) # {}
TypeInv == TypeOK /\ LocalsOK

LEMMA Products == \A a, b \in Nat : a * b \in Nat
  OBVIOUS

LEMMA BaseWindows ==
    /\ WindowCount \in Nat \ {0}
    /\ \A i \in Nat \ {0} : NewWindow(WindowStart(i), WindowEnd(i)) \in WindowRows
  <1>1. Start \in Nat /\ End \in Nat /\ Start <= End /\ Step \in Nat
    BY TimesAssumption
  <1>2. (End - Start) \div (Step + 1) \in Nat
    <2>1. End - Start \in Nat /\ Step + 1 \in Nat \ {0}
      BY <1>1
    <2> QED BY <2>1
  <1>3. \A i \in Nat \ {0} : WindowStart(i) \in Nat
    <2> SUFFICES ASSUME NEW i \in Nat \ {0} PROVE WindowStart(i) \in Nat
      OBVIOUS
    <2>1. i - 1 \in Nat /\ Step + 1 \in Nat
      BY <1>1
    <2>2. (i - 1) * (Step + 1) \in Nat
      BY <2>1, Products
    <2> QED BY <1>1, <2>2 DEF WindowStart
  <1> QED BY <1>1, <1>2, <1>3 DEF WindowCount, WindowEnd, NewWindow, WindowRows

\* The latest record of a page is the one of the latest second.
LEMMA LatestIs ==
    ASSUME NEW p \in Runs, PageRecords(p) # {}
    PROVE  /\ Latest(p) \in Nat
           /\ \E o \in PageRecords(p) : Latest(p) = Time[o]
           /\ \A o \in PageRecords(p) : Time[o] <= Latest(p)
  <1> DEFINE Times == {Time[o] : o \in PageRecords(p)}
             Depth == {End - Time[o] : o \in PageRecords(p)}
  <1>1. \A o \in PageRecords(p) : Time[o] \in Nat /\ Time[o] <= End /\ End \in Nat
    BY TimesAssumption DEF PageRecords, Records, InWindow
  <1>2. Depth \in SUBSET Nat /\ Depth # {}
    BY <1>1
  <1>3. PICK d \in Depth : \A d2 \in Depth : d <= d2
    BY <1>2, LeastNatural
  <1>4. PICK o \in PageRecords(p) : \A o2 \in PageRecords(p) : Time[o2] <= Time[o]
    <2>1. PICK o \in PageRecords(p) : d = End - Time[o]
      BY <1>3
    <2>2. \A o2 \in PageRecords(p) : End - Time[o] <= End - Time[o2]
      BY <1>3, <2>1
    <2> QED BY <1>1, <2>1, <2>2
  <1>5. \E t \in Times : \A o2 \in PageRecords(p) : Time[o2] <= t
    BY <1>4
  <1>6. Latest(p) \in Times /\ \A o2 \in PageRecords(p) : Time[o2] <= Latest(p)
    BY <1>5 DEF Latest
  <1> QED BY <1>1, <1>6

LEMMA TypeInit == Init => TypeInv
  <1> SUFFICES ASSUME Init PROVE TypeInv
    OBVIOUS
  <1>1. pc = [p \in Runs |-> "idle"]
    BY DEF Init
  <1>2. windows \in Seq(WindowRows)
    BY DEF Init
  <1>3. TypeOK
    BY <1>1, <1>2 DEF Init, TypeOK, Labels, Tried
  <1>4. LocalsOK
    BY <1>1 DEF LocalsOK, Working, Paged
  <1> QED BY <1>3, <1>4 DEF TypeInv

\* What the windows may become keeps their types.
LEMMA StatusTyped ==
    ASSUME TypeOK, NEW w, NEW status \in {"running", "success", "failed"}, SetStatus(w, status)
    PROVE  /\ windows' \in Seq(WindowRows) /\ Len(windows') = Len(windows)
           /\ \A i \in DOMAIN windows :
                 /\ windows'[i].start = windows[i].start /\ windows'[i].end = windows[i].end
                 /\ windows'[i].next = windows[i].next
                 /\ windows'[i].status = IF IsStored(w) /\ i = w.index THEN status
                                         ELSE windows[i].status
  <1>1. CASE IsStored(w)
    <2> DEFINE i == w.index
               row == [windows[i] EXCEPT !.status = status]
    <2>1. windows' = [windows EXCEPT ![i] = row] /\ i \in DOMAIN windows
      BY <1>1 DEF SetStatus, IsStored
    <2>2. windows[i] \in WindowRows /\ row \in WindowRows
      <3>1. windows[i] \in WindowRows
        BY <2>1 DEF TypeOK
      <3> QED BY <3>1 DEF WindowRows
    <2>3. windows' \in Seq(WindowRows) /\ Len(windows') = Len(windows)
      BY <2>1, <2>2 DEF TypeOK
    <2>4. \A j \in DOMAIN windows : windows'[j] = IF j = i THEN row ELSE windows[j]
      BY <2>1 DEF TypeOK
    <2>5. /\ row.start = windows[i].start /\ row.end = windows[i].end
          /\ row.next = windows[i].next /\ row.status = status
      BY <2>2 DEF WindowRows
    <2> QED BY <1>1, <2>3, <2>4, <2>5
  <1>2. CASE ~IsStored(w)
    BY <1>2 DEF SetStatus, TypeOK
  <1> QED BY <1>1, <1>2

\* A run whose local variables are kept.
LEMMA SameLocals ==
    ASSUME NEW p \in Runs, LocalsOK,
           pc'[p] = pc[p], win'[p] = win[p], page'[p] = page[p], size'[p] = size[p]
    PROVE  /\ PageRecords(p)' = PageRecords(p)
           /\ pc'[p] \in Working => win'[p] \in Snapshots
           /\ pc'[p] \in Paged => PageRecords(p)' # {}
  <1>1. PageRecords(p)' = PageRecords(p)
    BY DEF PageRecords, Records, Rank, InWindow, Before
  <1> QED BY <1>1 DEF LocalsOK

\* A step of p in which the other runs keep theirs.
LEMMA StepLocals ==
    ASSUME NEW p \in Runs, LocalsOK,
           \A q \in Runs \ {p} : /\ pc'[q] = pc[q] /\ win'[q] = win[q]
                                 /\ page'[q] = page[q] /\ size'[q] = size[q],
           pc'[p] \in Working => win'[p] \in Snapshots,
           pc'[p] \in Paged => PageRecords(p)' # {}
    PROVE  LocalsOK'
  <1>1. \A q \in Runs \ {p} : /\ pc'[q] \in Working => win'[q] \in Snapshots
                              /\ pc'[q] \in Paged => PageRecords(q)' # {}
    BY SameLocals
  <1> QED BY <1>1 DEF LocalsOK

\* A run that ends or restarts.
LEMMA LeaveTyped ==
    ASSUME TypeInv, NEW p \in Runs, Leave(p)
    PROVE  /\ pc' \in [Runs -> Labels] /\ queue' \in [Runs -> SUBSET Snapshots]
           /\ win' \in [Runs -> Snapshots \cup {NoWindow}] /\ page' \in [Runs -> Nat \ {0}]
           /\ todo' \in [Runs -> SUBSET Orders] /\ verdict' \in [Runs -> {"running", "success"}]
           /\ size' \in [Runs -> PageSizes] /\ LocalsOK'
  <1>1. /\ pc' \in [Runs -> Labels] /\ queue' \in [Runs -> SUBSET Snapshots]
        /\ win' \in [Runs -> Snapshots \cup {NoWindow}] /\ page' \in [Runs -> Nat \ {0}]
        /\ todo' \in [Runs -> SUBSET Orders] /\ verdict' \in [Runs -> {"running", "success"}]
        /\ size' \in [Runs -> PageSizes]
    BY DEF TypeInv, TypeOK, Leave, Goto, Labels
  <1>2. /\ \A q \in Runs \ {p} : /\ pc'[q] = pc[q] /\ win'[q] = win[q]
                                 /\ page'[q] = page[q] /\ size'[q] = size[q]
        /\ pc'[p] = "idle"
    BY DEF TypeInv, TypeOK, Leave, Goto
  <1>3. pc'[p] \notin Working /\ pc'[p] \notin Paged
    BY <1>2 DEF Working, Paged
  <1>4. LocalsOK'
    BY <1>2, <1>3, StepLocals DEF TypeInv
  <1> QED BY <1>1, <1>4

LEMMA TypeStep == TypeInv /\ [Next]_vars => TypeInv'
  <1> SUFFICES ASSUME TypeInv, [Next]_vars PROVE TypeInv'
    OBVIOUS
  <1>0. TypeOK /\ LocalsOK
    BY DEF TypeInv
  <1>s. CASE UNCHANGED vars
    <2>1. \A p \in Runs : /\ PageRecords(p)' = PageRecords(p)
                          /\ pc'[p] = pc[p] /\ win'[p] = win[p]
      BY <1>s, <1>0, SameLocals DEF vars, jobVars
    <2>2. LocalsOK'
      BY <1>0, <2>1 DEF LocalsOK
    <2> QED BY <1>s, <1>0, <2>2 DEF TypeInv, TypeOK, vars, jobVars
  <1>n. CASE Next
    <2> SUFFICES ASSUME NEW p \in Runs,
                        EnsureJob(p) \/ ResetJob(p) \/ Work(p) \/ Fail(p) \/ Crash(p)
                 PROVE  TypeInv'
      BY <1>n DEF Next
    <2>1. CASE EnsureJob(p)
      <3>1. TypeOK'
        BY <1>0, <2>1 DEF EnsureJob, TypeOK, Goto, Labels
      <3>2. /\ \A q \in Runs \ {p} : /\ pc'[q] = pc[q] /\ win'[q] = win[q]
                                     /\ page'[q] = page[q] /\ size'[q] = size[q]
            /\ pc'[p] = "windows"
        BY <1>0, <2>1 DEF EnsureJob, TypeOK, Goto
      <3> QED BY <1>0, <3>1, <3>2, StepLocals DEF TypeInv, Working, Paged
    <2>2. CASE ResetJob(p)
      <3>1. TypeOK'
        <4>1. windows' \in Seq(WindowRows) /\ generation' \in Nat
          BY <1>0, <2>2 DEF ResetJob, TypeOK
        <4> QED BY <1>0, <2>2, <4>1 DEF ResetJob, TypeOK, Goto, Labels
      <3>2. /\ \A q \in Runs \ {p} : /\ pc'[q] = pc[q] /\ win'[q] = win[q]
                                     /\ page'[q] = page[q] /\ size'[q] = size[q]
            /\ pc'[p] = "windows"
        BY <1>0, <2>2 DEF ResetJob, TypeOK, Goto
      <3> QED BY <1>0, <3>1, <3>2, StepLocals DEF TypeInv, Working, Paged
    <2>3. CASE EnsureWindows(p)
      <3> DEFINE n == IF Len(windows) < WindowCount THEN WindowCount ELSE Len(windows)
      <3>1. windows' \in Seq(WindowRows)
        <4>1. n \in Nat
          BY <1>0, BaseWindows DEF TypeOK
        <4>2. \A i \in 1..n : windows'[i] \in WindowRows
          BY <1>0, <2>3, BaseWindows DEF EnsureWindows, TypeOK
        <4>3. windows' = [i \in 1..n |-> windows'[i]]
          BY <2>3 DEF EnsureWindows
        <4> QED BY <4>1, <4>2, <4>3
      <3>2. TypeOK'
        BY <1>0, <2>3, <3>1 DEF EnsureWindows, TypeOK, Goto, Labels, Tried
      <3>3. /\ \A q \in Runs \ {p} : /\ pc'[q] = pc[q] /\ win'[q] = win[q]
                                     /\ page'[q] = page[q] /\ size'[q] = size[q]
            /\ pc'[p] = "pending"
        BY <1>0, <2>3 DEF EnsureWindows, TypeOK, Goto
      <3> QED BY <1>0, <3>2, <3>3, StepLocals DEF TypeInv, Working, Paged
    <2>4. CASE LoadPending(p)
      <3>1. {Snapshot(i) : i \in Unfinished} \subseteq Snapshots
        <4>1. \A i \in Unfinished : windows[i] \in WindowRows /\ i \in Nat
          BY <1>0 DEF Unfinished, TypeOK
        <4> QED BY SMTT(30), <1>0, <4>1 DEF Snapshot, Snapshots, WindowRows, TypeOK
      <3>2. TypeOK'
        BY <1>0, <2>4, <3>1 DEF LoadPending, TypeOK, Goto, Labels, Tried, jobVars
      <3>3. /\ \A q \in Runs \ {p} : /\ pc'[q] = pc[q] /\ win'[q] = win[q]
                                     /\ page'[q] = page[q] /\ size'[q] = size[q]
            /\ pc'[p] \in {"summary", "window"}
        BY <1>0, <2>4 DEF LoadPending, TypeOK, Goto
      <3> QED BY <1>0, <3>2, <3>3, StepLocals DEF TypeInv, Working, Paged
    <2>5. CASE StartWindow(p)
      <3>1. PICK w \in queue[p] :
               /\ win' = [win EXCEPT ![p] = w]
               /\ queue' = [queue EXCEPT ![p] = @ \ {w}]
               /\ page' = [page EXCEPT ![p] = w.next] /\ SetStatus(w, "running")
        BY <2>5 DEF StartWindow
      <3>2. w \in Snapshots /\ w.next \in Nat \ {0}
        BY <1>0 DEF TypeOK, Snapshots
      <3>3. TypeOK'
        <4>1. windows' \in Seq(WindowRows)
          BY <1>0, <3>1, StatusTyped
        <4> QED BY <1>0, <2>5, <3>1, <3>2, <4>1 DEF StartWindow, TypeOK, Goto, Labels, Tried
      <3>4. /\ \A q \in Runs \ {p} : /\ pc'[q] = pc[q] /\ win'[q] = win[q]
                                     /\ page'[q] = page[q] /\ size'[q] = size[q]
            /\ pc'[p] = "list" /\ win'[p] = w
        BY <1>0, <2>5, <3>1 DEF StartWindow, TypeOK, Goto
      <3> QED BY <1>0, <3>2, <3>3, <3>4, StepLocals DEF TypeInv, Working, Paged
    <2>6. CASE ListPage(p)
      <3>1. PICK answer \in OrderListAnswers(win[p].start, win[p].end, page[p], size[p]) :
               /\ todo' = [todo EXCEPT ![p] = answer]
               /\ pc' = [pc EXCEPT ![p] = IF answer = {} THEN "finish" ELSE "upsert"]
        BY <2>6 DEF ListPage, Goto
      <3>2. /\ answer \in {PageRecords(p), {}} /\ answer \subseteq Orders
            /\ pc[p] = "list" /\ win[p] \in Snapshots
        BY <1>0, <2>6 DEF ListPage, OrderListAnswers, PageRecords, Records, InWindow,
                          LocalsOK, Working
      <3>3. TypeOK'
        BY <1>0, <2>6, <3>1, <3>2 DEF ListPage, TypeOK, Labels, Tried, jobVars
      <3>4. /\ \A q \in Runs : win'[q] = win[q] /\ page'[q] = page[q] /\ size'[q] = size[q]
            /\ \A q \in Runs \ {p} : pc'[q] = pc[q]
            /\ pc'[p] = IF answer = {} THEN "finish" ELSE "upsert"
            /\ PageRecords(p)' = PageRecords(p)
        BY <1>0, <2>6, <3>1 DEF ListPage, TypeOK, PageRecords, Records, Rank, InWindow, Before
      <3> QED BY <1>0, <3>2, <3>3, <3>4, StepLocals DEF TypeInv, Working, Paged
    <2>7. CASE UpsertOrder(p) \/ UpdateOrderDetail(p)
      <3>1. /\ rows' \in [Orders -> {"absent", "listed", "detailed"}]
            /\ todo' \in [Runs -> SUBSET Orders]
        <4>1. PageRecords(p) \subseteq Orders
          BY DEF PageRecords, Records, InWindow
        <4>2. CASE UpsertOrder(p)
          <5>1. PICK o \in todo[p] :
                   /\ rows' = [rows EXCEPT ![o] = IF @ = "absent" THEN "listed" ELSE @]
                   /\ todo' = [todo EXCEPT ![p] = IF @ = {o} THEN PageRecords(p) ELSE @ \ {o}]
            BY <4>2 DEF UpsertOrder
          <5> QED BY <1>0, <4>1, <5>1 DEF TypeOK
        <4>3. CASE UpdateOrderDetail(p)
          <5>1. PICK o \in todo[p] :
                   /\ rows' = [rows EXCEPT ![o] = IF @ = "absent" THEN @ ELSE "detailed"]
                   /\ todo' = [todo EXCEPT ![p] = @ \ {o}]
            BY <4>3 DEF UpdateOrderDetail
          <5> QED BY <1>0, <5>1 DEF TypeOK
        <4> QED BY <2>7, <4>2, <4>3
      <3>2. /\ UNCHANGED <<jobVars, size, queue, win, page, verdict, past, faults>>
            /\ pc[p] \in Paged /\ pc'[p] \in Paged
            /\ \A q \in Runs \ {p} : pc'[q] = pc[q]
            /\ pc' \in [Runs -> Labels]
        BY <1>0, <2>7 DEF UpsertOrder, UpdateOrderDetail, TypeOK, Goto, Paged, Labels, Tried
      <3>3. TypeOK'
        BY <1>0, <3>1, <3>2 DEF TypeOK, jobVars
      <3>4. win[p] \in Snapshots /\ PageRecords(p) # {} /\ PageRecords(p)' = PageRecords(p)
        BY <1>0, <3>2 DEF LocalsOK, Working, PageRecords, Records, Rank, InWindow, Before
      <3> QED BY <1>0, <3>2, <3>3, <3>4, StepLocals DEF TypeInv
    <2>8. CASE CompletePage(p)
      <3>1. windows' \in Seq(WindowRows)
        <4> DEFINE i == win[p].index
        <4>1. CASE IsStored(win[p])
          <5>1. i \in DOMAIN windows /\ windows[i] \in WindowRows
            BY <1>0, <4>1 DEF IsStored, TypeOK
          <5>2. [windows[i] EXCEPT !.next = page[p] + 1] \in WindowRows
            <6>1. page[p] + 1 \in Nat \ {0}
              BY <1>0 DEF TypeOK
            <6> QED BY <5>1, <6>1 DEF WindowRows
          <5>3. windows' = [windows EXCEPT ![i] = [windows[i] EXCEPT !.next = page[p] + 1]]
            BY <2>8, <4>1 DEF CompletePage
          <5> QED BY <1>0, <5>1, <5>2, <5>3 DEF TypeOK
        <4>2. CASE ~IsStored(win[p])
          BY <1>0, <2>8, <4>2 DEF CompletePage, TypeOK
        <4> QED BY <4>1, <4>2
      <3>2. /\ pc[p] = "complete" /\ pc' \in [Runs -> Labels]
            /\ page' \in [Runs -> Nat \ {0}]
            /\ \A q \in Runs \ {p} : pc'[q] = pc[q] /\ page'[q] = page[q]
            /\ pc'[p] \in {"finish", "continue", "list"} /\ (pc'[p] = "continue" => page' = page)
            /\ UNCHANGED <<job, generation, rows, size, queue, win, todo, verdict, faults>>
        <4>1. page[p] + 1 \in Nat \ {0}
          BY <1>0 DEF TypeOK
        <4>2. /\ pc[p] = "complete"
              /\ UNCHANGED <<job, generation, rows, size, queue, win, todo, verdict, faults>>
              /\ \/ pc' = [pc EXCEPT ![p] = "finish"] /\ page' = page
                 \/ pc' = [pc EXCEPT ![p] = "continue"] /\ page' = page
                 \/ pc' = [pc EXCEPT ![p] = "list"] /\ page' = [page EXCEPT ![p] = page[p] + 1]
          BY <2>8 DEF CompletePage, Goto
        <4>3. {"finish", "continue", "list"} \subseteq Labels
          BY DEF Labels, Tried
        <4>4. pc \in [Runs -> Labels] /\ page \in [Runs -> Nat \ {0}]
          BY <1>0 DEF TypeOK
        <4>5. ASSUME NEW l \in {"finish", "continue"}, pc' = [pc EXCEPT ![p] = l], page' = page
              PROVE  /\ pc' \in [Runs -> Labels] /\ page' \in [Runs -> Nat \ {0}]
                     /\ \A q \in Runs \ {p} : pc'[q] = pc[q] /\ page'[q] = page[q]
                     /\ pc'[p] = l
          BY <4>3, <4>4, <4>5
        <4>6. ASSUME pc' = [pc EXCEPT ![p] = "list"], page' = [page EXCEPT ![p] = page[p] + 1]
              PROVE  /\ pc' \in [Runs -> Labels] /\ page' \in [Runs -> Nat \ {0}]
                     /\ \A q \in Runs \ {p} : pc'[q] = pc[q] /\ page'[q] = page[q]
                     /\ pc'[p] = "list"
          BY <4>1, <4>3, <4>4, <4>6
        <4> QED BY <4>2, <4>5, <4>6
      <3>3. past' \in SUBSET (Nat \X Orders)
        <4>1. win[p].start \in Nat /\ PastPage(p) \subseteq Orders
          BY <1>0, <3>2 DEF LocalsOK, Working, Paged, Snapshots, PastPage, InWindow
        <4> QED BY <1>0, <2>8, <4>1 DEF CompletePage, TypeOK
      <3>4. TypeOK'
        BY <1>0, <3>1, <3>2, <3>3 DEF TypeOK
      <3>5. /\ win[p] \in Snapshots /\ PageRecords(p) # {}
            /\ pc'[p] = "continue" => PageRecords(p)' = PageRecords(p)
        BY <1>0, <3>2 DEF LocalsOK, Working, Paged, PageRecords, Records, Rank, InWindow, Before
      <3> QED BY <1>0, <3>2, <3>4, <3>5, StepLocals DEF TypeInv, Paged
    <2>9. CASE CreateContinuation(p)
      <3>1. pc[p] = "continue" /\ win[p] \in Snapshots /\ Latest(p) \in Nat
        BY <1>0, <2>9, LatestIs DEF CreateContinuation, LocalsOK, Working, Paged
      <3>2. NewWindow(Latest(p), win[p].end) \in WindowRows
        BY <3>1 DEF NewWindow, WindowRows, Snapshots
      <3>3. windows' \in Seq(WindowRows)
        BY <1>0, <2>9, <3>2 DEF CreateContinuation, TypeOK
      <3>4. TypeOK'
        BY <1>0, <2>9, <3>3 DEF CreateContinuation, TypeOK, Goto, Labels, Tried
      <3>5. /\ \A q \in Runs \ {p} : pc'[q] = pc[q]
            /\ \A q \in Runs : win'[q] = win[q] /\ page'[q] = page[q] /\ size'[q] = size[q]
            /\ pc'[p] = "finish"
        BY <1>0, <2>9 DEF CreateContinuation, TypeOK, Goto
      <3> QED BY <1>0, <3>1, <3>4, <3>5, StepLocals DEF TypeInv, Paged
    <2>10. CASE FinishWindow(p) \/ FailWindow(p)
      <3>1. windows' \in Seq(WindowRows)
        BY <1>0, <2>10, StatusTyped DEF FinishWindow, FailWindow
      <3>2. TypeOK'
        BY <1>0, <2>10, <3>1 DEF FinishWindow, FailWindow, TypeOK, Goto, Labels, Tried
      <3>3. /\ \A q \in Runs \ {p} : /\ pc'[q] = pc[q] /\ win'[q] = win[q]
                                     /\ page'[q] = page[q] /\ size'[q] = size[q]
            /\ pc'[p] \in {"pending", "window", "failJob"}
        BY <1>0, <2>10 DEF FinishWindow, FailWindow, TypeOK, Goto
      <3> QED BY <1>0, <3>2, <3>3, StepLocals DEF TypeInv, Working, Paged
    <2>11. CASE ReadSummary(p)
      <3>1. TypeOK'
        BY <1>0, <2>11 DEF ReadSummary, TypeOK, Goto, Labels, Tried, jobVars
      <3>2. /\ \A q \in Runs \ {p} : /\ pc'[q] = pc[q] /\ win'[q] = win[q]
                                     /\ page'[q] = page[q] /\ size'[q] = size[q]
            /\ pc'[p] = "job"
        BY <1>0, <2>11 DEF ReadSummary, TypeOK, Goto
      <3> QED BY <1>0, <3>1, <3>2, StepLocals DEF TypeInv, Working, Paged
    <2>12. CASE FinishJob(p) \/ FailJob(p) \/ Crash(p)
      <3>1. Leave(p) /\ UNCHANGED <<generation, windows, rows, past>>
        BY <2>12 DEF FinishJob, FailJob, Crash, jobVars
      <3>2. job' \in {"none", "running", "success", "failed"} /\ faults' \in Nat
        BY <1>0, <2>12 DEF FinishJob, FailJob, Crash, TypeOK, jobVars
      <3> QED BY <1>0, <3>1, <3>2, LeaveTyped DEF TypeInv, TypeOK
    <2>13. CASE Fail(p)
      <3>1. TypeOK'
        BY <1>0, <2>13 DEF Fail, TypeOK, Goto, Labels, jobVars
      <3>2. /\ \A q \in Runs \ {p} : /\ pc'[q] = pc[q] /\ win'[q] = win[q]
                                     /\ page'[q] = page[q] /\ size'[q] = size[q]
            /\ pc'[p] \in {"failJob", "failWindow"}
        BY <1>0, <2>13 DEF Fail, TypeOK, Goto, jobVars
      <3> QED BY <1>0, <3>1, <3>2, StepLocals DEF TypeInv, Working, Paged
    <2> QED BY <2>1, <2>2, <2>3, <2>4, <2>5, <2>6, <2>7, <2>8, <2>9, <2>10, <2>11, <2>12,
               <2>13 DEF Work
  <1> QED BY <1>s, <1>n

\* The strengthened types hold in every state, with any number of runs: what a
\* run carries between two statements fits the rows of its job.
THEOREM TypeInvariant == Spec => []TypeInv
  BY TypeInit, TypeStep, PTL DEF Spec

\* Job, windows, orders and runs keep their types in every state.
THEOREM TypeCorrect == Spec => []TypeOK
  <1>1. TypeInv => TypeOK
    BY DEF TypeInv
  <1> QED BY <1>1, TypeInvariant, PTL

-----------------------------------------------------------------------------
(* Progress: what a window's next_page says of the rows that are stored.   *)
OneSize == \A s, s2 \in PageSizes : s = s2

\* Every order of the first n pages is stored with its detail.
Earned(r, from, to, n) ==
    \A o \in InWindow(from, to), s \in PageSizes :
        r[o] = "detailed" \/ n * s < Rank(from, to, o)
\* A snapshot is of a window that has its start and end still, or was deleted.
Matches(g, ws, w) ==
    /\ w.gen <= g
    /\ w.gen = g => /\ w.index \in DOMAIN ws
                    /\ ws[w.index].start = w.start /\ ws[w.index].end = w.end

PageOK(p) ==
    /\ pc[p] \in Working => /\ Matches(generation, windows, win[p])
                            /\ Earned(rows, win[p].start, win[p].end, page[p] - 1)
    /\ pc[p] = "upsert" => \A o \in PageRecords(p) : o \in todo[p] \/ rows[o] # "absent"
    /\ pc[p] = "detail" => \A o \in PageRecords(p) :
          rows[o] # "absent" /\ (o \in todo[p] \/ rows[o] = "detailed")
    /\ pc[p] \in {"complete", "continue"} => \A o \in PageRecords(p) : rows[o] = "detailed"
    /\ \A w \in queue[p] : /\ Matches(generation, windows, w)
                           /\ Earned(rows, w.start, w.end, w.next - 1)
WindowsEarned ==
    \A i \in DOMAIN windows :
        Earned(rows, windows[i].start, windows[i].end, windows[i].next - 1)
ProgressInv == TypeInv /\ WindowsEarned /\ \A p \in Runs : PageOK(p)

\* What a step does to the rows and to the windows of a generation.
RowsGrow ==
    \A o \in Orders : /\ rows[o] # "absent" => rows'[o] # "absent"
                      /\ rows[o] = "detailed" => rows'[o] = "detailed"
WindowsKept ==
    /\ generation' = generation
    /\ \A i \in DOMAIN windows :
          /\ i \in DOMAIN windows'
          /\ windows'[i].start = windows[i].start /\ windows'[i].end = windows[i].end

LEMMA EarnedKept ==
    ASSUME RowsGrow
    PROVE  \A from, to, n : Earned(rows, from, to, n) => Earned(rows', from, to, n)
  <1>1. \A from, to : InWindow(from, to) \subseteq Orders
    BY DEF InWindow
  <1> QED BY <1>1 DEF Earned, RowsGrow

LEMMA MatchesKept ==
    ASSUME TypeOK, WindowsKept \/ generation' = generation + 1
    PROVE  \A w \in Snapshots :
              Matches(generation, windows, w) => Matches(generation', windows', w)
  BY DEF TypeOK, Snapshots, Matches, WindowsKept

\* Another run's page is as it was.
LEMMA SamePage ==
    ASSUME TypeInv, RowsGrow, WindowsKept \/ generation' = generation + 1,
           NEW q \in Runs, PageOK(q), pc'[q] = pc[q], win'[q] = win[q], page'[q] = page[q],
           size'[q] = size[q], queue'[q] = queue[q], todo'[q] = todo[q]
    PROVE  PageOK(q)'
  <1>1. PageRecords(q)' = PageRecords(q) /\ PageRecords(q) \subseteq Orders
    BY DEF PageRecords, Records, Rank, InWindow, Before
  <1>2. pc[q] \in Working => win[q] \in Snapshots
    BY DEF TypeInv, LocalsOK
  <1>3. \A w \in queue[q] : w \in Snapshots
    BY DEF TypeInv, TypeOK
  <1>4. pc'[q] \in Working => /\ Matches(generation', windows', win'[q])
                              /\ Earned(rows', win'[q].start, win'[q].end, page'[q] - 1)
    BY <1>2, EarnedKept, MatchesKept DEF PageOK, TypeInv
  <1>5. \A w \in queue'[q] : /\ Matches(generation', windows', w)
                             /\ Earned(rows', w.start, w.end, w.next - 1)
    BY <1>3, EarnedKept, MatchesKept DEF PageOK, TypeInv
  <1> QED BY <1>1, <1>4, <1>5 DEF PageOK, RowsGrow

\* A run that works on no window keeps, or loses, the windows it has read.
LEMMA IdlePage ==
    ASSUME TypeInv, RowsGrow, WindowsKept \/ generation' = generation + 1,
           NEW q \in Runs, PageOK(q), pc'[q] \notin Working, queue'[q] \subseteq queue[q]
    PROVE  PageOK(q)'
  <1>1. \A w \in queue[q] : w \in Snapshots
    BY DEF TypeInv, TypeOK
  <1>2. \A w \in queue'[q] : /\ Matches(generation', windows', w)
                             /\ Earned(rows', w.start, w.end, w.next - 1)
    BY <1>1, EarnedKept, MatchesKept DEF PageOK, TypeInv
  <1> QED BY <1>2 DEF PageOK, Working, Paged

\* Windows that keep their next page, or are new, are as far as it says.
LEMMA SameProgress ==
    ASSUME TypeInv, WindowsEarned, RowsGrow,
           \A i \in DOMAIN windows' :
              \/ /\ i \in DOMAIN windows /\ windows'[i].next = windows[i].next
                 /\ windows'[i].start = windows[i].start /\ windows'[i].end = windows[i].end
              \/ windows'[i].next = 1
    PROVE  WindowsEarned'
  <1> SUFFICES ASSUME NEW i \in DOMAIN windows'
               PROVE  Earned(rows', windows'[i].start, windows'[i].end, windows'[i].next - 1)
    BY DEF WindowsEarned
  <1>1. CASE windows'[i].next = 1
    <2>1. \A s \in PageSizes : (windows'[i].next - 1) * s = 0
      BY <1>1, SizesAssumption
    <2> QED BY <2>1, RankRange DEF Earned
  <1>2. CASE /\ i \in DOMAIN windows /\ windows'[i].next = windows[i].next
             /\ windows'[i].start = windows[i].start /\ windows'[i].end = windows[i].end
    BY <1>2, EarnedKept DEF WindowsEarned
  <1> QED BY <1>1, <1>2

\* A page whose orders are stored adds to what is earned.
LEMMA PageEarned ==
    ASSUME TypeInv, OneSize, NEW p \in Runs, NEW r,
           Earned(r, win[p].start, win[p].end, page[p] - 1),
           \A o \in PageRecords(p) : r[o] = "detailed"
    PROVE  /\ Earned(r, win[p].start, win[p].end, page[p])
           /\ Earned(r, win[p].start, win[p].end, (page[p] + 1) - 1)
  <1>1. size[p] \in PageSizes /\ page[p] \in Nat \ {0}
    BY DEF TypeInv, TypeOK
  <1>2. ASSUME NEW o \in InWindow(win[p].start, win[p].end), NEW s \in PageSizes
        PROVE  r[o] = "detailed" \/ page[p] * s < Rank(win[p].start, win[p].end, o)
    <2>1. s = size[p]
      BY <1>1 DEF OneSize
    <2>2. CASE (page[p] - 1) * s < Rank(win[p].start, win[p].end, o)
               /\ ~(page[p] * s < Rank(win[p].start, win[p].end, o))
      <3>1. page[p] * s \in Nat /\ Rank(win[p].start, win[p].end, o) \in Nat
        BY <1>1, RankRange, Products, SizesAssumption
      <3>2. Rank(win[p].start, win[p].end, o) <= page[p] * s
        BY <2>2, <3>1
      <3>3. o \in PageRecords(p)
        BY <2>1, <2>2, <3>2 DEF PageRecords, Records
      <3> QED BY <3>3
    <2>3. CASE r[o] = "detailed"
      BY <2>3
    <2>4. r[o] = "detailed" \/ (page[p] - 1) * s < Rank(win[p].start, win[p].end, o)
      BY DEF Earned
    <2> QED BY <2>2, <2>3, <2>4
  <1>3. (page[p] + 1) - 1 = page[p]
    BY <1>1
  <1> QED BY <1>2, <1>3 DEF Earned

LEMMA Appended ==
    ASSUME NEW S, NEW s \in Seq(S), NEW e
    PROVE  /\ DOMAIN s = 1..Len(s) /\ Len(s) \in Nat
           /\ DOMAIN Append(s, e) = 1..(Len(s) + 1)
           /\ \A i \in 1..Len(s) : Append(s, e)[i] = s[i]
           /\ Append(s, e)[Len(s) + 1] = e
  OBVIOUS

\* Rows and windows are left alone, or are only added to.
LEMMA KeptWindows ==
    ASSUME TypeOK, UNCHANGED <<generation, windows>>
    PROVE  WindowsKept
  BY DEF TypeOK, WindowsKept

LEMMA KeptRows ==
    ASSUME UNCHANGED rows
    PROVE  RowsGrow
  BY DEF RowsGrow

\* A step of p that changes nothing of the other runs.
LEMMA StepProgress ==
    ASSUME TypeInv, \A q \in Runs : PageOK(q), RowsGrow,
           WindowsKept \/ generation' = generation + 1,
           NEW p \in Runs, PageOK(p)',
           \A q \in Runs \ {p} : /\ pc'[q] = pc[q] /\ win'[q] = win[q] /\ page'[q] = page[q]
                                 /\ size'[q] = size[q] /\ queue'[q] = queue[q]
                                 /\ todo'[q] = todo[q]
    PROVE  \A q \in Runs : PageOK(q)'
  BY SamePage

LEMMA ProgressStep ==
    ASSUME ProgressInv, OneSize, [Next]_vars
    PROVE  WindowsEarned' /\ \A p \in Runs : PageOK(p)'
  <1>0. TypeInv /\ TypeOK /\ LocalsOK /\ WindowsEarned /\ \A q \in Runs : PageOK(q)
    BY DEF ProgressInv, TypeInv
  <1>s. CASE UNCHANGED vars
    <2>1. RowsGrow /\ WindowsKept
      BY <1>0, <1>s, KeptRows, KeptWindows DEF vars, jobVars
    <2>2. WindowsEarned'
      BY <1>0, <1>s, <2>1, SameProgress DEF vars, jobVars
    <2> QED BY <1>0, <1>s, <2>1, <2>2, SamePage DEF vars, jobVars
  <1>n. CASE Next
    <2> SUFFICES ASSUME NEW p \in Runs,
                        EnsureJob(p) \/ ResetJob(p) \/ Work(p) \/ Fail(p) \/ Crash(p)
                 PROVE  WindowsEarned' /\ \A q \in Runs : PageOK(q)'
      BY <1>n DEF Next
    \* Steps of p that change neither rows nor windows and leave p without a window.
    <2>0. ASSUME UNCHANGED <<generation, windows, rows>>, pc'[p] \notin Working,
                 queue'[p] \subseteq queue[p],
                 \A q \in Runs \ {p} :
                    /\ pc'[q] = pc[q] /\ win'[q] = win[q] /\ page'[q] = page[q]
                    /\ size'[q] = size[q] /\ queue'[q] = queue[q] /\ todo'[q] = todo[q]
          PROVE  WindowsEarned' /\ \A q \in Runs : PageOK(q)'
      <3>1. RowsGrow /\ WindowsKept
        BY <1>0, <2>0, KeptRows, KeptWindows
      <3>2. WindowsEarned'
        BY <1>0, <2>0, <3>1, SameProgress
      <3>3. PageOK(p)'
        BY <1>0, <2>0, <3>1, IdlePage
      <3> QED BY <1>0, <2>0, <3>1, <3>2, <3>3, StepProgress
    <2>1. CASE EnsureJob(p)
      <3>1. /\ UNCHANGED <<generation, windows, rows>> /\ pc'[p] \notin Working
            /\ queue'[p] \subseteq queue[p]
            /\ \A q \in Runs \ {p} :
                  /\ pc'[q] = pc[q] /\ win'[q] = win[q] /\ page'[q] = page[q]
                  /\ size'[q] = size[q] /\ queue'[q] = queue[q] /\ todo'[q] = todo[q]
        BY <1>0, <2>1 DEF EnsureJob, Goto, TypeOK, Working, Paged
      <3> QED BY <2>0, <3>1
    <2>2. CASE ResetJob(p)
      <3>1. /\ generation' = generation + 1 /\ windows' = <<>> /\ rows' = rows
            /\ pc'[p] \notin Working /\ queue'[p] \subseteq queue[p]
            /\ \A q \in Runs \ {p} :
                  /\ pc'[q] = pc[q] /\ win'[q] = win[q] /\ page'[q] = page[q]
                  /\ size'[q] = size[q] /\ queue'[q] = queue[q] /\ todo'[q] = todo[q]
        BY <1>0, <2>2 DEF ResetJob, Goto, TypeOK, Working, Paged
      <3>2. RowsGrow
        BY <3>1, KeptRows
      <3>3. PageOK(p)'
        BY <1>0, <3>1, <3>2, IdlePage
      <3>4. WindowsEarned'
        BY <3>1 DEF WindowsEarned
      <3> QED BY <1>0, <3>1, <3>2, <3>3, <3>4, StepProgress
    <2>3. CASE EnsureWindows(p)
      <3>1. /\ UNCHANGED <<generation, rows>> /\ pc'[p] \notin Working
            /\ queue'[p] \subseteq queue[p]
            /\ \A q \in Runs \ {p} :
                  /\ pc'[q] = pc[q] /\ win'[q] = win[q] /\ page'[q] = page[q]
                  /\ size'[q] = size[q] /\ queue'[q] = queue[q] /\ todo'[q] = todo[q]
        BY <1>0, <2>3 DEF EnsureWindows, Goto, TypeOK, Working, Paged
      <3>2. /\ \A i \in DOMAIN windows : i \in DOMAIN windows' /\ windows'[i] = windows[i]
            /\ \A i \in DOMAIN windows' \ DOMAIN windows : windows'[i].next = 1
        BY <1>0, <2>3, BaseWindows DEF EnsureWindows, TypeOK, NewWindow
      <3>3. RowsGrow /\ WindowsKept
        BY <3>1, <3>2, KeptRows DEF WindowsKept
      <3>4. WindowsEarned'
        BY <1>0, <3>2, <3>3, SameProgress
      <3>5. PageOK(p)'
        BY <1>0, <3>1, <3>3, IdlePage
      <3> QED BY <1>0, <3>1, <3>3, <3>4, <3>5, StepProgress
    <2>4. CASE LoadPending(p)
      <3>1. /\ UNCHANGED <<generation, windows, rows>> /\ pc'[p] \notin Working
            /\ queue'[p] = {Snapshot(i) : i \in Unfinished}
            /\ \A q \in Runs \ {p} :
                  /\ pc'[q] = pc[q] /\ win'[q] = win[q] /\ page'[q] = page[q]
                  /\ size'[q] = size[q] /\ queue'[q] = queue[q] /\ todo'[q] = todo[q]
        BY <1>0, <2>4 DEF LoadPending, Goto, TypeOK, Working, Paged, jobVars
      <3>2. RowsGrow /\ WindowsKept
        BY <1>0, <3>1, KeptRows, KeptWindows
      <3>3. WindowsEarned'
        BY <1>0, <3>1, <3>2, SameProgress
      <3>4. \A i \in Unfinished : /\ Matches(generation, windows, Snapshot(i))
                                  /\ Earned(rows, Snapshot(i).start, Snapshot(i).end,
                                            Snapshot(i).next - 1)
        BY <1>0 DEF Unfinished, Snapshot, Matches, WindowsEarned, TypeOK
      <3>5. PageOK(p)'
        BY <3>1, <3>4 DEF PageOK, Working, Paged
      <3> QED BY <1>0, <3>1, <3>2, <3>3, <3>5, StepProgress
    <2>5. CASE StartWindow(p)
      <3>1. PICK w \in queue[p] :
               /\ win' = [win EXCEPT ![p] = w]
               /\ queue' = [queue EXCEPT ![p] = @ \ {w}]
               /\ page' = [page EXCEPT ![p] = w.next] /\ SetStatus(w, "running")
        BY <2>5 DEF StartWindow
      <3>2. /\ UNCHANGED <<generation, rows>> /\ pc'[p] = "list" /\ win'[p] = w
            /\ page'[p] = w.next /\ queue'[p] \subseteq queue[p]
            /\ \A q \in Runs \ {p} :
                  /\ pc'[q] = pc[q] /\ win'[q] = win[q] /\ page'[q] = page[q]
                  /\ size'[q] = size[q] /\ queue'[q] = queue[q] /\ todo'[q] = todo[q]
        BY <1>0, <2>5, <3>1 DEF StartWindow, Goto, TypeOK
      <3>3. /\ windows' \in Seq(WindowRows) /\ Len(windows') = Len(windows)
            /\ \A i \in DOMAIN windows :
                  /\ windows'[i].start = windows[i].start /\ windows'[i].end = windows[i].end
                  /\ windows'[i].next = windows[i].next
        BY <1>0, <3>1, StatusTyped
      <3>4. RowsGrow /\ WindowsKept
        BY <1>0, <3>2, <3>3, KeptRows DEF WindowsKept, TypeOK
      <3>5. WindowsEarned'
        BY <1>0, <3>3, <3>4, SameProgress DEF TypeOK
      <3>6. \A v \in queue[p] : /\ Matches(generation', windows', v)
                                /\ Earned(rows', v.start, v.end, v.next - 1)
        <4>1. \A v \in queue[p] : v \in Snapshots
          BY <1>0 DEF TypeOK
        <4> QED BY <1>0, <3>4, <4>1, EarnedKept, MatchesKept DEF PageOK
      <3>7. PageOK(p)'
        BY <3>2, <3>6 DEF PageOK
      <3> QED BY <1>0, <3>2, <3>4, <3>5, <3>7, StepProgress
    <2>6. CASE ListPage(p)
      <3>1. /\ UNCHANGED <<generation, windows, rows, win, page, size, queue>>
            /\ pc[p] = "list" /\ pc'[p] \in {"finish", "upsert"}
            /\ pc'[p] = "upsert" => todo'[p] = PageRecords(p)
            /\ \A q \in Runs \ {p} : pc'[q] = pc[q] /\ todo'[q] = todo[q]
        BY <1>0, <2>6 DEF ListPage, OrderListAnswers, PageRecords, Goto, TypeOK, jobVars
      <3>2. RowsGrow /\ WindowsKept
        BY <1>0, <3>1, KeptRows, KeptWindows
      <3>3. WindowsEarned'
        BY <1>0, <3>1, <3>2, SameProgress
      <3>4. PageRecords(p)' = PageRecords(p)
        BY <3>1 DEF PageRecords, Records, Rank, InWindow, Before
      <3>5. PageOK(p)'
        BY <1>0, <3>1, <3>4 DEF PageOK, Working
      <3> QED BY <1>0, <3>1, <3>2, <3>3, <3>5, StepProgress
    <2>7. CASE UpsertOrder(p) \/ UpdateOrderDetail(p)
      <3>1. /\ UNCHANGED <<generation, windows, win, page, size, queue>>
            /\ \A q \in Runs \ {p} : pc'[q] = pc[q] /\ todo'[q] = todo[q]
            /\ pc[p] \in Paged /\ pc'[p] \in Paged \ {"continue"}
        BY <1>0, <2>7 DEF UpsertOrder, UpdateOrderDetail, Goto, TypeOK, jobVars, Paged
      <3>2. PageRecords(p)' = PageRecords(p) /\ PageRecords(p) \subseteq Orders
        BY <3>1 DEF PageRecords, Records, Rank, InWindow, Before
      <3>3. /\ RowsGrow
            /\ pc'[p] = "upsert" =>
                  \A o \in PageRecords(p) : o \in todo'[p] \/ rows'[o] # "absent"
            /\ pc'[p] = "detail" => \A o \in PageRecords(p) :
                  rows'[o] # "absent" /\ (o \in todo'[p] \/ rows'[o] = "detailed")
            /\ pc'[p] = "complete" => \A o \in PageRecords(p) : rows'[o] = "detailed"
        <4>1. CASE UpsertOrder(p)
          <5>1. PICK o \in todo[p] :
                   /\ rows' = [rows EXCEPT ![o] = IF @ = "absent" THEN "listed" ELSE @]
                   /\ todo' = [todo EXCEPT ![p] = IF @ = {o} THEN PageRecords(p) ELSE @ \ {o}]
                   /\ Goto(p, IF todo[p] = {o} THEN "detail" ELSE "upsert")
            BY <4>1 DEF UpsertOrder
          <5>2. /\ pc[p] = "upsert" /\ o \in Orders /\ rows'[o] # "absent"
                /\ \A o2 \in Orders \ {o} : rows'[o2] = rows[o2]
                /\ rows[o] = "detailed" => rows'[o] = "detailed"
            BY <1>0, <4>1, <5>1 DEF UpsertOrder, TypeOK
          <5>3. \A o2 \in PageRecords(p) : o2 \in todo[p] \/ rows[o2] # "absent"
            BY <1>0, <5>2 DEF PageOK
          <5>4. RowsGrow
            BY <5>2 DEF RowsGrow
          <5>5. CASE todo[p] = {o}
            <6>1. todo'[p] = PageRecords(p) /\ pc'[p] = "detail"
              BY <1>0, <5>1, <5>5 DEF Goto, TypeOK
            <6> QED BY <3>2, <5>2, <5>3, <5>4, <5>5, <6>1
          <5>6. CASE todo[p] # {o}
            <6>1. todo'[p] = todo[p] \ {o} /\ pc'[p] = "upsert"
              BY <1>0, <5>1, <5>6 DEF Goto, TypeOK
            <6> QED BY <3>2, <5>2, <5>3, <5>4, <6>1
          <5> QED BY <5>5, <5>6
        <4>2. CASE UpdateOrderDetail(p)
          <5>1. PICK o \in todo[p] :
                   /\ rows' = [rows EXCEPT ![o] = IF @ = "absent" THEN @ ELSE "detailed"]
                   /\ todo' = [todo EXCEPT ![p] = @ \ {o}]
                   /\ Goto(p, IF todo[p] = {o} THEN "complete" ELSE "detail")
            BY <4>2 DEF UpdateOrderDetail
          <5>2. /\ pc[p] = "detail" /\ o \in Orders
                /\ \A o2 \in Orders \ {o} : rows'[o2] = rows[o2]
                /\ rows'[o] = IF rows[o] = "absent" THEN "absent" ELSE "detailed"
                /\ todo'[p] = todo[p] \ {o}
                /\ pc'[p] = IF todo[p] = {o} THEN "complete" ELSE "detail"
            BY <1>0, <4>2, <5>1 DEF UpdateOrderDetail, Goto, TypeOK
          <5>3. \A o2 \in PageRecords(p) :
                   rows[o2] # "absent" /\ (o2 \in todo[p] \/ rows[o2] = "detailed")
            BY <1>0, <5>2 DEF PageOK
          <5>4. RowsGrow
            BY <5>2 DEF RowsGrow
          <5>5. \A o2 \in PageRecords(p) :
                   rows'[o2] # "absent" /\ (o2 \in todo'[p] \/ rows'[o2] = "detailed")
            BY <3>2, <5>2, <5>3
          <5> QED BY <5>2, <5>4, <5>5
        <4> QED BY <2>7, <4>1, <4>2
      <3>4. WindowsKept
        BY <1>0, <3>1, KeptWindows
      <3>5. WindowsEarned'
        BY <1>0, <3>1, <3>3, SameProgress
      <3>6. PageOK(p)'
        <4>1. win[p] \in Snapshots /\ pc[p] \in Working /\ \A w \in queue[p] : w \in Snapshots
          BY <1>0, <3>1 DEF LocalsOK, Working, TypeOK
        <4>2. /\ Matches(generation', windows', win'[p])
              /\ Earned(rows', win'[p].start, win'[p].end, page'[p] - 1)
          BY <1>0, <3>1, <3>3, <4>1, EarnedKept DEF PageOK
        <4>3. \A w \in queue'[p] : /\ Matches(generation', windows', w)
                                   /\ Earned(rows', w.start, w.end, w.next - 1)
          BY <1>0, <3>1, <3>3, EarnedKept DEF PageOK
        <4> QED BY <3>1, <3>2, <3>3, <4>2, <4>3 DEF PageOK, Paged
      <3> QED BY <1>0, <3>1, <3>3, <3>4, <3>5, <3>6, StepProgress
    <2>8. CASE CompletePage(p)
      <3>1. /\ UNCHANGED <<generation, rows, win, size, queue, todo>> /\ pc[p] = "complete"
            /\ \A q \in Runs \ {p} : pc'[q] = pc[q] /\ page'[q] = page[q]
            /\ \/ pc'[p] \in {"finish", "continue"} /\ page'[p] = page[p]
               \/ pc'[p] = "list" /\ page'[p] = page[p] + 1
        BY <1>0, <2>8 DEF CompletePage, Goto, TypeOK
      <3>2. /\ win[p] \in Snapshots /\ Matches(generation, windows, win[p])
            /\ Earned(rows, win[p].start, win[p].end, page[p] - 1)
            /\ \A o \in PageRecords(p) : rows[o] = "detailed"
        BY <1>0, <3>1 DEF LocalsOK, PageOK, Working, Paged
      <3>3. Earned(rows, win[p].start, win[p].end, (page[p] + 1) - 1)
        BY <1>0, <3>2, PageEarned
      <3>4. /\ WindowsKept
            /\ \A i \in DOMAIN windows' : i \in DOMAIN windows /\
                  \/ windows'[i] = windows[i]
                  \/ /\ windows'[i].next = page[p] + 1
                     /\ windows[i].start = win[p].start /\ windows[i].end = win[p].end
        <4>1. CASE IsStored(win[p])
          <5> DEFINE i == win[p].index
          <5>1. /\ i \in DOMAIN windows /\ windows[i] \in WindowRows
                /\ windows[i].start = win[p].start /\ windows[i].end = win[p].end
            BY <1>0, <3>2, <4>1 DEF IsStored, Matches, TypeOK
          <5>2. windows' = [windows EXCEPT ![i] = [windows[i] EXCEPT !.next = page[p] + 1]]
            BY <2>8, <4>1 DEF CompletePage
          <5>3. /\ DOMAIN windows' = DOMAIN windows
                /\ windows'[i] = [windows[i] EXCEPT !.next = page[p] + 1]
                /\ \A j \in DOMAIN windows \ {i} : windows'[j] = windows[j]
            BY <1>0, <5>1, <5>2 DEF TypeOK
          <5>4. /\ windows'[i].start = windows[i].start /\ windows'[i].end = windows[i].end
                /\ windows'[i].next = page[p] + 1
            BY <5>1, <5>3 DEF WindowRows
          <5> QED BY <3>1, <5>1, <5>3, <5>4 DEF WindowsKept
        <4>2. CASE ~IsStored(win[p])
          <5>1. windows' = windows
            BY <2>8, <4>2 DEF CompletePage
          <5> QED BY <1>0, <3>1, <5>1, KeptWindows
        <4> QED BY <4>1, <4>2
      <3>5. RowsGrow
        BY <3>1, KeptRows
      <3>6. WindowsEarned'
        <4> SUFFICES ASSUME NEW i \in DOMAIN windows'
                     PROVE  Earned(rows', windows'[i].start, windows'[i].end,
                                   windows'[i].next - 1)
          BY DEF WindowsEarned
        <4>1. CASE windows'[i] = windows[i]
          BY <1>0, <3>1, <3>4, <4>1 DEF WindowsEarned
        <4>2. CASE /\ windows'[i].next = page[p] + 1
                   /\ windows[i].start = win[p].start /\ windows[i].end = win[p].end
          <5>1. windows'[i].start = win[p].start /\ windows'[i].end = win[p].end
            BY <3>4, <4>2 DEF WindowsKept
          <5> QED BY <3>1, <3>3, <4>2, <5>1
        <4> QED BY <3>4, <4>1, <4>2
      <3>7. PageOK(p)'
        <4>1. Matches(generation', windows', win'[p])
          BY <1>0, <3>1, <3>2, <3>4, MatchesKept
        <4>2. Earned(rows', win'[p].start, win'[p].end, page'[p] - 1)
          BY <3>1, <3>2, <3>3
        <4>3. \A w \in queue'[p] : /\ Matches(generation', windows', w)
                                   /\ Earned(rows', w.start, w.end, w.next - 1)
          <5>1. \A w \in queue[p] : w \in Snapshots
            BY <1>0 DEF TypeOK
          <5> QED BY <1>0, <3>1, <3>4, <5>1, MatchesKept DEF PageOK
        <4>4. pc'[p] = "continue" => \A o \in PageRecords(p)' : rows'[o] = "detailed"
          <5>1. pc'[p] = "continue" => PageRecords(p)' = PageRecords(p)
            BY <3>1 DEF PageRecords, Records, Rank, InWindow, Before
          <5> QED BY <3>1, <3>2, <5>1
        <4> QED BY <3>1, <4>1, <4>2, <4>3, <4>4 DEF PageOK
      <3> QED BY <1>0, <3>1, <3>4, <3>5, <3>6, <3>7, StepProgress
    <2>9. CASE CreateContinuation(p)
      <3>1. /\ UNCHANGED <<generation, rows, win, page, size, queue, todo>>
            /\ pc[p] = "continue" /\ pc'[p] = "finish"
            /\ \A q \in Runs \ {p} : pc'[q] = pc[q]
            /\ \/ windows' = windows
               \/ windows' = Append(windows, NewWindow(Latest(p), win[p].end))
        BY <1>0, <2>9 DEF CreateContinuation, Goto, TypeOK
      <3>2. /\ \A i \in DOMAIN windows : i \in DOMAIN windows' /\ windows'[i] = windows[i]
            /\ \A i \in DOMAIN windows' \ DOMAIN windows : windows'[i].next = 1
        <4>1. NewWindow(Latest(p), win[p].end).next = 1
          BY DEF NewWindow
        <4>2. CASE windows' = windows
          BY <4>2
        <4>3. CASE windows' = Append(windows, NewWindow(Latest(p), win[p].end))
          BY <1>0, <4>1, <4>3, Appended DEF TypeOK
        <4> QED BY <3>1, <4>2, <4>3
      <3>3. RowsGrow /\ WindowsKept
        BY <3>1, <3>2, KeptRows DEF WindowsKept
      <3>4. WindowsEarned'
        BY <1>0, <3>2, <3>3, SameProgress
      <3>5. PageOK(p)'
        <4>1. win[p] \in Snapshots /\ \A w \in queue[p] : w \in Snapshots
          BY <1>0, <3>1 DEF LocalsOK, Working, Paged, TypeOK
        <4>2. /\ Matches(generation', windows', win'[p])
              /\ Earned(rows', win'[p].start, win'[p].end, page'[p] - 1)
          BY <1>0, <3>1, <3>3, <4>1, MatchesKept DEF PageOK, Working, Paged
        <4>3. \A w \in queue'[p] : /\ Matches(generation', windows', w)
                                   /\ Earned(rows', w.start, w.end, w.next - 1)
          BY <1>0, <3>1, <3>3, <4>1, MatchesKept DEF PageOK
        <4> QED BY <3>1, <4>2, <4>3 DEF PageOK
      <3> QED BY <1>0, <3>1, <3>3, <3>4, <3>5, StepProgress
    <2>10. CASE FinishWindow(p) \/ FailWindow(p)
      <3>1. /\ UNCHANGED <<generation, rows>> /\ pc'[p] \notin Working
            /\ queue'[p] \subseteq queue[p]
            /\ \A q \in Runs \ {p} :
                  /\ pc'[q] = pc[q] /\ win'[q] = win[q] /\ page'[q] = page[q]
                  /\ size'[q] = size[q] /\ queue'[q] = queue[q] /\ todo'[q] = todo[q]
        BY <1>0, <2>10 DEF FinishWindow, FailWindow, Goto, TypeOK, Working, Paged
      <3>2. /\ windows' \in Seq(WindowRows) /\ Len(windows') = Len(windows)
            /\ \A i \in DOMAIN windows :
                  /\ windows'[i].start = windows[i].start /\ windows'[i].end = windows[i].end
                  /\ windows'[i].next = windows[i].next
        BY <1>0, <2>10, StatusTyped DEF FinishWindow, FailWindow
      <3>3. RowsGrow /\ WindowsKept
        BY <1>0, <3>1, <3>2, KeptRows DEF WindowsKept, TypeOK
      <3>4. WindowsEarned'
        BY <1>0, <3>2, <3>3, SameProgress DEF TypeOK
      <3>5. PageOK(p)'
        BY <1>0, <3>1, <3>3, IdlePage
      <3> QED BY <1>0, <3>1, <3>3, <3>4, <3>5, StepProgress
    <2>11. CASE ReadSummary(p) \/ Fail(p)
      <3>1. /\ UNCHANGED <<generation, windows, rows>> /\ pc'[p] \notin Working
            /\ queue'[p] \subseteq queue[p]
            /\ \A q \in Runs \ {p} :
                  /\ pc'[q] = pc[q] /\ win'[q] = win[q] /\ page'[q] = page[q]
                  /\ size'[q] = size[q] /\ queue'[q] = queue[q] /\ todo'[q] = todo[q]
        BY <1>0, <2>11 DEF ReadSummary, Fail, Goto, TypeOK, Working, Paged, jobVars
      <3> QED BY <2>0, <3>1
    <2>12. CASE FinishJob(p) \/ FailJob(p) \/ Crash(p)
      <3>1. Leave(p) /\ UNCHANGED <<generation, windows, rows>>
        BY <2>12 DEF FinishJob, FailJob, Crash, jobVars
      <3>2. /\ UNCHANGED <<generation, windows, rows>> /\ pc'[p] \notin Working
            /\ queue'[p] \subseteq queue[p]
            /\ \A q \in Runs \ {p} :
                  /\ pc'[q] = pc[q] /\ win'[q] = win[q] /\ page'[q] = page[q]
                  /\ size'[q] = size[q] /\ queue'[q] = queue[q] /\ todo'[q] = todo[q]
        BY <1>0, <3>1 DEF Leave, Goto, TypeOK, Working, Paged
      <3> QED BY <2>0, <3>2
    <2> QED BY <2>1, <2>2, <2>3, <2>4, <2>5, <2>6, <2>7, <2>8, <2>9, <2>10, <2>11, <2>12
            DEF Work
  <1> QED BY <1>s, <1>n

\* With one page size, whoever works on the windows and whatever interrupts
\* them: next_page is never ahead of the rows.
LEMMA ProgressInvariant == Spec => [](OneSize => ProgressInv)
  <1>1. Init => (OneSize => ProgressInv)
    <2> SUFFICES ASSUME Init PROVE ProgressInv
      OBVIOUS
    <2>1. TypeInv /\ WindowsEarned
      BY TypeInit DEF Init, WindowsEarned
    <2>2. \A p \in Runs : PageOK(p)
      BY DEF Init, PageOK, Working, Paged
    <2> QED BY <2>1, <2>2 DEF ProgressInv
  <1>2. (OneSize => ProgressInv) /\ TypeInv /\ [Next]_vars => (OneSize => ProgressInv)'
    <2> SUFFICES ASSUME OneSize, ProgressInv, TypeInv, [Next]_vars PROVE ProgressInv'
      BY DEF OneSize
    <2>1. TypeInv'
      BY TypeStep
    <2>2. WindowsEarned' /\ \A p \in Runs : PageOK(p)'
      BY ProgressStep
    <2> QED BY <2>1, <2>2 DEF ProgressInv
  <1> QED BY <1>1, <1>2, TypeInvariant, PTL DEF Spec

\* A window never claims a page or an order that no run of it has fetched and
\* stored: pages completed twice, crashes and resets included.
THEOREM ProgressEarned == Spec => [](OneSize => ProgressIsEarned)
  <1>1. (OneSize => ProgressInv) => (OneSize => ProgressIsEarned)
    BY DEF ProgressInv, WindowsEarned, Earned, ProgressIsEarned, IsDone
  <1> QED BY <1>1, ProgressInvariant, PTL

-----------------------------------------------------------------------------
(* Coverage: where the orders of a finished window are.  cov of an order   *)
(* is stated for the start a of a window: it is stored, or past the limit  *)
(* of a window that starts no earlier, or in a later window.               *)
Cov(ps, ws, r, a, o) ==
    \/ r[o] = "detailed"
    \/ \E t \in Nat : a <= t /\ <<t, o>> \in ps
    \/ \E j \in DOMAIN ws : /\ ws[j].status # "success" /\ a < ws[j].start
                            /\ o \in InWindow(ws[j].start, ws[j].end)
AllCov(ps, ws, r, from, to) == \A o \in InWindow(from, to) : Cov(ps, ws, r, from, o)
\* The first n pages reach the limit, and SHEIN may answer an empty page.
Deep(ps, ws, r, from, to, n) ==
    (\E s \in PageSizes : n * s >= Limit) => AllCov(ps, ws, r, from, to)

WindowCovered(i) ==
    /\ windows[i].status = "success" =>
          AllCov(past, windows, rows, windows[i].start, windows[i].end)
    /\ Deep(past, windows, rows, windows[i].start, windows[i].end, windows[i].next - 1)
RunCovered(p) ==
    /\ pc[p] \in Working =>
          /\ win[p].gen = generation
          /\ Deep(past, windows, rows, win[p].start, win[p].end, page[p] - 1)
    /\ pc[p] \in {"continue", "finish"} =>
          AllCov(past, windows, rows, win[p].start, win[p].end)
    /\ \A w \in queue[p] :
          /\ w.gen = generation
          /\ Deep(past, windows, rows, w.start, w.end, w.next - 1)
    /\ pc[p] \in {"idle", "windows", "pending"} => queue[p] = {}
\* The windows of the interval come first.
BaseThere ==
    windows # <<>> =>
        /\ WindowCount <= Len(windows)
        /\ \A i \in 1..WindowCount :
              windows[i].start = WindowStart(i) /\ windows[i].end = WindowEnd(i)
CoverInv ==
    /\ \A i \in DOMAIN windows : WindowCovered(i)
    /\ \A p \in Runs : RunCovered(p)
    /\ BaseThere

\* A step after which every order that was covered is.
CovKept ==
    \A a \in Nat, o \in Orders :
        Cov(past, windows, rows, a, o) => Cov(past', windows', rows', a, o)

LEMMA AllCovKept ==
    ASSUME CovKept
    PROVE  \A from \in Nat : \A to :
              /\ AllCov(past, windows, rows, from, to) => AllCov(past', windows', rows', from, to)
              /\ \A n : Deep(past, windows, rows, from, to, n) =>
                           Deep(past', windows', rows', from, to, n)
  <1>1. \A from, to : InWindow(from, to) \subseteq Orders
    BY DEF InWindow
  <1> QED BY <1>1 DEF CovKept, AllCov, Deep

\* Windows that are not finished by the step still cover what they covered.
LEMMA OpenWindows ==
    ASSUME TypeOK, RowsGrow, past \subseteq past',
           \A j \in DOMAIN windows : windows[j].status # "success" =>
              /\ j \in DOMAIN windows' /\ windows'[j].status # "success"
              /\ windows'[j].start = windows[j].start /\ windows'[j].end = windows[j].end
    PROVE  CovKept
  <1> SUFFICES ASSUME NEW a \in Nat, NEW o \in Orders, Cov(past, windows, rows, a, o)
               PROVE  Cov(past', windows', rows', a, o)
    BY DEF CovKept
  <1>1. CASE rows[o] = "detailed"
    BY <1>1 DEF RowsGrow, Cov
  <1>2. CASE \E t \in Nat : a <= t /\ <<t, o>> \in past
    BY <1>2 DEF Cov
  <1>3. CASE \E j \in DOMAIN windows : /\ windows[j].status # "success" /\ a < windows[j].start
                                       /\ o \in InWindow(windows[j].start, windows[j].end)
    BY <1>3 DEF Cov
  <1> QED BY <1>1, <1>2, <1>3 DEF Cov

LEMMA SameCover ==
    ASSUME TypeInv, CovKept, generation' = generation,
           NEW q \in Runs, RunCovered(q), pc'[q] = pc[q], win'[q] = win[q],
           page'[q] = page[q], queue'[q] = queue[q]
    PROVE  RunCovered(q)'
  <1>1. pc[q] \in Working => win[q].start \in Nat
    BY DEF TypeInv, LocalsOK, Snapshots
  <1>2. \A w \in queue[q] : w.start \in Nat
    BY DEF TypeInv, TypeOK, Snapshots
  <1>3. pc[q] \in {"continue", "finish"} => pc[q] \in Working
    BY DEF Working, Paged
  <1> QED BY <1>1, <1>2, <1>3, AllCovKept DEF RunCovered

LEMMA IdleCover ==
    ASSUME TypeInv, CovKept, generation' = generation,
           NEW q \in Runs, RunCovered(q), pc'[q] \notin Working, queue'[q] \subseteq queue[q],
           pc'[q] \in {"idle", "windows", "pending"} => queue'[q] = {}
    PROVE  RunCovered(q)'
  <1>1. \A w \in queue[q] : w.start \in Nat
    BY DEF TypeInv, TypeOK, Snapshots
  <1>2. pc'[q] \notin {"continue", "finish"}
    BY DEF Working, Paged
  <1> QED BY <1>1, <1>2, AllCovKept DEF RunCovered

LEMMA StepCover ==
    ASSUME TypeInv, \A q \in Runs : RunCovered(q), CovKept, generation' = generation,
           NEW p \in Runs, RunCovered(p)',
           \A q \in Runs \ {p} : /\ pc'[q] = pc[q] /\ win'[q] = win[q] /\ page'[q] = page[q]
                                 /\ queue'[q] = queue[q]
    PROVE  \A q \in Runs : RunCovered(q)'
  BY SameCover

\* A window that is as it was, or is new.
LEMMA SameWindowsCovered ==
    ASSUME TypeInv, \A i \in DOMAIN windows : WindowCovered(i), CovKept,
           NEW i \in DOMAIN windows',
           \/ /\ i \in DOMAIN windows /\ windows'[i].next = windows[i].next
              /\ windows'[i].start = windows[i].start /\ windows'[i].end = windows[i].end
              /\ windows'[i].status = "success" => windows[i].status = "success"
           \/ windows'[i].next = 1 /\ windows'[i].status = "pending"
    PROVE  WindowCovered(i)'
  <1>1. CASE windows'[i].next = 1 /\ windows'[i].status = "pending"
    <2>1. \A s \in PageSizes : ~((windows'[i].next - 1) * s >= Limit)
      BY <1>1, SizesAssumption
    <2> QED BY <1>1, <2>1 DEF WindowCovered, Deep
  <1>2. CASE /\ i \in DOMAIN windows /\ windows'[i].next = windows[i].next
             /\ windows'[i].start = windows[i].start /\ windows'[i].end = windows[i].end
             /\ windows'[i].status = "success" => windows[i].status = "success"
    <2>1. windows[i] \in WindowRows
      BY <1>2 DEF TypeInv, TypeOK
    <2>2. windows[i].start \in Nat
      BY <2>1 DEF WindowRows
    <2> QED BY <1>2, <2>2, AllCovKept DEF WindowCovered
  <1> QED BY <1>1, <1>2

\* A window all of whose orders are stored is covered.
LEMMA StoredCovered ==
    ASSUME NEW ps, NEW ws, NEW r, NEW from, NEW to, NEW n \in Nat,
           Earned(r, from, to, n), NEW s \in PageSizes,
           \A o \in InWindow(from, to) : ~(n * s < Rank(from, to, o))
    PROVE  AllCov(ps, ws, r, from, to)
  BY DEF AllCov, Cov, Earned

\* The orders past the page of a window are in its continuation.
LEMMA PastIsLater ==
    ASSUME TypeInv, NEW p \in Runs, PageRecords(p) # {}, NEW o \in PastPage(p)
    PROVE  o \in InWindow(Latest(p), win[p].end) /\ o \in Orders
  <1>1. o \in InWindow(win[p].start, win[p].end) /\ o \in Orders /\ Time[o] \in Nat
    BY TimesAssumption DEF PastPage, InWindow
  <1>2. PICK x \in PageRecords(p) : Latest(p) = Time[x]
    BY LatestIs
  <1>3. /\ x \in InWindow(win[p].start, win[p].end) /\ x \in Orders /\ Time[x] \in Nat
        /\ Rank(win[p].start, win[p].end, x) <= page[p] * size[p]
        /\ page[p] * size[p] < Rank(win[p].start, win[p].end, o)
    BY TimesAssumption DEF PageRecords, Records, PastPage, InWindow
  <1>4. page[p] * size[p] \in Nat
    BY Products, SizesAssumption DEF TypeInv, TypeOK
  <1>5. ~(Time[o] < Time[x])
    <2> SUFFICES ASSUME Time[o] < Time[x] PROVE FALSE
      OBVIOUS
    <2>1. Before(o, x)
      BY DEF Before
    <2>2. Rank(win[p].start, win[p].end, o) < Rank(win[p].start, win[p].end, x)
      BY <1>1, <1>3, <2>1, RankOrder
    <2> QED BY <1>1, <1>3, <1>4, <2>2, RankRange
  <1> QED BY <1>1, <1>2, <1>3, <1>5 DEF InWindow

\* CompletePage: at the limit or on a short page every order of the window is
\* covered, those past the limit by past.
LEMMA CompletedCovered ==
    ASSUME ProgressInv, OneSize, NEW p \in Runs, CompletePage(p),
           IsShort(p) \/ AtLimit(p)
    PROVE  AllCov(past', windows', rows', win[p].start, win[p].end)
  <1>0. TypeInv /\ TypeOK /\ LocalsOK
    BY DEF ProgressInv, TypeInv
  <1>1. /\ pc[p] = "complete" /\ rows' = rows
        /\ win[p] \in Snapshots /\ size[p] \in PageSizes /\ page[p] \in Nat \ {0}
    BY <1>0 DEF CompletePage, LocalsOK, Working, Paged, TypeOK
  <1>2. Earned(rows, win[p].start, win[p].end, page[p])
    BY <1>0, <1>1, PageEarned DEF ProgressInv, PageOK, Working, Paged
  <1>3. page[p] * size[p] \in Nat
    BY <1>1, Products, SizesAssumption
  <1>4. CASE IsShort(p)
    <2>1. \A o \in InWindow(win[p].start, win[p].end) :
             ~(page[p] * size[p] < Rank(win[p].start, win[p].end, o))
      <3> SUFFICES ASSUME NEW o \in InWindow(win[p].start, win[p].end)
                   PROVE  ~(page[p] * size[p] < Rank(win[p].start, win[p].end, o))
        OBVIOUS
      <3>1. /\ Rank(win[p].start, win[p].end, o) <= Cardinality(InWindow(win[p].start, win[p].end))
            /\ Rank(win[p].start, win[p].end, o) \in Nat
        BY RankRange
      <3>2. Cardinality(InWindow(win[p].start, win[p].end)) \in Nat
        BY WindowFinite
      <3> QED BY <1>3, <1>4, <3>1, <3>2 DEF IsShort
    <2> QED BY <1>1, <1>2, <2>1, StoredCovered
  <1>5. CASE ~IsShort(p) /\ AtLimit(p)
    <2>1. past' = past \cup ({win[p].start} \X PastPage(p))
      BY <1>5 DEF CompletePage
    <2>2. win[p].start \in Nat
      BY <1>1 DEF Snapshots
    <2> SUFFICES ASSUME NEW o \in InWindow(win[p].start, win[p].end)
                 PROVE  Cov(past', windows', rows', win[p].start, o)
      BY DEF AllCov
    <2>3. CASE rows[o] = "detailed"
      BY <1>1, <2>3 DEF Cov
    <2>4. CASE page[p] * size[p] < Rank(win[p].start, win[p].end, o)
      <3>1. <<win[p].start, o>> \in past'
        BY <2>1, <2>4 DEF PastPage
      <3> QED BY <2>2, <3>1 DEF Cov
    <2> QED BY <1>1, <1>2, <2>3, <2>4 DEF Earned
  <1> QED BY <1>4, <1>5

\* CreateContinuation: what leaves past is in the continuation.
LEMMA ContinuationKeeps ==
    ASSUME TypeInv, \A i \in DOMAIN windows : WindowCovered(i),
           NEW p \in Runs, CreateContinuation(p)
    PROVE  CovKept
  <1> DEFINE t == Latest(p)
             new == NewWindow(t, win[p].end)
  <1>0. /\ TypeOK /\ pc[p] = "continue" /\ win[p] \in Snapshots /\ PageRecords(p) # {}
        /\ rows' = rows
    BY DEF TypeInv, CreateContinuation, LocalsOK, Working, Paged
  <1>1. /\ win[p].start \in Nat /\ t \in Nat
    BY <1>0, LatestIs DEF Snapshots
  <1>2. /\ new.status = "pending" /\ new.start = t /\ new.end = win[p].end
    BY DEF NewWindow
  <1>3. \A j \in DOMAIN windows : j \in DOMAIN windows' /\ windows'[j] = windows[j]
    BY <1>0, Appended DEF CreateContinuation, TypeOK
  <1>4. Continues(win[p], t) => \E k \in DOMAIN windows' :
           /\ windows'[k].start = t /\ windows'[k].end = win[p].end
           /\ k \in DOMAIN windows \/ windows'[k].status # "success"
    <2> SUFFICES ASSUME Continues(win[p], t)
                 PROVE  \E k \in DOMAIN windows' :
                           /\ windows'[k].start = t /\ windows'[k].end = win[p].end
                           /\ k \in DOMAIN windows \/ windows'[k].status # "success"
      OBVIOUS
    <2>1. CASE Covered(win[p], t)
      BY <1>3, <2>1 DEF Covered
    <2>2. CASE ~Covered(win[p], t)
      <3>1. windows' = Append(windows, new)
        BY <2>2 DEF CreateContinuation
      <3>2. Len(windows) + 1 \in DOMAIN windows' /\ windows'[Len(windows) + 1] = new
        BY <1>0, <3>1, Appended DEF TypeOK
      <3> QED BY <1>2, <3>2
    <2> QED BY <2>1, <2>2
  <1> SUFFICES ASSUME NEW a \in Nat, NEW o \in Orders, Cov(past, windows, rows, a, o)
               PROVE  Cov(past', windows', rows', a, o)
    BY DEF CovKept
  <1>5. CASE rows[o] = "detailed"
    BY <1>0, <1>5 DEF Cov
  <1>6. CASE \E j \in DOMAIN windows : /\ windows[j].status # "success" /\ a < windows[j].start
                                       /\ o \in InWindow(windows[j].start, windows[j].end)
    BY <1>3, <1>6 DEF Cov
  <1>7. ASSUME NEW t2 \in Nat, a <= t2, <<t2, o>> \in past
        PROVE  Cov(past', windows', rows', a, o)
    <2>1. CASE <<t2, o>> \in past'
      BY <1>7, <2>1 DEF Cov
    <2>2. CASE <<t2, o>> \notin past'
      <3>1. /\ win[p].start < t /\ Continues(win[p], t)
            /\ past' = past \ ({win[p].start} \X PastPage(p))
            /\ t2 = win[p].start /\ o \in PastPage(p)
        BY <1>7, <2>2 DEF CreateContinuation
      <3>2. o \in InWindow(t, win[p].end)
        BY <1>0, <3>1, PastIsLater
      <3>3. PICK k \in DOMAIN windows' :
               /\ windows'[k].start = t /\ windows'[k].end = win[p].end
               /\ k \in DOMAIN windows \/ windows'[k].status # "success"
        BY <1>4, <3>1
      <3>4. a < t
        BY <1>1, <1>7, <3>1
      <3>5. CASE windows'[k].status # "success"
        BY <3>2, <3>3, <3>4, <3>5 DEF Cov
      <3>6. CASE windows'[k].status = "success"
        <4>1. /\ k \in DOMAIN windows /\ windows[k].status = "success"
              /\ windows[k].start = t /\ windows[k].end = win[p].end
          BY <1>3, <3>3, <3>6
        <4>2. Cov(past, windows, rows, t, o)
          BY <3>2, <4>1 DEF WindowCovered, AllCov
        <4>3. ASSUME NEW t3 \in Nat, t <= t3, <<t3, o>> \in past
              PROVE  Cov(past', windows', rows', a, o)
          <5>1. <<t3, o>> \in past' /\ a <= t3
            BY <1>1, <3>1, <3>4, <4>3
          <5> QED BY <5>1 DEF Cov
        <4>4. ASSUME NEW j \in DOMAIN windows, windows[j].status # "success",
                     t < windows[j].start, o \in InWindow(windows[j].start, windows[j].end)
              PROVE  Cov(past', windows', rows', a, o)
          <5>1. windows[j].start \in Nat
            <6>1. windows[j] \in WindowRows
              BY <1>0 DEF TypeOK
            <6> QED BY <6>1 DEF WindowRows
          <5>2. a < windows'[j].start
            BY <1>1, <1>3, <3>4, <4>4, <5>1
          <5> QED BY <1>3, <4>4, <5>2 DEF Cov
        <4> QED BY <1>5, <4>2, <4>3, <4>4 DEF Cov
      <3> QED BY <3>5, <3>6
    <2> QED BY <2>1, <2>2
  <1> QED BY <1>5, <1>6, <1>7 DEF Cov

\* FinishWindow: its orders are where the window has them.
LEMMA FinishKeeps ==
    ASSUME TypeInv, NEW p \in Runs, PageOK(p), RunCovered(p), FinishWindow(p)
    PROVE  CovKept
  <1>0. /\ TypeOK /\ pc[p] = "finish" /\ rows' = rows /\ past' = past
        /\ win[p] \in Snapshots /\ SetStatus(win[p], "success")
        /\ Matches(generation, windows, win[p])
        /\ AllCov(past, windows, rows, win[p].start, win[p].end)
    BY DEF TypeInv, FinishWindow, LocalsOK, Working, PageOK, RunCovered
  <1>1. /\ Len(windows') = Len(windows) /\ windows' \in Seq(WindowRows)
        /\ \A j \in DOMAIN windows :
              /\ windows'[j].start = windows[j].start /\ windows'[j].end = windows[j].end
              /\ windows'[j].status = IF IsStored(win[p]) /\ j = win[p].index THEN "success"
                                      ELSE windows[j].status
    BY <1>0, StatusTyped
  <1>2. DOMAIN windows' = DOMAIN windows
    BY <1>0, <1>1 DEF TypeOK
  <1>3. IsStored(win[p]) =>
           /\ windows[win[p].index].start = win[p].start
           /\ windows[win[p].index].end = win[p].end
    BY <1>0 DEF IsStored, Matches
  <1>4. \A j \in DOMAIN windows : windows[j].start \in Nat
    <2>1. \A j \in DOMAIN windows : windows[j] \in WindowRows
      BY <1>0 DEF TypeOK
    <2> QED BY <2>1 DEF WindowRows
  \* A window after the one that is finished is not the one.
  <1>5. ASSUME NEW j \in DOMAIN windows, windows[j].status # "success",
               IsStored(win[p]) => j # win[p].index
        PROVE  windows'[j].status # "success"
    BY <1>1, <1>5
  <1> SUFFICES ASSUME NEW a \in Nat, NEW o \in Orders, Cov(past, windows, rows, a, o)
               PROVE  Cov(past', windows', rows', a, o)
    BY DEF CovKept
  <1>6. CASE rows[o] = "detailed" \/ \E t \in Nat : a <= t /\ <<t, o>> \in past
    BY <1>0, <1>6 DEF Cov
  <1>7. ASSUME NEW j \in DOMAIN windows, windows[j].status # "success",
               a < windows[j].start, o \in InWindow(windows[j].start, windows[j].end)
        PROVE  Cov(past', windows', rows', a, o)
    <2>1. CASE IsStored(win[p]) => j # win[p].index
      BY <1>1, <1>2, <1>5, <1>7, <2>1 DEF Cov
    <2>2. CASE IsStored(win[p]) /\ j = win[p].index
      <3>1. /\ Cov(past, windows, rows, win[p].start, o)
            /\ a < win[p].start /\ win[p].start \in Nat
        BY <1>0, <1>3, <1>4, <1>7, <2>2 DEF AllCov
      <3>2. ASSUME NEW t \in Nat, win[p].start <= t, <<t, o>> \in past
            PROVE  Cov(past', windows', rows', a, o)
        <4>1. a <= t
          BY <3>1, <3>2
        <4> QED BY <1>0, <3>2, <4>1 DEF Cov
      <3>3. ASSUME NEW k \in DOMAIN windows, windows[k].status # "success",
                   win[p].start < windows[k].start,
                   o \in InWindow(windows[k].start, windows[k].end)
            PROVE  Cov(past', windows', rows', a, o)
        <4>1. k # win[p].index /\ a < windows[k].start
          BY <1>3, <1>4, <2>2, <3>1, <3>3
        <4> QED BY <1>1, <1>2, <1>5, <3>3, <4>1 DEF Cov
      <3> QED BY <1>6, <3>1, <3>2, <3>3 DEF Cov
    <2> QED BY <2>1, <2>2
  <1> QED BY <1>6, <1>7 DEF Cov

\* The windows of the interval are the first ones, and stay.
LEMMA BaseKept ==
    ASSUME TypeOK, BaseThere, windows # <<>>, WindowsKept, windows' \in Seq(WindowRows)
    PROVE  BaseThere'
  <1>1. /\ Len(windows) \in Nat /\ DOMAIN windows = 1..Len(windows)
        /\ Len(windows') \in Nat /\ DOMAIN windows' = 1..Len(windows')
    BY DEF TypeOK
  <1>2. WindowCount \in Nat \ {0} /\ WindowCount <= Len(windows)
    BY BaseWindows DEF BaseThere
  <1>3. Len(windows) \in DOMAIN windows
    BY <1>1, <1>2
  <1>4. Len(windows) <= Len(windows')
    BY <1>1, <1>3 DEF WindowsKept
  <1>5. \A i \in 1..WindowCount : i \in DOMAIN windows
    BY <1>1, <1>2
  <1>6. \A i \in 1..WindowCount :
           windows'[i].start = WindowStart(i) /\ windows'[i].end = WindowEnd(i)
    BY <1>5 DEF WindowsKept, BaseThere
  <1> QED BY <1>1, <1>2, <1>4, <1>6 DEF BaseThere, WindowCount, WindowStart, WindowEnd

LEMMA CoverStep ==
    ASSUME ProgressInv, ProgressInv', OneSize, ResetAlone, CoverInv, [Next]_vars
    PROVE  CoverInv'
  <1>0. /\ TypeInv /\ TypeOK /\ LocalsOK /\ \A q \in Runs : PageOK(q)
        /\ \A i \in DOMAIN windows : WindowCovered(i)
        /\ \A q \in Runs : RunCovered(q)
        /\ BaseThere
        /\ windows' \in Seq(WindowRows)
    BY DEF ProgressInv, TypeInv, CoverInv, TypeOK
  <1>k. ASSUME UNCHANGED <<generation, windows, past>>, RowsGrow PROVE CovKept
    BY <1>0, <1>k, OpenWindows DEF TypeOK
  \* Steps that leave the windows alone.
  <1>w. ASSUME UNCHANGED <<generation, windows, past>>, RowsGrow
        PROVE  BaseThere' /\ \A i \in DOMAIN windows' : WindowCovered(i)'
    <2>1. \A i \in DOMAIN windows' : WindowCovered(i)'
      BY <1>0, <1>k, <1>w, SameWindowsCovered
    <2>2. BaseThere'
      BY <1>0, <1>w DEF BaseThere, WindowCount, WindowStart, WindowEnd
    <2> QED BY <2>1, <2>2
  <1>s. CASE UNCHANGED vars
    <2>1. UNCHANGED <<generation, windows, past, rows, pc, win, page, queue>>
      BY <1>s DEF vars, jobVars
    <2>2. RowsGrow
      BY <2>1, KeptRows
    <2> QED BY <1>0, <1>k, <1>w, <2>1, <2>2, SameCover DEF CoverInv
  <1>n. CASE Next
    <2> SUFFICES ASSUME NEW p \in Runs,
                        EnsureJob(p) \/ ResetJob(p) \/ Work(p) \/ Fail(p) \/ Crash(p)
                 PROVE  CoverInv'
      BY <1>n DEF Next
    \* Steps of p that leave the windows alone and p without one.
    <2>0. ASSUME UNCHANGED <<generation, windows, rows, past>>, pc'[p] \notin Working,
                 queue'[p] \subseteq queue[p],
                 pc'[p] \in {"idle", "windows", "pending"} => queue'[p] = {},
                 \A q \in Runs \ {p} : /\ pc'[q] = pc[q] /\ win'[q] = win[q]
                                       /\ page'[q] = page[q] /\ queue'[q] = queue[q]
          PROVE  CoverInv'
      <3>1. RowsGrow /\ CovKept
        BY <2>0, <1>k, KeptRows
      <3>2. RunCovered(p)'
        BY <1>0, <2>0, <3>1, IdleCover
      <3>3. \A q \in Runs : RunCovered(q)'
        BY <1>0, <2>0, <3>1, <3>2, StepCover
      <3> QED BY <1>w, <2>0, <3>1, <3>3 DEF CoverInv
    <2>1. CASE EnsureJob(p)
      <3>1. /\ UNCHANGED <<generation, windows, rows, past>> /\ pc'[p] \notin Working
            /\ queue'[p] \subseteq queue[p] /\ queue'[p] = {}
            /\ \A q \in Runs \ {p} : /\ pc'[q] = pc[q] /\ win'[q] = win[q]
                                     /\ page'[q] = page[q] /\ queue'[q] = queue[q]
        BY <1>0, <2>1 DEF EnsureJob, Goto, TypeOK, Working, Paged, RunCovered
      <3> QED BY <2>0, <3>1
    <2>2. CASE ResetJob(p)
      <3>1. /\ windows' = <<>> /\ \A q \in Runs : pc[q] = "idle"
            /\ queue' = queue /\ \A q \in Runs : pc'[q] \in {"idle", "windows"}
        BY <1>0, <2>2 DEF ResetJob, Goto, TypeOK
      <3>2. \A q \in Runs : queue'[q] = {}
        BY <1>0, <3>1 DEF RunCovered
      <3>3. \A q \in Runs : RunCovered(q)'
        BY <3>1, <3>2 DEF RunCovered, Working, Paged
      <3> QED BY <3>1, <3>3 DEF CoverInv, BaseThere
    <2>3. CASE EnsureWindows(p)
      <3> DEFINE n == IF Len(windows) < WindowCount THEN WindowCount ELSE Len(windows)
      <3>1. /\ UNCHANGED <<generation, rows, past>> /\ pc'[p] \notin Working
            /\ queue'[p] \subseteq queue[p] /\ queue'[p] = {}
            /\ \A q \in Runs \ {p} : /\ pc'[q] = pc[q] /\ win'[q] = win[q]
                                     /\ page'[q] = page[q] /\ queue'[q] = queue[q]
        BY <1>0, <2>3 DEF EnsureWindows, Goto, TypeOK, Working, Paged, RunCovered
      <3>2. /\ Len(windows) \in Nat /\ n \in Nat /\ DOMAIN windows = 1..Len(windows)
            /\ DOMAIN windows' = 1..n /\ Len(windows) <= n
            /\ Len(windows') = n
            /\ \A i \in 1..n : windows'[i] =
                  IF i <= Len(windows) THEN windows[i]
                  ELSE NewWindow(WindowStart(i), WindowEnd(i))
        BY <1>0, <2>3, BaseWindows DEF EnsureWindows, TypeOK
      <3>3. /\ \A i \in DOMAIN windows : i \in DOMAIN windows' /\ windows'[i] = windows[i]
            /\ \A i \in DOMAIN windows' \ DOMAIN windows :
                  windows'[i] = NewWindow(WindowStart(i), WindowEnd(i))
        BY <3>2
      <3>4. \A i \in DOMAIN windows' \ DOMAIN windows :
               /\ windows'[i].next = 1 /\ windows'[i].status = "pending"
               /\ windows'[i].start = WindowStart(i) /\ windows'[i].end = WindowEnd(i)
        BY <3>3 DEF NewWindow
      <3>5. RowsGrow /\ WindowsKept
        BY <3>1, <3>3, KeptRows DEF WindowsKept
      <3>6. CovKept
        BY <1>0, <3>1, <3>3, <3>5, OpenWindows
      <3>7. \A i \in DOMAIN windows' : WindowCovered(i)'
        BY <1>0, <3>3, <3>4, <3>6, SameWindowsCovered
      <3>8. RunCovered(p)'
        BY <1>0, <3>1, <3>6, IdleCover
      <3>9. BaseThere'
        <4>1. CASE windows # <<>>
          BY <1>0, <3>5, <4>1, BaseKept
        <4>2. CASE windows = <<>>
          <5>1. Len(windows) = 0 /\ n = WindowCount
            BY <3>2, <4>2, BaseWindows
          <5>2. \A i \in 1..WindowCount : i \in DOMAIN windows' \ DOMAIN windows
            BY <3>2, <5>1
          <5>3. \A i \in 1..WindowCount :
                   windows'[i].start = WindowStart(i) /\ windows'[i].end = WindowEnd(i)
            BY <3>4, <5>2
          <5> QED BY <3>2, <5>1, <5>3, BaseWindows
                  DEF BaseThere, WindowCount, WindowStart, WindowEnd
        <4> QED BY <4>1, <4>2
      <3> QED BY <1>0, <3>1, <3>6, <3>7, <3>8, <3>9, StepCover DEF CoverInv
    <2>4. CASE LoadPending(p)
      <3>1. /\ UNCHANGED <<generation, windows, rows, past>> /\ pc'[p] \notin Working
            /\ pc'[p] \in {"summary", "window"}
            /\ queue'[p] = {Snapshot(i) : i \in Unfinished}
            /\ \A q \in Runs \ {p} : /\ pc'[q] = pc[q] /\ win'[q] = win[q]
                                     /\ page'[q] = page[q] /\ queue'[q] = queue[q]
        BY <1>0, <2>4 DEF LoadPending, Goto, TypeOK, Working, Paged, jobVars
      <3>2. RowsGrow /\ CovKept
        BY <1>k, <3>1, KeptRows
      <3>3. \A i \in Unfinished :
               /\ Snapshot(i).gen = generation
               /\ Deep(past, windows, rows, Snapshot(i).start, Snapshot(i).end,
                       Snapshot(i).next - 1)
        BY <1>0 DEF Unfinished, Snapshot, WindowCovered
      <3>4. RunCovered(p)'
        BY <3>1, <3>3 DEF RunCovered, Working, Paged
      <3> QED BY <1>0, <1>w, <3>1, <3>2, <3>4, StepCover DEF CoverInv
    <2>5. CASE StartWindow(p)
      <3>1. PICK w \in queue[p] :
               /\ win' = [win EXCEPT ![p] = w]
               /\ queue' = [queue EXCEPT ![p] = @ \ {w}]
               /\ page' = [page EXCEPT ![p] = w.next] /\ SetStatus(w, "running")
        BY <2>5 DEF StartWindow
      <3>2. /\ UNCHANGED <<generation, rows, past>> /\ pc'[p] = "list" /\ win'[p] = w
            /\ page'[p] = w.next /\ queue'[p] \subseteq queue[p]
            /\ \A q \in Runs \ {p} : /\ pc'[q] = pc[q] /\ win'[q] = win[q]
                                     /\ page'[q] = page[q] /\ queue'[q] = queue[q]
        BY <1>0, <2>5, <3>1 DEF StartWindow, Goto, TypeOK
      <3>3. /\ Len(windows') = Len(windows)
            /\ \A i \in DOMAIN windows :
                  /\ windows'[i].start = windows[i].start /\ windows'[i].end = windows[i].end
                  /\ windows'[i].next = windows[i].next
                  /\ windows'[i].status \in {"running", windows[i].status}
        BY <1>0, <3>1, StatusTyped
      <3>4. DOMAIN windows' = DOMAIN windows
        BY <1>0, <3>3 DEF TypeOK
      <3>5. RowsGrow /\ WindowsKept
        BY <3>2, <3>3, <3>4, KeptRows DEF WindowsKept
      <3>6. CovKept
        BY <1>0, <3>2, <3>3, <3>4, <3>5, OpenWindows
      <3>7. \A i \in DOMAIN windows' : WindowCovered(i)'
        BY <1>0, <3>3, <3>4, <3>6, SameWindowsCovered
      <3>8. RunCovered(p)'
        <4>1. \A v \in queue[p] :
                 /\ v.gen = generation' /\ Deep(past', windows', rows', v.start, v.end, v.next - 1)
          <5>1. \A v \in queue[p] : v.start \in Nat
            BY <1>0 DEF TypeOK, Snapshots
          <5> QED BY <1>0, <3>2, <3>6, <5>1, AllCovKept DEF RunCovered
        <4> QED BY <3>2, <4>1 DEF RunCovered
      <3>9. BaseThere'
        <4>1. windows # <<>>
          BY <1>0, <2>5, <3>1, <3>2 DEF PageOK, Matches, RunCovered, TypeOK
        <4> QED BY <1>0, <3>5, <4>1, BaseKept
      <3> QED BY <1>0, <3>2, <3>6, <3>7, <3>8, <3>9, StepCover DEF CoverInv
    <2>6. CASE ListPage(p)
      <3>1. PICK answer \in OrderListAnswers(win[p].start, win[p].end, page[p], size[p]) :
               pc' = [pc EXCEPT ![p] = IF answer = {} THEN "finish" ELSE "upsert"]
        BY <2>6 DEF ListPage, Goto
      <3>2. /\ UNCHANGED <<generation, windows, rows, past, win, page, queue>>
            /\ pc[p] = "list" /\ pc'[p] = IF answer = {} THEN "finish" ELSE "upsert"
            /\ \A q \in Runs \ {p} : pc'[q] = pc[q]
            /\ size[p] \in PageSizes /\ page[p] \in Nat \ {0}
        BY <1>0, <2>6, <3>1 DEF ListPage, TypeOK, jobVars
      <3>3. RowsGrow /\ CovKept
        BY <1>k, <3>2, KeptRows
      <3>4. /\ Deep(past, windows, rows, win[p].start, win[p].end, page[p] - 1)
            /\ Earned(rows, win[p].start, win[p].end, page[p] - 1)
            /\ win[p].gen = generation
        BY <1>0, <3>2 DEF RunCovered, PageOK, Working
      <3>5. answer = {} => AllCov(past, windows, rows, win[p].start, win[p].end)
        <4>1. CASE (page[p] - 1) * size[p] >= Limit
          BY <3>2, <3>4, <4>1 DEF Deep
        <4>2. CASE answer = {} /\ ~((page[p] - 1) * size[p] >= Limit)
          <5>1. Records(win[p].start, win[p].end, page[p], size[p]) = {}
            BY <3>1, <4>2 DEF OrderListAnswers
          <5>2. \A o \in InWindow(win[p].start, win[p].end) :
                   ~((page[p] - 1) * size[p] < Rank(win[p].start, win[p].end, o))
            BY <3>2, <5>1, RecordsDense, SizesAssumption
          <5>3. page[p] - 1 \in Nat
            BY <3>2
          <5> QED BY <3>2, <3>4, <5>2, <5>3, StoredCovered
        <4> QED BY <4>1, <4>2
      <3>6. RunCovered(p)'
        BY <1>0, <3>2, <3>4, <3>5 DEF RunCovered, Working
      <3> QED BY <1>0, <1>w, <3>2, <3>3, <3>6, StepCover DEF CoverInv
    <2>7. CASE UpsertOrder(p) \/ UpdateOrderDetail(p)
      <3>1. /\ UNCHANGED <<generation, windows, past, win, page, queue>>
            /\ \A q \in Runs \ {p} : pc'[q] = pc[q]
            /\ pc[p] \in Paged /\ pc'[p] \in {"upsert", "detail", "complete"}
            /\ win[p] \in Snapshots
        BY <1>0, <2>7 DEF UpsertOrder, UpdateOrderDetail, Goto, TypeOK, jobVars, Paged,
                          LocalsOK, Working
      <3>2. RowsGrow
        <4>1. CASE UpsertOrder(p)
          BY <1>0, <4>1 DEF UpsertOrder, RowsGrow, TypeOK
        <4>2. CASE UpdateOrderDetail(p)
          BY <1>0, <4>2 DEF UpdateOrderDetail, RowsGrow, TypeOK
        <4> QED BY <2>7, <4>1, <4>2
      <3>3. CovKept
        BY <1>k, <3>1, <3>2
      <3>4. RunCovered(p)'
        <4>1. /\ win[p].gen = generation /\ win[p].start \in Nat
              /\ Deep(past, windows, rows, win[p].start, win[p].end, page[p] - 1)
          BY <1>0, <3>1 DEF RunCovered, Working, Snapshots
        <4>2. \A w \in queue[p] :
                 /\ w.gen = generation' /\ Deep(past', windows', rows', w.start, w.end, w.next - 1)
          <5>1. \A w \in queue[p] : w.start \in Nat
            BY <1>0 DEF TypeOK, Snapshots
          <5> QED BY <1>0, <3>1, <3>3, <5>1, AllCovKept DEF RunCovered
        <4>3. Deep(past', windows', rows', win'[p].start, win'[p].end, page'[p] - 1)
          BY <3>1, <3>3, <4>1, AllCovKept
        <4> QED BY <3>1, <4>1, <4>2, <4>3 DEF RunCovered
      <3> QED BY <1>0, <1>w, <3>1, <3>2, <3>3, <3>4, StepCover DEF CoverInv
    <2>8. CASE CompletePage(p)
      <3>1. /\ UNCHANGED <<generation, rows, win, size, queue>> /\ pc[p] = "complete"
            /\ \A q \in Runs \ {p} : pc'[q] = pc[q] /\ page'[q] = page[q]
            /\ \/ /\ pc'[p] \in {"finish", "continue"} /\ page'[p] = page[p]
                  /\ IsShort(p) \/ AtLimit(p)
               \/ pc'[p] = "list" /\ page'[p] = page[p] + 1
            /\ past \subseteq past'
        BY <1>0, <2>8 DEF CompletePage, Goto, TypeOK
      <3>2. /\ win[p] \in Snapshots /\ win[p].start \in Nat /\ win[p].gen = generation
            /\ Matches(generation, windows, win[p]) /\ size[p] \in PageSizes
            /\ Deep(past, windows, rows, win[p].start, win[p].end, page[p] - 1)
            /\ page[p] \in Nat \ {0}
        BY <1>0, <3>1 DEF LocalsOK, PageOK, RunCovered, Working, Paged, Snapshots, TypeOK
      <3> DEFINE i == win[p].index
      <3>3. /\ i \in DOMAIN windows /\ windows[i] \in WindowRows
            /\ windows[i].start = win[p].start /\ windows[i].end = win[p].end
        BY <1>0, <3>2 DEF Matches, TypeOK
      <3>4. windows' = [windows EXCEPT ![i] = [windows[i] EXCEPT !.next = page[p] + 1]]
        BY <2>8, <3>2, <3>3 DEF CompletePage, IsStored
      <3>5. /\ DOMAIN windows' = DOMAIN windows
            /\ windows'[i] = [windows[i] EXCEPT !.next = page[p] + 1]
            /\ \A j \in DOMAIN windows \ {i} : windows'[j] = windows[j]
        BY <1>0, <3>3, <3>4 DEF TypeOK
      <3>6. /\ windows'[i].start = windows[i].start /\ windows'[i].end = windows[i].end
            /\ windows'[i].next = page[p] + 1 /\ windows'[i].status = windows[i].status
        BY <3>3, <3>5 DEF WindowRows
      <3>7. RowsGrow /\ WindowsKept
        BY <3>1, <3>5, <3>6, KeptRows DEF WindowsKept
      <3>8. CovKept
        BY <1>0, <3>1, <3>5, <3>6, <3>7, OpenWindows
      <3>9. IsShort(p) \/ AtLimit(p) =>
               AllCov(past', windows', rows', win[p].start, win[p].end)
        BY <2>8, CompletedCovered
      <3>10. Deep(past', windows', rows', win[p].start, win[p].end, (page[p] + 1) - 1)
        <4>1. (page[p] + 1) - 1 = page[p]
          BY <3>2
        <4>2. (\E s \in PageSizes : page[p] * s >= Limit) => AtLimit(p)
          BY <3>2 DEF OneSize, AtLimit
        <4> QED BY <3>9, <4>1, <4>2 DEF Deep
      <3>11. \A j \in DOMAIN windows' : WindowCovered(j)'
        <4>1. \A j \in DOMAIN windows \ {i} : WindowCovered(j)'
          BY <1>0, <3>5, <3>8, SameWindowsCovered
        <4>2. ASSUME NEW j \in DOMAIN windows, j = i PROVE WindowCovered(j)'
          <5>1. windows[j].status = "success" =>
                   AllCov(past', windows', rows', win[p].start, win[p].end)
            BY <1>0, <3>2, <3>3, <3>8, <4>2, AllCovKept DEF WindowCovered
          <5>2. /\ windows'[j].start = win[p].start /\ windows'[j].end = win[p].end
                /\ windows'[j].status = windows[j].status /\ windows'[j].next = page[p] + 1
            BY <3>3, <3>6, <4>2
          <5> QED BY <3>10, <5>1, <5>2 DEF WindowCovered
        <4> QED BY <3>5, <4>1, <4>2
      <3>12. RunCovered(p)'
        <4>1. \A w \in queue[p] :
                 /\ w.gen = generation' /\ Deep(past', windows', rows', w.start, w.end, w.next - 1)
          <5>1. \A w \in queue[p] : w.start \in Nat
            BY <1>0 DEF TypeOK, Snapshots
          <5> QED BY <1>0, <3>1, <3>8, <5>1, AllCovKept DEF RunCovered
        <4>2. Deep(past', windows', rows', win'[p].start, win'[p].end, page'[p] - 1)
          BY <3>1, <3>2, <3>8, <3>10, AllCovKept
        <4>3. pc'[p] \in {"continue", "finish"} =>
                 AllCov(past', windows', rows', win'[p].start, win'[p].end)
          BY <3>1, <3>9
        <4>4. pc'[p] \notin {"idle", "windows", "pending"}
          BY <3>1
        <4> QED BY <3>1, <3>2, <4>1, <4>2, <4>3, <4>4 DEF RunCovered
      <3>13. BaseThere'
        <4>1. windows # <<>>
          BY <1>0, <3>3 DEF TypeOK
        <4> QED BY <1>0, <3>7, <4>1, BaseKept
      <3> QED BY <1>0, <3>1, <3>8, <3>11, <3>12, <3>13, StepCover DEF CoverInv
    <2>9. CASE CreateContinuation(p)
      <3>1. /\ UNCHANGED <<generation, rows, win, page, size, queue>>
            /\ pc[p] = "continue" /\ pc'[p] = "finish"
            /\ \A q \in Runs \ {p} : pc'[q] = pc[q]
            /\ \/ windows' = windows
               \/ windows' = Append(windows, NewWindow(Latest(p), win[p].end))
        BY <1>0, <2>9 DEF CreateContinuation, Goto, TypeOK
      <3>2. CovKept
        BY <1>0, <2>9, ContinuationKeeps
      <3>3. /\ \A i \in DOMAIN windows : i \in DOMAIN windows' /\ windows'[i] = windows[i]
            /\ \A i \in DOMAIN windows' \ DOMAIN windows :
                  windows'[i].next = 1 /\ windows'[i].status = "pending"
        <4>1. /\ NewWindow(Latest(p), win[p].end).next = 1
              /\ NewWindow(Latest(p), win[p].end).status = "pending"
          BY DEF NewWindow
        <4>2. CASE windows' = windows
          BY <4>2
        <4>3. CASE windows' = Append(windows, NewWindow(Latest(p), win[p].end))
          BY <1>0, <4>1, <4>3, Appended DEF TypeOK
        <4> QED BY <3>1, <4>2, <4>3
      <3>4. /\ win[p] \in Snapshots /\ win[p].start \in Nat /\ win[p].gen = generation
            /\ Matches(generation, windows, win[p])
            /\ Deep(past, windows, rows, win[p].start, win[p].end, page[p] - 1)
            /\ AllCov(past, windows, rows, win[p].start, win[p].end)
        BY <1>0, <3>1 DEF LocalsOK, PageOK, RunCovered, Working, Paged, Snapshots
      <3>5. \A i \in DOMAIN windows' : WindowCovered(i)'
        BY <1>0, <3>2, <3>3, SameWindowsCovered
      <3>6. RunCovered(p)'
        <4>1. \A w \in queue[p] :
                 /\ w.gen = generation' /\ Deep(past', windows', rows', w.start, w.end, w.next - 1)
          <5>1. \A w \in queue[p] : w.start \in Nat
            BY <1>0 DEF TypeOK, Snapshots
          <5> QED BY <1>0, <3>1, <3>2, <5>1, AllCovKept DEF RunCovered
        <4>2. /\ Deep(past', windows', rows', win[p].start, win[p].end, page[p] - 1)
              /\ AllCov(past', windows', rows', win[p].start, win[p].end)
          BY <3>2, <3>4, AllCovKept
        <4> QED BY <3>1, <3>4, <4>1, <4>2 DEF RunCovered
      <3>7. BaseThere'
        <4>1. windows # <<>>
          BY <1>0, <3>4 DEF TypeOK, Matches
        <4>2. WindowsKept
          BY <3>1, <3>3 DEF WindowsKept
        <4> QED BY <1>0, <4>1, <4>2, BaseKept
      <3> QED BY <1>0, <3>1, <3>2, <3>5, <3>6, <3>7, StepCover DEF CoverInv
    <2>10. CASE FinishWindow(p)
      <3>1. /\ UNCHANGED <<generation, rows, past>> /\ pc[p] = "finish"
            /\ pc'[p] \notin Working /\ queue' = queue
            /\ pc'[p] = IF queue[p] = {} THEN "pending" ELSE "window"
            /\ SetStatus(win[p], "success")
            /\ \A q \in Runs \ {p} : /\ pc'[q] = pc[q] /\ win'[q] = win[q]
                                     /\ page'[q] = page[q]
        BY <1>0, <2>10 DEF FinishWindow, Goto, TypeOK, Working, Paged
      <3>2. CovKept
        BY <1>0, <2>10, FinishKeeps
      <3>3. /\ win[p] \in Snapshots /\ win[p].start \in Nat /\ win[p].gen = generation
            /\ Matches(generation, windows, win[p])
            /\ AllCov(past, windows, rows, win[p].start, win[p].end)
        BY <1>0, <3>1 DEF LocalsOK, PageOK, RunCovered, Working, Snapshots
      <3>4. /\ Len(windows') = Len(windows)
            /\ \A i \in DOMAIN windows :
                  /\ windows'[i].start = windows[i].start /\ windows'[i].end = windows[i].end
                  /\ windows'[i].next = windows[i].next
                  /\ windows'[i].status = IF IsStored(win[p]) /\ i = win[p].index THEN "success"
                                          ELSE windows[i].status
        BY <1>0, <3>1, StatusTyped
      <3>5. DOMAIN windows' = DOMAIN windows
        BY <1>0, <3>4 DEF TypeOK
      <3>6. \A i \in DOMAIN windows' : WindowCovered(i)'
        <4> SUFFICES ASSUME NEW i \in DOMAIN windows PROVE WindowCovered(i)'
          BY <3>5
        <4>1. CASE i # win[p].index
          BY <1>0, <3>2, <3>4, <3>5, <4>1, SameWindowsCovered
        <4>2. CASE i = win[p].index
          <5>1. windows[i].start = win[p].start /\ windows[i].end = win[p].end
            BY <3>3, <4>2 DEF Matches
          <5>2. AllCov(past', windows', rows', win[p].start, win[p].end)
            BY <3>2, <3>3, AllCovKept
          <5>3. Deep(past', windows', rows', win[p].start, win[p].end, windows[i].next - 1)
            BY <5>2 DEF Deep
          <5> QED BY <3>4, <5>1, <5>2, <5>3 DEF WindowCovered
        <4> QED BY <4>1, <4>2
      <3>7. RunCovered(p)'
        BY <1>0, <3>1, <3>2, IdleCover
      <3>8. BaseThere'
        <4>1. windows # <<>>
          BY <1>0, <3>3 DEF TypeOK, Matches
        <4>2. WindowsKept
          BY <3>1, <3>4, <3>5 DEF WindowsKept
        <4> QED BY <1>0, <4>1, <4>2, BaseKept
      <3> QED BY <1>0, <3>1, <3>2, <3>6, <3>7, <3>8, StepCover DEF CoverInv
    <2>11. CASE FailWindow(p)
      <3>1. /\ UNCHANGED <<generation, rows, past>> /\ pc'[p] = "failJob" /\ queue' = queue
            /\ SetStatus(win[p], "failed")
            /\ \A q \in Runs \ {p} : /\ pc'[q] = pc[q] /\ win'[q] = win[q]
                                     /\ page'[q] = page[q]
        BY <1>0, <2>11 DEF FailWindow, Goto, TypeOK
      <3>2. /\ Len(windows') = Len(windows)
            /\ \A i \in DOMAIN windows :
                  /\ windows'[i].start = windows[i].start /\ windows'[i].end = windows[i].end
                  /\ windows'[i].next = windows[i].next
                  /\ windows'[i].status \in {"failed", windows[i].status}
        BY <1>0, <3>1, StatusTyped
      <3>3. DOMAIN windows' = DOMAIN windows
        BY <1>0, <3>2 DEF TypeOK
      <3>4. RowsGrow /\ WindowsKept
        BY <3>1, <3>2, <3>3, KeptRows DEF WindowsKept
      <3>5. CovKept
        BY <1>0, <3>1, <3>2, <3>3, <3>4, OpenWindows
      <3>6. \A i \in DOMAIN windows' : WindowCovered(i)'
        BY <1>0, <3>2, <3>3, <3>5, SameWindowsCovered
      <3>7. RunCovered(p)'
        BY <1>0, <3>1, <3>5, IdleCover DEF Working, Paged
      <3>8. BaseThere'
        <4>1. CASE windows = <<>>
          <5>1. windows' = <<>>
            BY <1>0, <3>2, <4>1
          <5> QED BY <5>1 DEF BaseThere
        <4>2. CASE windows # <<>>
          BY <1>0, <3>4, <4>2, BaseKept
        <4> QED BY <4>1, <4>2
      <3> QED BY <1>0, <3>1, <3>5, <3>6, <3>7, <3>8, StepCover DEF CoverInv
    <2>12. CASE ReadSummary(p) \/ Fail(p)
      <3>1. /\ UNCHANGED <<generation, windows, rows, past>>
            /\ queue'[p] \subseteq queue[p]
            /\ pc'[p] \in {"job", "failJob", "failWindow"}
            /\ \A q \in Runs \ {p} : /\ pc'[q] = pc[q] /\ win'[q] = win[q]
                                     /\ page'[q] = page[q] /\ queue'[q] = queue[q]
        BY <1>0, <2>12 DEF ReadSummary, Fail, Goto, TypeOK, jobVars
      <3>2. pc'[p] \notin Working /\ pc'[p] \notin {"idle", "windows", "pending"}
        BY <3>1 DEF Working, Paged
      <3> QED BY <2>0, <3>1, <3>2
    <2>13. CASE FinishJob(p) \/ FailJob(p) \/ Crash(p)
      <3>1. Leave(p) /\ UNCHANGED <<generation, windows, rows, past>>
        BY <2>13 DEF FinishJob, FailJob, Crash, jobVars
      <3>2. /\ pc'[p] \notin Working /\ queue'[p] \subseteq queue[p] /\ queue'[p] = {}
            /\ \A q \in Runs \ {p} : /\ pc'[q] = pc[q] /\ win'[q] = win[q]
                                     /\ page'[q] = page[q] /\ queue'[q] = queue[q]
        BY <1>0, <3>1 DEF Leave, Goto, TypeOK, Working, Paged
      <3> QED BY <2>0, <3>1, <3>2
    <2> QED BY <2>1, <2>2, <2>3, <2>4, <2>5, <2>6, <2>7, <2>8, <2>9, <2>10, <2>11, <2>12,
               <2>13 DEF Work
  <1> QED BY <1>s, <1>n

\* The whole: with one page size and --reset given while no other run works.
LEMMA CoverInvariant == Spec => [](OneSize /\ ResetAlone => CoverInv)
  <1>1. Init => (OneSize /\ ResetAlone => CoverInv)
    <2> SUFFICES ASSUME Init PROVE CoverInv
      OBVIOUS
    <2>1. windows = <<>> /\ \A p \in Runs : pc[p] = "idle" /\ queue[p] = {}
      BY DEF Init
    <2> QED BY <2>1 DEF CoverInv, BaseThere, RunCovered, Working, Paged
  <1>2. /\ OneSize /\ ResetAlone => CoverInv
        /\ OneSize => ProgressInv
        /\ (OneSize => ProgressInv)'
        /\ [Next]_vars
        => (OneSize /\ ResetAlone => CoverInv)'
    <2> SUFFICES ASSUME OneSize, ResetAlone, CoverInv, ProgressInv, ProgressInv', [Next]_vars
                 PROVE  CoverInv'
      BY DEF OneSize
    <2> QED BY CoverStep
  <1> QED BY <1>1, <1>2, ProgressInvariant, PTL DEF Spec

\* The seconds of the interval are shared out among its windows.
LEMMA BaseCovers ==
    ASSUME NEW o \in Orders
    PROVE  \E i \in 1..WindowCount : o \in InWindow(WindowStart(i), WindowEnd(i))
  <1> DEFINE d == Time[o] - Start
             len == Step + 1
             q == d \div len
  <1>1. /\ Start \in Nat /\ End \in Nat /\ Step \in Nat /\ Time[o] \in Nat
        /\ Start <= Time[o] /\ Time[o] <= End
    BY TimesAssumption
  <1>2. d \in Nat /\ len \in Nat \ {0} /\ End - Start \in Nat /\ d <= End - Start
    BY <1>1
  <1>3. q \in Nat /\ q * len <= d /\ d < q * len + len
    <2> HIDE DEF d, len
    <2> QED BY <1>2
  <1>4. (End - Start) \div len \in Nat /\ End - Start < ((End - Start) \div len) * len + len
    <2> HIDE DEF d, len
    <2> QED BY <1>2
  <1>5. q <= (End - Start) \div len
    <2> DEFINE m == (End - Start) \div len
    <2> SUFFICES ASSUME m + 1 <= q PROVE FALSE
      BY <1>3, <1>4
    <2>1. m \in Nat /\ End - Start < m * len + len
      BY <1>4
    <2>2. (m + 1) * len <= q * len
      <3> HIDE DEF m, q, len
      <3> QED BY <1>2, <1>3, <2>1
    <2>3. (m + 1) * len = m * len + len
      <3> HIDE DEF m, len
      <3> QED BY <1>2, <2>1
    <2>4. m * len \in Int /\ q * len \in Int
      <3> HIDE DEF m, q, len
      <3> QED BY <1>2, <1>3, <2>1
    <2> HIDE DEF m, q
    <2> QED BY <1>2, <1>3, <2>1, <2>2, <2>3, <2>4
  <1>6. q + 1 \in 1..WindowCount
    BY <1>3, <1>4, <1>5 DEF WindowCount
  <1>7. WindowStart(q + 1) <= Time[o] /\ Time[o] <= WindowEnd(q + 1)
    <2>1. WindowStart(q + 1) = Start + q * len
      <3>1. (q + 1) - 1 = q
        BY <1>3
      <3> QED BY <3>1 DEF WindowStart
    <2>2. q * len \in Int
      BY <1>2, <1>3
    <2>3. Start + q * len <= Time[o] /\ Time[o] <= Start + q * len + Step
      <3> HIDE DEF q
      <3> QED BY <1>1, <1>3, <2>2
    <2> HIDE DEF q
    <2> QED BY <1>1, <2>1, <2>2, <2>3 DEF WindowEnd
  <1> QED BY <1>6, <1>7 DEF InWindow

\* Every order of a finished window is stored with its detail, is in a later
\* window, or was cut off at the limit.
THEOREM FinishedWindowsComplete ==
    Spec => [](OneSize /\ ResetAlone => FinishedWindowIsComplete)
  <1>1. TypeOK /\ CoverInv => FinishedWindowIsComplete
    <2> SUFFICES ASSUME TypeOK, CoverInv, NEW i \in DOMAIN windows,
                        windows[i].status = "success",
                        NEW o \in InWindow(windows[i].start, windows[i].end)
                 PROVE  \/ IsDone(o)
                        \/ \E t \in {x[1] : x \in past} :
                              windows[i].start <= t /\ <<t, o>> \in past
                        \/ \E j \in Unfinished :
                              /\ windows[i].start < windows[j].start
                              /\ o \in InWindow(windows[j].start, windows[j].end)
      BY DEF FinishedWindowIsComplete
    <2>1. Cov(past, windows, rows, windows[i].start, o)
      BY DEF CoverInv, WindowCovered, AllCov
    <2>2. ASSUME NEW t \in Nat, windows[i].start <= t, <<t, o>> \in past
          PROVE  \E u \in {x[1] : x \in past} : windows[i].start <= u /\ <<u, o>> \in past
      <3>1. <<t, o>>[1] = t
        OBVIOUS
      <3> QED BY <2>2, <3>1
    <2> QED BY <2>1, <2>2 DEF Cov, IsDone, Unfinished
  <1>2. /\ OneSize /\ ResetAlone => CoverInv
        /\ TypeOK
        => (OneSize /\ ResetAlone => FinishedWindowIsComplete)
    BY <1>1
  <1> QED BY <1>2, CoverInvariant, TypeCorrect, PTL

\* Once the job has windows, the orders of its interval are stored, will be
\* fetched by a rerun of the key, or were cut off at the limit.
THEOREM OrdersKept == Spec => [](OneSize /\ ResetAlone => NothingElseLost)
  <1>1. TypeOK /\ CoverInv => NothingElseLost
    <2> SUFFICES ASSUME TypeOK, CoverInv, windows # <<>>, NEW o \in Orders
                 PROVE  \/ IsDone(o)
                        \/ \E t \in {x[1] : x \in past} : <<t, o>> \in past
                        \/ \E i \in Unfinished : o \in InWindow(windows[i].start, windows[i].end)
      BY DEF NothingElseLost
    <2>1. PICK i \in 1..WindowCount : o \in InWindow(WindowStart(i), WindowEnd(i))
      BY BaseCovers
    <2>2. i \in DOMAIN windows /\ o \in InWindow(windows[i].start, windows[i].end)
      BY <2>1, BaseWindows DEF CoverInv, BaseThere, TypeOK
    <2>3. CASE windows[i].status # "success"
      BY <2>2, <2>3 DEF Unfinished
    <2>4. CASE windows[i].status = "success"
      <3>1. Cov(past, windows, rows, windows[i].start, o)
        BY <2>2, <2>4 DEF CoverInv, WindowCovered, AllCov
      <3>2. ASSUME NEW t \in Nat, <<t, o>> \in past
            PROVE  \E u \in {x[1] : x \in past} : <<u, o>> \in past
        <4>1. <<t, o>>[1] = t
          OBVIOUS
        <4> QED BY <3>2, <4>1
      <3> QED BY <3>1, <3>2 DEF Cov, IsDone, Unfinished
    <2> QED BY <2>3, <2>4
  <1>2. /\ OneSize /\ ResetAlone => CoverInv
        /\ TypeOK
        => (OneSize /\ ResetAlone => NothingElseLost)
    BY <1>1
  <1> QED BY <1>2, CoverInvariant, TypeCorrect, PTL
=============================================================================
