------------------------- MODULE LatestSyncProofs -------------------------
(***************************************************************************)
(* What holds of the latest synchronisation for every set of items, page   *)
(* size, overlap and look-back of the first run, however SHEIN changes     *)
(* while a run reads, and any number of runs and stops.                    *)
(***************************************************************************)
EXTENDS LatestSync, FiniteSetTheorems, WellFoundedInduction, TLAPS

-----------------------------------------------------------------------------
(* The invariants.                                                         *)
Pages == {"list", "upsert", "detail"}

TypeInv ==
    /\ now \in Nat /\ changed \in [Items -> Nat]
    /\ stored \in [Items -> Nat] /\ updated \in [Items -> Nat] /\ seen \in [Items -> Nat]
    /\ pc \in {"idle", "plan"} \cup Pages /\ kind \in Kinds
    /\ start \in Int /\ end \in Nat /\ page \in Nat \ {0}
    /\ records \in SUBSET (Nat \X Items) /\ todo \in SUBSET (Nat \X Items)
    /\ IsFiniteSet(records)
    /\ listed \in SUBSET Items /\ total \in Nat
    /\ detailed \in SUBSET Items /\ slipped \in SUBSET Items /\ undetailed \in SUBSET Items

\* What a run holds at each of its stages.
Shape ==
    /\ pc \notin Pages => records = {} /\ listed = {} /\ total = 0 /\ page = 1
    /\ pc = "list" /\ page = 1 => total = 0
    /\ pc \in {"upsert", "detail"} => todo # {}
    /\ pc = "upsert" => todo \subseteq records
    /\ pc = "detail" => kind \in {"orders", "returns"}
    /\ pc = "detail" /\ kind = "orders" => todo \subseteq records
    /\ kind = "orders" => total = 0
    /\ pc = "upsert" /\ kind = "returns" => ItemsOf(records) \subseteq listed
    /\ pc = "detail" /\ kind = "returns" => ItemsOf(todo) \subseteq listed

\* The times among which the cursor is the newest.
Mark == IF kind = "products" THEN seen ELSE updated

\* Nothing is from the future.  Orders and returns are stored with the times
\* of the interval until the details of the returns are fetched.
Times ==
    /\ \A x \in Items : /\ changed[x] <= now /\ stored[x] <= changed[x]
                        /\ updated[x] <= changed[x] /\ Mark[x] <= now
    /\ pc # "idle" => end <= now
    /\ pc \in Pages => start <= end
    /\ kind # "products" /\ pc # "idle" /\ ~(pc = "detail" /\ kind = "returns") =>
          \A x \in Items : updated[x] <= end

\* What is still to be stored was read in the interval, and is current or of
\* an item that has left it.
Fresh ==
    /\ pc = "upsert" => \A t \in todo :
          /\ start <= t[1] /\ t[1] <= end /\ t[1] # 0 /\ t[1] <= changed[t[2]]
          /\ t[1] = changed[t[2]] \/ (kind # "products" /\ end <= changed[t[2]])
    /\ kind = "products" => \A x \in Items : stored[x] \in {0, changed[x]}

\* The part of the list that only items leave, and what of it has been read.
Early == {x \in Items : changed[x] # 0 /\ start <= changed[x] /\ changed[x] < end}
Read == {x \in Early : Position(x) <= Reached}

EntryKept(x) == stored[x] = changed[x] \/ x \in slipped
DetailKept(x) == kind # "products" => x \in detailed \cup slipped \cup undetailed

\* Before the interval nothing is missing.
Older ==
    pc \in Pages => \A x \in Items :
        changed[x] # 0 /\ changed[x] < start => EntryKept(x) /\ DetailKept(x)

\* Between runs nothing is missing before any cursor the next may take.
Settled ==
    pc \notin Pages => \A x, z \in Items :
        changed[x] # 0 /\ changed[x] < Mark[z] - Overlap => EntryKept(x) /\ DetailKept(x)

\* What changed after the interval is only behind a cursor if it is kept, or
\* the run has been noted to have outrun it.
Late ==
    pc \in Pages => \A x, z \in Items :
        end <= changed[x] /\ changed[x] # 0 /\ changed[x] < Mark[z] - Overlap =>
            EntryKept(x) /\ DetailKept(x)

\* What has been read is stored, or about to be.
EntriesRead ==
    pc \in Pages => \A y \in Read :
        EntryKept(y) \/ (pc = "upsert" /\ <<changed[y], y>> \in todo)
OrdersRead ==
    pc \in Pages /\ kind = "orders" => \A y \in Read :
        \/ DetailKept(y)
        \/ pc = "upsert" /\ y \in ItemsOf(records)
        \/ pc = "detail" /\ y \in ItemsOf(todo)
ReturnsRead ==
    pc \in Pages /\ kind = "returns" => \A y \in Read :
        \/ DetailKept(y)
        \/ pc # "detail" /\ y \in listed
        \/ pc = "detail" /\ y \in ItemsOf(todo)

\* What has not been read is not behind a cursor, nor will it be.
Unread ==
    pc \in Pages /\ kind # "products" => \A y \in Early \ Read :
        /\ \A z \in Items : updated[z] - Overlap <= changed[y]
        /\ pc = "upsert" => \A t \in todo : t[1] <= changed[y]
NotBehind ==
    pc = "upsert" /\ kind # "products" =>
        \A t \in todo, z \in Items : updated[z] - Overlap <= t[1]

\* A run that stops paging has read everything.
LastPage ==
    /\ pc = "upsert" \/ (pc = "detail" /\ kind = "orders") =>
          (Cardinality(records) < PageSize => Early \subseteq Read)
    /\ pc = "detail" /\ kind = "returns" => Early \subseteq Read
    /\ pc \in Pages /\ total # 0 => \A y \in Early : Position(y) <= total

StateInv == TypeInv /\ Shape /\ Times /\ Fresh
ListInv == EntriesRead /\ OrdersRead /\ ReturnsRead /\ Unread /\ NotBehind /\ LastPage
SyncInv == StateInv /\ Older /\ Settled /\ Late /\ ListInv

-----------------------------------------------------------------------------
(* The list of an interval: its items are numbered from 1 without a gap.   *)
UpTo(x) == {y \in Window : y = x \/ Before(y, x)}

LEMMA LeastNatural ==
    ASSUME NEW T \in SUBSET Nat, T # {}
    PROVE  \E x \in T : \A y \in T : x <= y
  <1>1. PICK x \in T : \A y \in T : ~ (<<y, x>> \in OpToRel(<, Nat))
    BY NatLessThanWellFounded, WFMin, Zenon
  <1>2. \A y \in T : x <= y
    <2> SUFFICES ASSUME NEW y \in T, y < x PROVE FALSE
      OBVIOUS
    <2>1. <<y, x>> \in OpToRel(<, Nat)
      BY ZenonT(30) DEF OpToRel
    <2> QED BY <1>1, <2>1, Zenon
  <1> QED BY <1>2

LEMMA BeforeIsOrder ==
    ASSUME changed \in [Items -> Nat], NEW x \in Items, NEW y \in Items, NEW z \in Items
    PROVE  /\ ~Before(x, x)
           /\ Before(x, y) \/ Before(y, x) \/ x = y
           /\ Before(x, y) => ~Before(y, x)
           /\ Before(x, y) /\ Before(y, z) => Before(x, z)
  <1>1. /\ x \in Nat /\ y \in Nat /\ z \in Nat
        /\ changed[x] \in Nat /\ changed[y] \in Nat /\ changed[z] \in Nat
    BY ItemsAssumption
  <1> QED BY <1>1 DEF Before

LEMMA WindowFinite ==
    /\ Window \subseteq Items /\ IsFiniteSet(Window)
    /\ Cardinality(Window) \in Nat
  BY ItemsAssumption, FS_Subset, FS_CardinalityType DEF Window

LEMMA PositionRange ==
    ASSUME NEW x \in Window
    PROVE  /\ Position(x) \in Nat /\ 0 < Position(x)
           /\ Position(x) <= Cardinality(Window)
           /\ Position(x) = Cardinality(UpTo(x)) /\ IsFiniteSet(UpTo(x))
  <1>1. UpTo(x) \in SUBSET Window /\ x \in UpTo(x)
    BY DEF UpTo
  <1>2. Position(x) = Cardinality(UpTo(x))
    BY DEF Position, UpTo
  <1>3. /\ IsFiniteSet(UpTo(x)) /\ Cardinality(UpTo(x)) <= Cardinality(Window)
        /\ Cardinality(UpTo(x)) \in Nat
    BY <1>1, WindowFinite, FS_Subset, FS_CardinalityType
  <1>4. Cardinality(UpTo(x)) # 0
    BY <1>1, <1>3, FS_EmptySet
  <1> QED BY <1>2, <1>3, <1>4

LEMMA PositionOrder ==
    ASSUME changed \in [Items -> Nat], NEW x \in Window, NEW y \in Window, Before(x, y)
    PROVE  Position(x) < Position(y)
  <1>1. UpTo(x) \in SUBSET UpTo(y)
    BY WindowFinite, BeforeIsOrder DEF UpTo
  <1>2. y \in UpTo(y) /\ y \notin UpTo(x)
    BY WindowFinite, BeforeIsOrder DEF UpTo
  <1>3. /\ Cardinality(UpTo(x)) <= Cardinality(UpTo(y))
        /\ Cardinality(UpTo(x)) # Cardinality(UpTo(y))
    BY <1>1, <1>2, PositionRange, FS_Subset
  <1> QED BY <1>3, PositionRange

\* Below every position there is every other one.
LEMMA PositionDense ==
    ASSUME changed \in [Items -> Nat], NEW w \in Window, NEW k \in Nat, k < Position(w)
    PROVE  \E x \in Window : Position(x) = k + 1
  <1> DEFINE Above == {Position(x) : x \in {x \in Window : k < Position(x)}}
  <1>1. PICK x \in Window : /\ k < Position(x)
                            /\ \A y \in Window : k < Position(y) => Position(x) <= Position(y)
    <2>1. Above \in SUBSET Nat /\ Above # {}
      BY PositionRange
    <2>2. PICK r \in Above : \A r2 \in Above : r <= r2
      BY <2>1, LeastNatural
    <2> QED BY <2>2
  <1> DEFINE Pred == UpTo(x) \ {x}
  <1>2. Pred = {y \in Window : Before(y, x)}
    BY BeforeIsOrder, WindowFinite DEF UpTo
  <1>3. Cardinality(Pred) = Position(x) - 1 /\ IsFiniteSet(Pred)
    <2>1. x \in UpTo(x) /\ IsFiniteSet(UpTo(x))
      BY PositionRange DEF UpTo
    <2>2. Cardinality(Pred) = Cardinality(UpTo(x)) - 1 /\ IsFiniteSet(Pred)
      BY <2>1, FS_RemoveElement
    <2> QED BY <2>2, PositionRange
  <1>4. CASE Pred = {}
    <2>1. Position(x) = 1
      BY <1>3, <1>4, FS_EmptySet, PositionRange
    <2> QED BY <1>1, <2>1
  <1>5. CASE Pred # {}
    <2> DEFINE Depth == {Cardinality(Window) - Position(y) : y \in Pred}
    <2>1. Depth \in SUBSET Nat /\ Depth # {}
      BY <1>2, <1>5, PositionRange, WindowFinite
    <2>2. PICK y \in Pred : \A z \in Pred :
              Cardinality(Window) - Position(y) <= Cardinality(Window) - Position(z)
      <3>1. PICK d \in Depth : \A d2 \in Depth : d <= d2
        BY <2>1, LeastNatural
      <3> QED BY <3>1
    <2>3. \A z \in Pred : Position(z) <= Position(y)
      <3> SUFFICES ASSUME NEW z \in Pred PROVE Position(z) <= Position(y)
        OBVIOUS
      <3>1. Position(z) \in Nat /\ Position(y) \in Nat /\ Cardinality(Window) \in Nat
        BY <1>2, PositionRange, WindowFinite
      <3> QED BY <2>2, <3>1
    <2>4. UpTo(y) = Pred
      <3>1. \A z \in Pred : z = y \/ Before(z, y)
        <4> SUFFICES ASSUME NEW z \in Pred, z # y, ~Before(z, y) PROVE FALSE
          OBVIOUS
        <4>1. Before(y, z)
          BY <1>2, WindowFinite, BeforeIsOrder
        <4>2. Position(y) < Position(z)
          BY <1>2, <4>1, PositionOrder
        <4> QED BY <1>2, <2>3, <4>2, PositionRange
      <3>2. \A z \in Window : Before(z, y) => Before(z, x)
        BY <1>2, WindowFinite, BeforeIsOrder
      <3> QED BY <1>2, <3>1, <3>2 DEF UpTo
    <2>5. Position(y) = Position(x) - 1 /\ y \in Window
      BY <1>2, <1>3, <2>4, PositionRange
    <2>6. Position(y) <= k
      <3>1. Position(y) \in Nat /\ Position(x) \in Nat
        BY <2>5, PositionRange
      <3> QED BY <1>1, <2>5, <3>1
    <2>7. Position(x) \in Nat
      BY PositionRange
    <2> QED BY <1>1, <2>5, <2>6, <2>7
  <1> QED BY <1>4, <1>5

LEMMA PageBounds ==
    ASSUME page \in Nat \ {0}
    PROVE  /\ (page - 1) * PageSize \in Nat /\ page * PageSize \in Nat
           /\ page * PageSize = (page - 1) * PageSize + PageSize
           /\ PageSize \in Nat \ {0} /\ Reached \in Nat
  <1>1. PageSize \in Nat \ {0}
    BY BoundsAssumption
  <1>2. \A a, b \in Nat : a * b \in Nat
    OBVIOUS
  <1>3. page - 1 \in Nat
    OBVIOUS
  <1>4. page * PageSize = (page - 1) * PageSize + PageSize
    BY <1>1, <1>3
  <1>5. (page - 1) * PageSize \in Nat /\ page * PageSize \in Nat
    BY <1>1, <1>2, <1>3
  <1> QED BY <1>1, <1>4, <1>5 DEF Reached

\* A page that is empty is past the last item.
LEMMA PageDense ==
    ASSUME changed \in [Items -> Nat], page \in Nat \ {0},
           NEW y \in Window, (page - 1) * PageSize < Position(y)
    PROVE  Page # {}
  <1>1. PICK x \in Window : Position(x) = (page - 1) * PageSize + 1
    BY PageBounds, PositionDense
  <1>2. x \in Page
    BY <1>1, PageBounds DEF Page
  <1> QED BY <1>2

LEMMA PageFinite == Page \subseteq Items /\ IsFiniteSet({<<changed[x], x>> : x \in Page})
  <1>1. Page \in SUBSET Items
    BY DEF Page, Window
  <1>2. IsFiniteSet(Page)
    BY <1>1, ItemsAssumption, FS_Subset
  <1> DEFINE Rows == {<<changed[x], x>> : x \in Page}
  <1>3. [x \in Page |-> <<changed[x], x>>] \in Surjection(Page, Rows)
    BY DEF Surjection
  <1> QED BY <1>1, <1>2, <1>3, FS_Surjection

\* A page that is not the last is full.
LEMMA PageFull ==
    ASSUME changed \in [Items -> Nat], page \in Nat \ {0},
           NEW y \in Window, page * PageSize < Position(y)
    PROVE  PageSize <= Cardinality({<<changed[x], x>> : x \in Page})
  <1> DEFINE At(i) == CHOOSE x \in Window : Position(x) = (page - 1) * PageSize + i
             Rows == {<<changed[x], x>> : x \in Page}
             f == [i \in 1..PageSize |-> <<changed[At(i)], At(i)>>]
  <1>1. ASSUME NEW i \in 1..PageSize
        PROVE  At(i) \in Page /\ Position(At(i)) = (page - 1) * PageSize + i
    <2>1. (page - 1) * PageSize + (i - 1) < Position(y) /\ (page - 1) * PageSize + (i - 1) \in Nat
      BY PageBounds, PositionRange
    <2>2. \E x \in Window : Position(x) = (page - 1) * PageSize + (i - 1) + 1
      BY <2>1, PositionDense
    <2>3. \E x \in Window : Position(x) = (page - 1) * PageSize + i
      BY <2>2, PageBounds
    <2>4. At(i) \in Window /\ Position(At(i)) = (page - 1) * PageSize + i
      BY <2>3
    <2> QED BY <2>4, PageBounds DEF Page
  <1>2. f \in Injection(1..PageSize, Rows)
    <2>1. f \in [1..PageSize -> Rows]
      BY <1>1
    <2>2. ASSUME NEW i \in 1..PageSize, NEW j \in 1..PageSize, f[i] = f[j] PROVE i = j
      <3> HIDE DEF At
      <3>1. At(i) = At(j)
        BY <2>2
      <3>2. (page - 1) * PageSize + i = (page - 1) * PageSize + j
        BY <1>1, <3>1
      <3> QED BY <3>2, PageBounds
    <2> QED BY <2>1, <2>2 DEF Injection, IsInjective
  <1>3. IsFiniteSet(Rows)
    BY PageFinite
  <1>4. Cardinality(1..PageSize) <= Cardinality(Rows)
    BY <1>2, <1>3, FS_Injection
  <1>5. Cardinality(1..PageSize) = PageSize
    BY FS_Interval, PageBounds
  <1> QED BY <1>4, <1>5

-----------------------------------------------------------------------------
(* The steps of a run, as the invariants see them.                         *)
LEMMA OldestPick ==
    ASSUME todo \in SUBSET (Nat \X Items), todo # {}
    PROVE  /\ Oldest \in todo /\ Oldest = <<Oldest[1], Oldest[2]>>
           /\ Oldest[1] \in Nat /\ Oldest[2] \in Items
           /\ \A t \in todo : Oldest[1] <= t[1]
  <1> DEFINE Times1 == {t[1] : t \in todo}
  <1>1. PICK a \in Times1 : \A b \in Times1 : a <= b
    <2>1. Times1 \in SUBSET Nat /\ Times1 # {}
      OBVIOUS
    <2> QED BY <2>1, LeastNatural
  <1> DEFINE Items2 == {t[2] : t \in {t \in todo : t[1] = a}}
  <1>2. PICK x \in Items2 : \A y \in Items2 : x <= y
    <2>1. Items2 \in SUBSET Nat /\ Items2 # {}
      BY ItemsAssumption
    <2> QED BY <2>1, LeastNatural
  <1>3. PICK t \in todo : t[1] = a /\ t[2] = x
    OBVIOUS
  <1>4. \A u \in todo : u[1] \in Nat /\ u[2] \in Nat
    BY ItemsAssumption
  <1>5. \A u \in todo : t[1] < u[1] \/ (t[1] = u[1] /\ t[2] <= u[2])
    <2> SUFFICES ASSUME NEW u \in todo PROVE t[1] < u[1] \/ (t[1] = u[1] /\ t[2] <= u[2])
      OBVIOUS
    <2>1. t[1] <= u[1]
      BY <1>1, <1>3
    <2>2. u[1] = a => t[2] <= u[2]
      BY <1>2, <1>3
    <2> QED BY <1>3, <1>4, <2>1, <2>2
  <1>6. /\ Oldest \in todo
        /\ \A u \in todo : Oldest[1] < u[1] \/ (Oldest[1] = u[1] /\ Oldest[2] <= u[2])
    BY <1>5 DEF Oldest
  <1> QED BY <1>4, <1>6

\* While SHEIN and the interval stay, so does the list.
LEMMA ListFrame ==
    ASSUME changed' = changed, start' = start, end' = end
    PROVE  /\ Window' = Window /\ Early' = Early
           /\ \A x \in Items : Position(x)' = Position(x)
           /\ Reached' = Reached => Read' = Read
  <1>1. Window' = Window /\ Early' = Early
    BY DEF Window, Early
  <1>2. \A x \in Items : Position(x)' = Position(x)
    BY <1>1, Zenon DEF Position, Before
  <1> QED BY <1>1, <1>2 DEF Read, Early

LEMMA ReadFacts ==
    ASSUME TypeInv
    PROVE  Read \subseteq Early /\ Early \subseteq Window /\ Window \subseteq Items
  BY DEF Read, Early, Window, TypeInv

\* What changes leaves the early part of the list; what comes after it moves
\* up by one.
LEMMA ChangeMoves ==
    ASSUME StateInv, pc \in Pages, NEW x \in Items, Change(x)
    PROVE  /\ Early' = Early \ {x} /\ Reached' = Reached
           /\ \A y \in Early' :
                /\ Position(y)' \in Nat /\ Position(y) \in Nat
                /\ Position(y)' <= Position(y)
                /\ Position(y)' <= Reached => y \in Read \/ y \in slipped'
           /\ \A y \in Early' : y \in Read => y \in Read'
           /\ slipped \ {x} \subseteq slipped'
  <1> USE DEF StateInv, TypeInv, Times, Pages
  <1>1. /\ UNCHANGED <<pc, kind, start, end, page, records, todo, listed, total, now>>
        /\ changed' = [changed EXCEPT ![x] = now] /\ changed[x] < now
    BY DEF Change, run, plan, answers
  <1>2. /\ changed'[x] = now /\ \A y \in Items : y # x => changed'[y] = changed[y]
        /\ end <= now /\ start <= end /\ \A y \in Items : changed[y] \in Nat
    BY <1>1
  <1>3. Early' = Early \ {x}
    BY <1>1, <1>2 DEF Early
  <1>4. Reached' = Reached
    BY <1>1 DEF Reached
  <1>5. slipped' = IF x \in Window /\ Position(x) <= Reached
                   THEN (slipped \ {x}) \cup {y \in Window : Position(y) = Reached + 1}
                   ELSE slipped \ {x}
    BY DEF Change, Moved, Reading
  <1>6. ASSUME NEW y \in Early'
        PROVE  /\ y \in Early /\ y \in Window /\ y # x
               /\ Position(y) \in Nat
               /\ Position(y)' = IF x \in Window /\ Before(x, y) THEN Position(y) - 1
                                 ELSE Position(y)
    <2>1. y \in Early /\ y # x /\ y \in Window /\ Window \subseteq Items
      BY <1>3, ReadFacts
    <2>2. changed[y] < end /\ changed'[y] = changed[y] /\ changed[y] \in Nat
      BY <1>2, <2>1 DEF Early
    <2>3. {z \in Window' : z = y \/ Before(z, y)'} = UpTo(y) \ {x}
      <3>1. ASSUME NEW z \in Items, z # x
            PROVE  z \in Window' /\ (z = y \/ Before(z, y)') <=> z \in UpTo(y)
        BY <1>1, <1>2, <2>2, <3>1 DEF UpTo, Window, Before
      <3>2. ~Before(x, y)'
        BY <1>1, <1>2, <2>2 DEF Before
      <3>3. Window' \subseteq Items
        BY <1>1 DEF Window
      <3> QED BY <2>1, <3>1, <3>2, <3>3 DEF UpTo
    <2>4. Position(y)' = Cardinality(UpTo(y) \ {x})
      BY <2>3, Zenon DEF Position
    <2>5. Cardinality(UpTo(y) \ {x}) = IF x \in UpTo(y) THEN Cardinality(UpTo(y)) - 1
                                       ELSE Cardinality(UpTo(y))
      BY <2>1, PositionRange, FS_RemoveElement
    <2>6. Cardinality(UpTo(y)) = Position(y) /\ Position(y) \in Nat
      BY <2>1, PositionRange
    <2>7. x \in UpTo(y) <=> x \in Window /\ Before(x, y)
      BY <2>1 DEF UpTo
    <2> QED BY <2>1, <2>4, <2>5, <2>6, <2>7
  <1>7. ASSUME NEW y \in Early'
        PROVE  /\ Position(y)' \in Nat /\ Position(y)' <= Position(y)
               /\ Position(y)' <= Reached => y \in Read \/ y \in slipped'
               /\ y \in Read => y \in Read'
    <2>1. CASE x \in Window /\ Before(x, y)
      <3>1. Position(x) < Position(y) /\ Position(x) \in Nat /\ Position(y) \in Nat
        BY <1>6, <2>1, PositionOrder, PositionRange
      <3>2. Position(x) \in Nat /\ 0 < Position(x)
        BY <2>1, PositionRange
      <3>3. Position(y)' = Position(y) - 1
        BY <1>6, <2>1
      <3>4. Reached \in Nat
        BY PageBounds
      <3>5. Position(y)' \in Nat /\ Position(y)' <= Position(y)
        BY <3>1, <3>2, <3>3
      <3>6. Position(y)' <= Reached => y \in Read \/ y \in slipped'
        <4>1. CASE Position(y) <= Reached
          BY <4>1, <1>6 DEF Read
        <4>2. CASE Position(y) = Reached + 1
          <5>1. Position(x) <= Reached
            BY <3>1, <3>4, <4>2
          <5> QED BY <1>5, <1>6, <2>1, <4>2, <5>1
        <4> QED BY <3>1, <3>3, <3>4, <4>1, <4>2
      <3>7. y \in Read => Position(y)' <= Reached'
        BY <1>4, <3>1, <3>3, <3>4 DEF Read
      <3> QED BY <3>5, <3>6, <3>7 DEF Read
    <2>2. CASE ~(x \in Window /\ Before(x, y))
      <3>1. Position(y)' = Position(y)
        BY <1>6, <2>2
      <3> QED BY <1>4, <1>6, <3>1 DEF Read
    <2> QED BY <2>1, <2>2
  <1> QED BY <1>3, <1>4, <1>5, <1>6, <1>7

\* What follows the last item that is stored: the next one, the details of
\* the page, the next page, the details of all pages, or nothing.
GoesOn(o) ==
    pc' = pc /\ todo' = todo \ {o} /\ todo' # {} /\ UNCHANGED <<plan, answers>>
Turns ==
    /\ ~IsLastPage /\ pc' = "list" /\ page' = page + 1 /\ todo' = {}
    /\ UNCHANGED <<start, end, answers>>
Upserts == UpsertOrder \/ UpsertReturn \/ UpsertProduct

LEMMA UpsertEffect ==
    ASSUME StateInv, Upserts
    PROVE  /\ pc = "upsert" /\ Oldest \in todo /\ Oldest = <<Oldest[1], Oldest[2]>>
           /\ Oldest[1] \in Nat /\ Oldest[2] \in Items /\ \A t \in todo : Oldest[1] <= t[1]
           /\ UNCHANGED <<now, changed, detailed, undetailed, kind>>
           /\ stored' = [stored EXCEPT ![Oldest[2]] = Oldest[1]]
           /\ updated' = IF kind = "products" THEN updated
                         ELSE [updated EXCEPT ![Oldest[2]] = Oldest[1]]
           /\ seen' = IF kind = "products" THEN [seen EXCEPT ![Oldest[2]] = now] ELSE seen
           /\ slipped' = (IF Oldest[1] = changed[Oldest[2]] THEN slipped \ {Oldest[2]}
                          ELSE slipped)
                  \cup (Outrun(IF kind = "products" THEN now ELSE Oldest[1]) \ {Oldest[2]})
           /\ \/ GoesOn(Oldest)
              \/ /\ kind = "orders" /\ todo = {Oldest} /\ todo' = records /\ pc' = "detail"
                 /\ UNCHANGED <<plan, answers>>
              \/ kind # "orders" /\ todo = {Oldest} /\ Turns
              \/ kind # "orders" /\ todo = {Oldest} /\ IsLastPage /\ FetchDetails
              \/ kind = "products" /\ todo = {Oldest} /\ IsLastPage /\ EndRun
  <1>1. pc = "upsert" /\ todo # {} /\ todo \in SUBSET (Nat \X Items)
    BY DEF Upserts, UpsertOrder, UpsertReturn, UpsertProduct, UpsertEntry, StateInv, TypeInv, Shape
  <1>2. kind \in {"orders", "returns", "products"}
    BY KindsAssumption DEF StateInv, TypeInv
  <1>3. NextItem => GoesOn(Oldest)
    BY <1>1, OldestPick DEF NextItem, GoesOn
  <1>4. NextPage => \/ Turns \/ (IsLastPage /\ FetchDetails)
                    \/ (IsLastPage /\ kind # "returns" /\ EndRun)
    BY DEF NextPage, Turns
  <1> USE OldestPick, <1>1, <1>2, <1>3, <1>4
  <1>5. CASE UpsertOrder
    BY <1>5 DEF UpsertOrder, StoreEntry, shein
  <1>6. CASE UpsertReturn
    BY <1>6 DEF UpsertReturn, UpsertEntry, StoreEntry, shein
  <1>7. CASE UpsertProduct
    BY <1>7 DEF UpsertProduct, UpsertEntry, StoreEntry, shein
  <1> QED BY <1>5, <1>6, <1>7 DEF Upserts

\* The answer has the detail of an item, or leaves it out.
Answered(x) ==
    /\ detailed' = detailed \cup {x} /\ undetailed' = undetailed \ {x}
    /\ \/ kind = "orders" /\ UNCHANGED <<stored, updated, slipped>>
       \/ /\ kind = "returns"
          /\ stored' = [stored EXCEPT ![x] = changed[x]]
          /\ updated' = [updated EXCEPT ![x] = changed[x]]
          /\ slipped' = (slipped \cup Outrun(changed[x])) \ {x}
LeftOut(x) ==
    /\ detailed' \in {detailed, detailed \ {x}} /\ undetailed' = undetailed \cup {x}
    /\ UNCHANGED <<stored, updated, slipped>>

LEMMA DetailEffect ==
    ASSUME StateInv, UpdateOrderDetail \/ UpsertReturnDetail
    PROVE  /\ pc = "detail" /\ Oldest \in todo /\ Oldest = <<Oldest[1], Oldest[2]>>
           /\ Oldest[2] \in Items
           /\ UNCHANGED <<now, changed, seen, kind>>
           /\ Answered(Oldest[2]) \/ LeftOut(Oldest[2])
           /\ \/ GoesOn(Oldest)
              \/ kind = "orders" /\ todo = {Oldest} /\ Turns
              \/ kind = "orders" /\ todo = {Oldest} /\ IsLastPage /\ EndRun
              \/ kind = "returns" /\ todo = {Oldest} /\ EndRun
  <1>1. pc = "detail" /\ todo # {} /\ todo \in SUBSET (Nat \X Items)
    BY DEF UpdateOrderDetail, UpsertReturnDetail, StateInv, TypeInv, Shape
  <1>2. NextItem => GoesOn(Oldest)
    BY <1>1, OldestPick DEF NextItem, GoesOn
  <1>3. NextPage /\ kind = "orders" => Turns \/ (IsLastPage /\ EndRun)
    BY DEF NextPage, Turns, FetchDetails
  <1> USE OldestPick, <1>1, <1>2, <1>3
  <1>4. CASE UpdateOrderDetail
    <2>1. kind = "orders" /\ UNCHANGED <<now, changed, seen, kind>>
      BY <1>4 DEF UpdateOrderDetail, shein
    <2>2. Answered(Oldest[2]) \/ LeftOut(Oldest[2])
      BY <1>4 DEF UpdateOrderDetail, Answered, LeftOut
    <2>3. NextItem \/ (todo = {Oldest} /\ NextPage)
      BY <1>4 DEF UpdateOrderDetail
    <2> QED BY <2>1, <2>2, <2>3
  <1>5. CASE UpsertReturnDetail
    <2>1. kind = "returns" /\ UNCHANGED <<now, changed, seen, kind>>
      BY <1>5 DEF UpsertReturnDetail, shein
    <2>2. Answered(Oldest[2]) \/ LeftOut(Oldest[2])
      BY <1>5 DEF UpsertReturnDetail, Answered, LeftOut
    <2>3. NextItem \/ (todo = {Oldest} /\ EndRun)
      BY <1>5 DEF UpsertReturnDetail
    <2> QED BY <2>1, <2>2, <2>3
  <1> QED BY <1>4, <1>5

LEMMA ListEffect ==
    ASSUME StateInv, ListPage
    PROVE  /\ pc = "list"
           /\ UNCHANGED <<now, changed, stored, updated, detailed, seen, kind, slipped,
                          undetailed>>
           /\ \/ /\ Page # {} /\ pc' = "upsert"
                 /\ records' = {<<changed[x], x>> : x \in Page} /\ todo' = records'
                 /\ listed' = IF kind = "returns" THEN listed \cup Page ELSE listed
                 /\ \/ page = 1 /\ kind # "orders" /\ total' \in {0, Cardinality(Window)}
                    \/ ~(page = 1 /\ kind # "orders") /\ total' = total
                 /\ UNCHANGED plan
              \/ Page = {} /\ FetchDetails
              \/ Page = {} /\ (kind # "returns" \/ listed = {}) /\ EndRun
  BY DEF ListPage, shein, database, history

LEMMA PlanEffect ==
    ASSUME StateInv, Plan
    PROVE  /\ pc = "plan"
           /\ UNCHANGED <<now, changed, stored, updated, detailed, seen, kind, undetailed>>
           /\ slipped' = slipped \cup TooOld
           /\ \/ /\ ResolveStartTime(end) <= end
                 /\ start' = ResolveStartTime(end) /\ pc' = "list"
                 /\ UNCHANGED <<end, page, todo, answers>>
              \/ ResolveStartTime(end) > end /\ EndRun
  BY DEF Plan, shein, database

\* The newest of some times.
LEMMA LatestIsNewest ==
    ASSUME NEW f \in [Items -> Nat]
    PROVE  /\ Latest(f) \in Nat /\ \E z \in Items : Latest(f) = f[z]
           /\ \A z \in Items : f[z] <= Latest(f)
  <1> DEFINE V == {f[x] : x \in Items}
  <1>1. V \subseteq Nat
    OBVIOUS
  <1>2. Latest(f) = CHOOSE v \in V : \A x \in Items : f[x] <= v
    BY DEF Latest
  <1>3. \E v \in V : \A x \in Items : f[x] <= v
    <2>1. V # {} /\ IsFiniteSet(V)
      <3>1. f \in Surjection(Items, V)
        BY DEF Surjection
      <3> QED BY <3>1, ItemsAssumption, FS_Surjection
    <2> DEFINE Above(v) == {u \in V : v < u}
               N == {Cardinality(Above(v)) : v \in V}
    <2>2. N \in SUBSET Nat /\ N # {}
      <3>1. \A v \in V : Cardinality(Above(v)) \in Nat
        BY <2>1, FS_Subset, FS_CardinalityType
      <3> QED BY <2>1, <3>1
    <2>3. PICK v \in V : \A u \in V : Cardinality(Above(v)) <= Cardinality(Above(u))
      <3>1. PICK n \in N : \A m \in N : n <= m
        BY <2>2, LeastNatural
      <3> HIDE DEF Above
      <3> QED BY <3>1
    <2>4. Above(v) = {}
      <3> SUFFICES ASSUME NEW u \in V, v < u PROVE FALSE
        OBVIOUS
      <3>1. Above(u) \in SUBSET Above(v) /\ u \in Above(v) /\ u \notin Above(u)
        BY <1>1
      <3>2. IsFiniteSet(Above(v)) /\ IsFiniteSet(Above(u))
        BY <2>1, FS_Subset
      <3>3. /\ Cardinality(Above(v)) \in Nat /\ Cardinality(Above(u)) \in Nat
            /\ Cardinality(Above(u)) <= Cardinality(Above(v))
            /\ Cardinality(Above(u)) # Cardinality(Above(v))
        BY <3>1, <3>2, FS_Subset, FS_CardinalityType
      <3>4. Cardinality(Above(v)) <= Cardinality(Above(u))
        BY <2>3, Zenon
      <3> HIDE DEF Above
      <3> QED BY <3>3, <3>4
    <2>5. \A x \in Items : f[x] <= v
      BY <1>1, <2>4
    <2> QED BY <2>5
  <1>4. Latest(f) \in V /\ \A x \in Items : f[x] <= Latest(f)
    BY <1>2, <1>3
  <1> QED BY <1>1, <1>4

LEMMA CursorIsNewest ==
    ASSUME TypeInv
    PROVE  /\ Cursor \in Nat /\ \E z \in Items : Cursor = Mark[z]
           /\ \A z \in Items : Mark[z] \in Nat /\ Mark[z] <= Cursor
           /\ ResolveStartTime(end) \in Int
           /\ Cursor # 0 => ResolveStartTime(end) = Cursor - Overlap
  <1>1. Mark \in [Items -> Nat] /\ seen \in [Items -> Nat] /\ Overlap \in Nat
        /\ Fallback \in Nat /\ end \in Nat
    BY BoundsAssumption DEF Mark, TypeInv
  <1>2. Cursor = Latest(Mark)
    BY DEF Cursor, Mark
  <1>3. Cursor \in Nat /\ Latest(seen) \in Nat
    BY <1>1, <1>2, LatestIsNewest
  <1>4. /\ \E z \in Items : Cursor = Mark[z]
        /\ \A z \in Items : Mark[z] \in Nat /\ Mark[z] <= Cursor
    BY <1>1, <1>2, LatestIsNewest
  <1>5. Progress \in Nat /\ (Cursor # 0 => Progress = Cursor)
    BY <1>3 DEF Progress
  <1>6. /\ ResolveStartTime(end) \in Int
        /\ Cursor # 0 => ResolveStartTime(end) = Cursor - Overlap
    BY <1>1, <1>5 DEF ResolveStartTime
  <1> QED BY <1>3, <1>4, <1>6

\* What the server stores leaves the run alone, and keeps what is kept.
LEMMA SnapshotEffect ==
    ASSUME StateInv, NEW x \in Items, StoreSnapshot(x)
    PROVE  /\ kind = "orders" /\ UNCHANGED <<now, changed, updated>>
           /\ UNCHANGED <<pc, kind, start, end, page, records, todo, listed, total>>
           /\ stored' \in [Items -> Nat] /\ seen' \in [Items -> Nat]
           /\ detailed' \in SUBSET Items /\ slipped' \in SUBSET Items
           /\ undetailed' \in SUBSET Items
           /\ \A y \in Items : /\ stored'[y] <= changed[y]
                               /\ EntryKept(y) => EntryKept(y)'
                               /\ DetailKept(y) => DetailKept(y)'
  <1> USE DEF StateInv, TypeInv, Times
  <1>1. /\ kind = "orders" /\ UNCHANGED <<now, changed, updated>>
        /\ UNCHANGED <<pc, kind, start, end, page, records, todo, listed, total>>
        /\ seen' = [seen EXCEPT ![x] = now]
    BY DEF StoreSnapshot, shein, run, plan, answers
  <1> DEFINE outdated(v) == {y \in {x} : v # changed[x]}
  <1>2. PICK v \in 1..changed[x] :
          /\ \/ /\ stored' = [stored EXCEPT ![x] = v]
                /\ slipped' = (slipped \ {x}) \cup outdated(v)
             \/ stored[x] # 0 /\ UNCHANGED <<stored, slipped>>
          /\ detailed' = (detailed \cup {x}) \ outdated(v)
          /\ undetailed' = (undetailed \ {x}) \cup outdated(v)
    BY DEF StoreSnapshot
  <1>3. v \in Nat /\ v <= changed[x] /\ changed[x] \in Nat
    OBVIOUS
  <1>4. /\ stored' \in [Items -> Nat] /\ detailed' \in SUBSET Items
        /\ slipped' \in SUBSET Items /\ undetailed' \in SUBSET Items
        /\ seen' \in [Items -> Nat]
    BY <1>1, <1>2, <1>3
  <1>5. ASSUME NEW y \in Items
        PROVE  stored'[y] <= changed[y] /\ (EntryKept(y) => EntryKept(y)')
    BY <1>1, <1>2, <1>3 DEF EntryKept
  <1>6. ASSUME NEW y \in Items, DetailKept(y) PROVE DetailKept(y)'
    <2>1. y \in detailed \cup slipped \cup undetailed
      BY <1>1, <1>6 DEF DetailKept
    <2>2. CASE y = x
      BY <1>1, <1>2, <2>2 DEF DetailKept
    <2>3. CASE y # x
      BY <1>1, <1>2, <2>1, <2>3 DEF DetailKept
    <2> QED BY <2>2, <2>3
  <1> QED BY <1>1, <1>4, <1>5, <1>6

-----------------------------------------------------------------------------
(* The types, the stages of a run, the times and what is to be stored.     *)
Steps ==
    \/ Tick \/ (\E x \in Items : Change(x)) \/ (\E x \in Items : StoreSnapshot(x))
    \/ StartRun \/ Plan \/ ListPage
    \/ Upserts \/ UpdateOrderDetail \/ UpsertReturnDetail \/ Stop \/ UNCHANGED vars

LEMMA NextSteps == [Next]_vars => Steps
  BY DEF Next, Steps, Upserts

LEMMA Bounds == PageSize \in Nat \ {0} /\ Overlap \in Nat /\ Fallback \in Nat
  BY BoundsAssumption

LEMMA TypeStep ==
    ASSUME StateInv, Steps
    PROVE  TypeInv'
  <1>1. TypeInv /\ Shape /\ kind \in {"orders", "returns", "products"}
    BY KindsAssumption DEF StateInv, TypeInv
  <1> USE DEF TypeInv, Pages
  <1>2. ASSUME EndRun, UNCHANGED <<now, changed, stored, updated, detailed, seen, kind>>,
               slipped' \in SUBSET Items, undetailed' \in SUBSET Items
        PROVE  TypeInv'
    BY <1>1, <1>2, FS_EmptySet DEF EndRun
  <1>3. FetchDetails => /\ pc' = "detail" /\ todo' \in SUBSET (Nat \X Items)
                        /\ UNCHANGED <<start, end, page, records, listed, total>>
    BY <1>1 DEF FetchDetails, plan, answers
  <1>4. CASE Tick
    BY <1>1, <1>4 DEF Tick, database, history, run, plan, answers
  <1>5. CASE \E x \in Items : Change(x)
    <2>1. PICK x \in Items : Change(x)
      BY <1>5
    <2>2. Moved(x) \subseteq Items
      BY DEF Moved, Window
    <2>3. /\ slipped' \in SUBSET Items /\ detailed' \in SUBSET Items
          /\ undetailed' \in SUBSET Items /\ changed' \in [Items -> Nat]
      BY <1>1, <2>1, <2>2 DEF Change
    <2> QED BY <1>1, <2>1, <2>3 DEF Change, run, plan, answers
  <1>6. CASE StartRun
    BY <1>1, <1>6 DEF StartRun, shein, database, history, answers
  <1>7. CASE Plan
    <2>1. slipped' \in SUBSET Items /\ undetailed' \in SUBSET Items
      BY <1>1, <1>7, PlanEffect DEF TooOld
    <2>2. ResolveStartTime(end) \in Int
      BY <1>1, CursorIsNewest
    <2> QED BY <1>1, <1>2, <1>7, <2>1, <2>2, PlanEffect DEF answers
  <1>8. CASE ListPage
    <2>1. CASE EndRun
      BY <1>1, <1>2, <1>8, <2>1, ListEffect
    <2>2. CASE FetchDetails
      BY <1>1, <1>3, <1>8, <2>2, ListEffect
    <2>3. CASE pc' = "upsert"
      <3>1. {<<changed[x], x>> : x \in Page} \in SUBSET (Nat \X Items)
        BY <1>1, PageFinite
      <3>2. /\ records' = {<<changed[x], x>> : x \in Page} /\ todo' = records'
            /\ listed' \in SUBSET Items /\ total' \in Nat /\ UNCHANGED plan
        BY <1>1, <1>8, <2>3, ListEffect, PageFinite, WindowFinite DEF EndRun, FetchDetails
      <3> QED BY <1>1, <1>8, <2>3, <3>1, <3>2, ListEffect, PageFinite DEF plan
    <2> QED BY <1>8, <2>1, <2>2, <2>3, ListEffect
  <1>9. CASE Upserts
    <2>1. /\ stored' \in [Items -> Nat] /\ seen' \in [Items -> Nat]
          /\ updated' \in [Items -> Nat]
      BY <1>1, <1>9, UpsertEffect
    <2>7. slipped' \in SUBSET Items /\ UNCHANGED <<now, changed, detailed, undetailed, kind>>
      BY <1>1, <1>9, UpsertEffect DEF Outrun
    <2>2. CASE GoesOn(Oldest)
      BY <1>1, <1>9, <2>1, <2>2, <2>7 DEF GoesOn, plan, answers
    <2>3. CASE todo' = records /\ pc' = "detail" /\ UNCHANGED <<plan, answers>>
      BY <1>1, <1>9, <2>1, <2>3, <2>7 DEF plan, answers
    <2>4. CASE Turns
      BY <1>1, <1>9, <2>1, <2>4, <2>7 DEF Turns, answers
    <2>5. CASE FetchDetails
      BY <1>1, <1>3, <1>9, <2>1, <2>5, <2>7
    <2>6. CASE EndRun
      BY <1>1, <1>9, <2>1, <2>6, <2>7, FS_EmptySet DEF EndRun
    <2> QED BY <1>9, <2>2, <2>3, <2>4, <2>5, <2>6, UpsertEffect
  <1>10. CASE UpdateOrderDetail \/ UpsertReturnDetail
    <2>1. /\ stored' \in [Items -> Nat] /\ updated' \in [Items -> Nat]
          /\ slipped' \in SUBSET Items /\ undetailed' \in SUBSET Items
          /\ detailed' \in SUBSET Items /\ UNCHANGED <<now, changed, seen, kind>>
      <3>1. Oldest[2] \in Items /\ UNCHANGED <<now, changed, seen, kind>>
        BY <1>1, <1>10, DetailEffect
      <3>2. CASE Answered(Oldest[2])
        BY <1>1, <3>1, <3>2 DEF Answered, Outrun
      <3>3. CASE LeftOut(Oldest[2])
        BY <1>1, <3>1, <3>3 DEF LeftOut
      <3> QED BY <1>10, <3>1, <3>2, <3>3, DetailEffect
    <2>2. CASE GoesOn(Oldest)
      BY <1>1, <2>1, <2>2 DEF GoesOn, plan, answers
    <2>3. CASE Turns
      BY <1>1, <2>1, <2>3 DEF Turns, answers
    <2>4. CASE EndRun
      BY <1>1, <2>1, <2>4, FS_EmptySet DEF EndRun
    <2> QED BY <1>10, <2>2, <2>3, <2>4, DetailEffect
  <1>11. CASE Stop
    <2>1. slipped' \in SUBSET Items
      BY <1>1, <1>11 DEF Stop, Overtaken, Window
    <2>2. undetailed' \in SUBSET Items
      BY <1>1, <1>11 DEF Stop, Unfinished, ItemsOf
    <2> QED BY <1>2, <1>11, <2>1, <2>2 DEF Stop, shein, database
  <1>12. CASE UNCHANGED vars
    BY <1>1, <1>12 DEF vars, shein, database, history, run, plan, answers
  <1>13. CASE \E x \in Items : StoreSnapshot(x)
    <2>1. PICK x \in Items : StoreSnapshot(x)
      BY <1>13
    <2> QED BY <1>1, <2>1, SnapshotEffect
  <1> QED BY <1>13, <1>4, <1>5, <1>6, <1>7, <1>8, <1>9, <1>10, <1>11, <1>12 DEF Steps

LEMMA ShapeStep ==
    ASSUME StateInv, Steps
    PROVE  Shape'
  <1>1. TypeInv /\ Shape /\ kind \in {"orders", "returns", "products"}
    BY KindsAssumption DEF StateInv, TypeInv
  <1> USE DEF Shape, Pages, ItemsOf
  <1>2. EndRun => Shape' \/ (kind = "orders" /\ total' # 0)
    BY <1>1 DEF EndRun
  <1>3. EndRun => Shape'
    BY <1>1, <1>2 DEF EndRun
  <1>4. FetchDetails /\ kind' = kind => Shape'
    <2> SUFFICES ASSUME FetchDetails, kind' = kind PROVE Shape'
      OBVIOUS
    <2>1. pc' = "detail" /\ kind = "returns" /\ listed' = listed /\ listed # {}
      BY DEF FetchDetails, answers
    <2>2. todo' = {<<0, x>> : x \in listed}
      BY DEF FetchDetails
    <2>3. \A t \in todo' : t[2] \in listed
      <3> TAKE t \in todo'
      <3>1. PICK x \in listed : t = <<0, x>>
        BY <2>2
      <3> QED BY <3>1
    <2>4. todo' # {}
      <3>1. PICK x : x \in listed
        BY <2>1
      <3>2. <<0, x>> \in todo'
        BY <2>2, <3>1
      <3> QED BY <3>2
    <2> QED BY <2>1, <2>3, <2>4
  <1>5. CASE Tick
    BY <1>1, <1>5 DEF Tick, database, run, plan, answers
  <1>6. CASE \E x \in Items : Change(x)
    BY <1>1, <1>6 DEF Change, run, plan, answers
  <1>7. CASE StartRun
    BY <1>1, <1>7 DEF StartRun, shein, database, answers
  <1>8. CASE Plan
    BY <1>1, <1>3, <1>8, PlanEffect DEF answers
  <1>9. CASE ListPage
    <2>1. CASE EndRun
      BY <1>3, <2>1
    <2>2. CASE FetchDetails
      BY <1>4, <1>9, <2>2, ListEffect
    <2>3. CASE pc' = "upsert"
      <3>1. /\ Page # {} /\ records' = {<<changed[x], x>> : x \in Page} /\ todo' = records'
            /\ listed' = IF kind = "returns" THEN listed \cup Page ELSE listed
            /\ kind' = kind /\ (kind = "orders" => total' = total)
        BY <1>1, <1>9, <2>3, ListEffect DEF EndRun, FetchDetails
      <3>2. \A t \in records' : t[2] \in Page
        <4> TAKE t \in records'
        <4>1. PICK x \in Page : t = <<changed[x], x>>
          BY <3>1
        <4> QED BY <4>1
      <3>3. records' # {}
        <4>1. PICK x : x \in Page
          BY <3>1
        <4>2. <<changed[x], x>> \in records'
          BY <3>1, <4>1
        <4> QED BY <4>2
      <3> QED BY <1>1, <2>3, <3>1, <3>2, <3>3
    <2> QED BY <1>9, <2>1, <2>2, <2>3, ListEffect
  <1>10. CASE Upserts
    <2>1. CASE GoesOn(Oldest)
      BY <1>1, <1>10, <2>1, UpsertEffect DEF GoesOn, plan, answers
    <2>2. CASE kind = "orders" /\ todo' = records /\ pc' = "detail" /\ UNCHANGED <<plan, answers>>
      BY <1>1, <1>10, <2>2, UpsertEffect DEF plan, answers
    <2>3. CASE Turns
      BY <1>1, <1>10, <2>3, UpsertEffect DEF Turns, answers, StateInv, TypeInv
    <2> QED BY <1>3, <1>4, <1>10, <2>1, <2>2, <2>3, UpsertEffect
  <1>11. CASE UpdateOrderDetail \/ UpsertReturnDetail
    <2>1. CASE GoesOn(Oldest)
      BY <1>1, <1>11, <2>1, DetailEffect DEF GoesOn, plan, answers
    <2>2. CASE Turns
      BY <1>1, <1>11, <2>2, DetailEffect DEF Turns, answers, StateInv, TypeInv
    <2> QED BY <1>3, <1>11, <2>1, <2>2, DetailEffect
  <1>12. CASE Stop
    BY <1>3, <1>12 DEF Stop
  <1>13. CASE UNCHANGED vars
    BY <1>1, <1>13 DEF vars, shein, database, run, plan, answers
  <1>14. CASE \E x \in Items : StoreSnapshot(x)
    BY <1>1, <1>14, SnapshotEffect
  <1> QED BY <1>14, <1>5, <1>6, <1>7, <1>8, <1>9, <1>10, <1>11, <1>12, <1>13 DEF Steps

LEMMA TimesStep ==
    ASSUME StateInv, Steps
    PROVE  Times'
  <1>1. /\ TypeInv /\ Times /\ Fresh /\ kind \in {"orders", "returns", "products"}
        /\ Overlap \in Nat /\ Fallback \in Nat
    BY KindsAssumption, Bounds DEF StateInv, TypeInv
  <1> USE DEF Times, TypeInv, Pages, Mark
  <1>2. ASSUME EndRun, UNCHANGED <<now, changed, stored, updated, seen, kind>> PROVE Times'
    BY <1>1, <1>2 DEF EndRun
  <1>3. FetchDetails => pc' = "detail" /\ UNCHANGED <<start, end>>
    BY DEF FetchDetails, plan
  <1>4. CASE Tick
    BY <1>1, <1>4 DEF Tick, database, run, plan
  <1>5. CASE \E x \in Items : Change(x)
    BY <1>1, <1>5 DEF Change, run, plan
  <1>6. CASE StartRun
    BY <1>1, <1>6 DEF StartRun, shein, database
  <1>7. CASE Plan
    BY <1>1, <1>2, <1>7, PlanEffect
  <1>8. CASE ListPage
    <2>1. CASE EndRun
      BY <1>2, <1>8, <2>1, ListEffect
    <2>2. CASE ~EndRun
      <3>1. /\ UNCHANGED <<now, changed, stored, updated, seen, kind, start, end>>
            /\ pc = "list" /\ pc' \in {"upsert", "detail"}
        BY <1>3, <1>8, <2>2, ListEffect DEF plan
      <3> QED BY <1>1, <3>1
    <2> QED BY <2>1, <2>2
  <1>9. CASE Upserts
    <2>1. /\ \A x \in Items : /\ changed[x] <= now /\ stored'[x] <= changed[x]
                              /\ updated'[x] <= changed[x] /\ Mark'[x] <= now
                              /\ kind # "products" => updated'[x] <= end
          /\ UNCHANGED <<now, changed, kind>>
      <3>1. /\ Oldest \in todo /\ Oldest[2] \in Items /\ pc = "upsert"
            /\ UNCHANGED <<now, changed, kind>>
            /\ Oldest[1] <= changed[Oldest[2]] /\ Oldest[1] <= end
        BY <1>1, <1>9, UpsertEffect DEF Fresh
      <3>2. /\ stored' = [stored EXCEPT ![Oldest[2]] = Oldest[1]]
            /\ updated' = IF kind = "products" THEN updated
                          ELSE [updated EXCEPT ![Oldest[2]] = Oldest[1]]
            /\ seen' = IF kind = "products" THEN [seen EXCEPT ![Oldest[2]] = now] ELSE seen
            /\ Oldest[1] \in Nat
        BY <1>1, <1>9, UpsertEffect
      <3>3. changed[Oldest[2]] <= now /\ changed[Oldest[2]] \in Nat /\ end \in Nat
        BY <1>1, <3>1
      <3>4. CASE kind = "products"
        BY <1>1, <3>1, <3>2, <3>3, <3>4
      <3>5. CASE kind # "products"
        BY <1>1, <3>1, <3>2, <3>3, <3>5
      <3> QED BY <3>4, <3>5
    <2>2. (pc' \in {"upsert", "detail", "list"} /\ UNCHANGED <<start, end>>) \/ pc' = "idle"
      BY <1>3, <1>9, UpsertEffect DEF GoesOn, Turns, plan, EndRun
    <2>3. pc = "upsert"
      BY <1>9, UpsertEffect
    <2> QED BY <1>1, <2>1, <2>2, <2>3
  <1>10. CASE UpdateOrderDetail \/ UpsertReturnDetail
    <2>1. /\ \A x \in Items : /\ changed[x] <= now /\ stored'[x] <= changed[x]
                              /\ updated'[x] <= changed[x] /\ Mark'[x] <= now
          /\ UNCHANGED <<now, changed, kind>> /\ (kind = "orders" => updated' = updated)
      <3>1. Oldest[2] \in Items /\ UNCHANGED <<now, changed, seen, kind>>
        BY <1>1, <1>10, DetailEffect
      <3>2. CASE Answered(Oldest[2])
        BY <1>1, <3>1, <3>2 DEF Answered
      <3>3. CASE LeftOut(Oldest[2])
        BY <1>1, <3>1, <3>3 DEF LeftOut
      <3> QED BY <1>10, <3>2, <3>3, DetailEffect
    <2>2. \/ pc' = "detail" /\ UNCHANGED <<start, end>>
          \/ kind = "orders" /\ pc' = "list" /\ UNCHANGED <<start, end>>
          \/ pc' = "idle"
      BY <1>10, DetailEffect DEF GoesOn, Turns, plan, EndRun
    <2>3. pc = "detail" /\ kind \in {"orders", "returns"}
      BY <1>10, DetailEffect DEF StateInv, Shape
    <2> QED BY <1>1, <2>1, <2>2, <2>3
  <1>11. CASE Stop
    BY <1>2, <1>11 DEF Stop, shein, database
  <1>12. CASE UNCHANGED vars
    BY <1>1, <1>12 DEF vars, shein, database, run, plan
  <1>13. CASE \E x \in Items : StoreSnapshot(x)
    <2>1. PICK x \in Items : StoreSnapshot(x)
      BY <1>13
    <2>2. /\ kind = "orders"
          /\ UNCHANGED <<now, changed, updated, pc, kind, start, end>>
          /\ \A y \in Items : stored'[y] <= changed[y]
      BY <2>1, SnapshotEffect
    <2> QED BY <1>1, <2>2
  <1> QED BY <1>4, <1>5, <1>6, <1>7, <1>8, <1>9, <1>10, <1>11, <1>12, <1>13 DEF Steps

LEMMA FreshStep ==
    ASSUME StateInv, Steps
    PROVE  Fresh'
  <1>1. /\ TypeInv /\ Shape /\ Times /\ Fresh
        /\ kind \in {"orders", "returns", "products"}
    BY KindsAssumption DEF StateInv, TypeInv
  <1>2. /\ todo \in SUBSET (Nat \X Items) /\ records \in SUBSET (Nat \X Items)
        /\ \A t \in todo \cup records : t[1] \in Nat /\ t[2] \in Items
        /\ start \in Int /\ end \in Nat /\ now \in Nat
        /\ \A x \in Items : changed[x] \in Nat /\ stored[x] \in Nat
    BY <1>1 DEF TypeInv
  <1> USE DEF Fresh
  <1>3. ASSUME pc' # "upsert", UNCHANGED <<stored, changed, kind>>
        PROVE  Fresh'
    BY <1>1, <1>3
  <1>4. ASSUME FetchDetails, UNCHANGED <<stored, changed, kind>> PROVE Fresh'
    BY <1>3, <1>4 DEF FetchDetails
  <1>5. CASE Tick
    BY <1>1, <1>5 DEF Tick, database, run, plan, answers
  <1>6. CASE \E x \in Items : Change(x)
    <2>1. PICK x \in Items : Change(x)
      BY <1>6
    <2>2. /\ UNCHANGED <<pc, kind, start, end, records, todo, stored>>
          /\ changed' = [changed EXCEPT ![x] = now] /\ changed[x] < now
          /\ kind = "products" => changed[x] = 0
      BY <2>1 DEF Change, run, plan, answers
    <2>3. /\ changed'[x] = now /\ \A y \in Items : y # x => changed'[y] = changed[y]
      BY <1>1, <2>2 DEF TypeInv
    <2>4. pc # "idle" => end <= now
      BY <1>1 DEF Times
    <2>6. pc = "upsert" => \A t \in todo :
              /\ start <= t[1] /\ t[1] <= end /\ t[1] # 0 /\ t[1] <= changed'[t[2]]
              /\ t[1] = changed'[t[2]] \/ (kind # "products" /\ end <= changed'[t[2]])
      BY <1>1, <1>2, <2>2, <2>3, <2>4
    <2>8. kind = "products" => \A y \in Items : stored[y] \in {0, changed'[y]}
      BY <1>1, <2>2, <2>3
    <2> QED BY <2>2, <2>6, <2>8
  <1>7. CASE StartRun
    BY <1>3, <1>7 DEF StartRun, shein, database
  <1>8. CASE Plan
    BY <1>3, <1>8, PlanEffect DEF EndRun
  <1>9. CASE ListPage
    <2>1. CASE EndRun
      BY <1>3, <1>9, <2>1, ListEffect DEF EndRun
    <2>2. CASE FetchDetails
      BY <1>4, <1>9, <2>2, ListEffect
    <2>3. CASE pc' = "upsert"
      <3>1. /\ records' = {<<changed[x], x>> : x \in Page} /\ todo' = records'
            /\ UNCHANGED <<start, end, changed, stored, kind>>
        BY <1>9, <2>3, ListEffect DEF EndRun, FetchDetails, plan
      <3>2. \A t \in records' :
                /\ start <= t[1] /\ t[1] <= end /\ t[1] # 0 /\ t[1] = changed[t[2]]
        <4> TAKE t \in records'
        <4>1. PICK x \in Page : t = <<changed[x], x>>
          BY <3>1
        <4>2. x \in Items /\ start <= changed[x] /\ changed[x] <= end /\ changed[x] # 0
          BY <4>1 DEF Page, Window
        <4> QED BY <4>1, <4>2
      <3>3. \A t \in records' : t[1] <= changed[t[2]]
        BY <1>2, <3>1, <3>2, PageFinite
      <3> QED BY <1>1, <2>3, <3>1, <3>2, <3>3
    <2> QED BY <1>9, <2>1, <2>2, <2>3, ListEffect
  <1>10. CASE Upserts
    <2> DEFINE o == Oldest
    <2>1. /\ pc = "upsert" /\ o \in todo /\ o[1] \in Nat /\ o[2] \in Items
          /\ \A t \in todo : o[1] <= t[1]
          /\ UNCHANGED <<changed, kind>>
          /\ stored'[o[2]] = o[1] /\ \A x \in Items : x # o[2] => stored'[x] = stored[x]
      BY <1>1, <1>10, UpsertEffect DEF TypeInv
    <2> HIDE DEF o
    <2>2. o[1] = changed[o[2]] \/ (kind # "products" /\ end <= changed[o[2]])
      BY <1>1, <2>1
    <2>3. kind = "products" => \A x \in Items : stored'[x] \in {0, changed[x]}
      BY <1>1, <2>1, <2>2
    <2>6. CASE GoesOn(o)
      <3>1. pc' = "upsert" /\ todo' = todo \ {o} /\ UNCHANGED <<start, end>>
        BY <2>1, <2>6 DEF GoesOn, plan
      <3> QED BY <1>1, <2>1, <2>3, <3>1
    <2>8. CASE pc' # "upsert"
      BY <2>1, <2>3, <2>8
    <2>9. Turns \/ FetchDetails \/ EndRun => pc' # "upsert"
      BY DEF Turns, FetchDetails, EndRun
    <2> QED BY <1>10, <2>6, <2>8, <2>9, UpsertEffect DEF o
  <1>11. CASE UpdateOrderDetail \/ UpsertReturnDetail
    <2>1. pc = "detail" /\ kind # "products" /\ pc' # "upsert" /\ UNCHANGED <<kind, changed>>
      BY <1>1, <1>11, DetailEffect DEF Shape, GoesOn, Turns, EndRun
    <2> QED BY <2>1
  <1>12. CASE Stop
    BY <1>3, <1>12 DEF Stop, EndRun, shein, database
  <1>13. CASE UNCHANGED vars
    BY <1>1, <1>13 DEF vars, shein, database, run, plan, answers
  <1>14. CASE \E x \in Items : StoreSnapshot(x)
    <2>1. kind = "orders" /\ UNCHANGED <<changed, pc, kind, start, end, todo>>
      BY <1>14, SnapshotEffect
    <2> QED BY <1>1, <2>1
  <1> QED BY <1>14, <1>5, <1>6, <1>7, <1>8, <1>9, <1>10, <1>11, <1>12, <1>13 DEF Steps

-----------------------------------------------------------------------------
(* What has been read, and what is not to be missed.                       *)
LEMMA StateFacts ==
    ASSUME StateInv
    PROVE  /\ now \in Nat /\ start \in Int /\ end \in Nat /\ page \in Nat \ {0} /\ total \in Nat
           /\ todo \in SUBSET (Nat \X Items) /\ records \in SUBSET (Nat \X Items)
           /\ \A t \in todo \cup records : t[1] \in Nat /\ t[2] \in Items
           /\ \A x \in Items : /\ changed[x] \in Nat /\ stored[x] \in Nat
                               /\ updated[x] \in Nat /\ Mark[x] \in Nat /\ Mark[x] <= now
           /\ changed \in [Items -> Nat]
           /\ kind \in {"orders", "returns", "products"}
           /\ Overlap \in Nat /\ Fallback \in Nat /\ PageSize \in Nat \ {0}
           /\ Reached \in Nat
           /\ Read \subseteq Early /\ Early \subseteq Window /\ Window \subseteq Items
           /\ \A y \in Early : Position(y) \in Nat /\ 0 < Position(y)
  BY KindsAssumption, Bounds, PageBounds, ReadFacts, PositionRange
     DEF StateInv, TypeInv, Times, Mark

\* While the run goes on with a page or turns to the next, as much of the
\* list has been read.
LEMMA ReadFrame ==
    ASSUME StateInv, pc' \in Pages, UNCHANGED <<changed, start, end>>,
           \/ page' = page /\ (pc = "list" <=> pc' = "list")
           \/ pc # "list" /\ page' = page + 1 /\ pc' = "list"
    PROVE  /\ Early' = Early /\ Read' = Read /\ Reached' = Reached
           /\ \A x \in Items : Position(x)' = Position(x)
  <1>1. Reached' = Reached
    <2>1. CASE page' = page /\ (pc = "list" <=> pc' = "list")
      BY <2>1 DEF Reached
    <2>2. CASE pc # "list" /\ page' = page + 1 /\ pc' = "list"
      <3>1. page' - 1 = page
        BY <2>2, StateFacts
      <3> QED BY <2>2, <3>1 DEF Reached
    <2> QED BY <2>1, <2>2
  <1> QED BY <1>1, ListFrame

LEMMA UpsertFrame ==
    ASSUME StateInv, Upserts, pc' \in Pages
    PROVE  /\ Early' = Early /\ Read' = Read /\ Reached' = Reached
           /\ \A x \in Items : Position(x)' = Position(x)
           /\ UNCHANGED <<changed, start, end, records, listed, total>>
  <1>1. pc = "upsert" /\ UNCHANGED changed
    BY UpsertEffect
  <1>2. UNCHANGED <<start, end, records, listed, total>>
    BY UpsertEffect DEF GoesOn, Turns, FetchDetails, EndRun, plan, answers, Pages
  <1>3. \/ page' = page /\ (pc = "list" <=> pc' = "list")
        \/ pc # "list" /\ page' = page + 1 /\ pc' = "list"
    BY <1>1, UpsertEffect DEF GoesOn, Turns, FetchDetails, EndRun, plan, Pages
  <1> QED BY <1>1, <1>2, <1>3, ReadFrame

LEMMA DetailFrame ==
    ASSUME StateInv, UpdateOrderDetail \/ UpsertReturnDetail, pc' \in Pages
    PROVE  /\ Early' = Early /\ Read' = Read /\ Reached' = Reached
           /\ \A x \in Items : Position(x)' = Position(x)
           /\ UNCHANGED <<changed, start, end, records, listed, total>>
           /\ GoesOn(Oldest) \/ (kind = "orders" /\ todo = {Oldest} /\ Turns)
  <1>1. pc = "detail" /\ UNCHANGED changed
    BY DetailEffect
  <1>2. /\ UNCHANGED <<start, end, records, listed, total>>
        /\ GoesOn(Oldest) \/ (kind = "orders" /\ todo = {Oldest} /\ Turns)
    BY DetailEffect DEF GoesOn, Turns, EndRun, plan, answers, Pages
  <1>3. \/ page' = page /\ (pc = "list" <=> pc' = "list")
        \/ pc # "list" /\ page' = page + 1 /\ pc' = "list"
    BY <1>1, <1>2 DEF GoesOn, Turns, plan
  <1> QED BY <1>1, <1>2, <1>3, ReadFrame

\* What is written over was out of date, or has left the interval.
LEMMA UpsertKeeps ==
    ASSUME StateInv, Upserts, NEW y \in Items
    PROVE  /\ EntryKept(y) /\ changed[y] < end => EntryKept(y)'
           /\ EntryKept(y) /\ changed[y] < start => EntryKept(y)'
           /\ <<changed[y], y>> = Oldest => EntryKept(y)'
           /\ changed[y] < start /\ DetailKept(y) => DetailKept(y)'
           /\ DetailKept(y) => DetailKept(y)' \/ y = Oldest[2]
           /\ kind # "products" =>
                \A z \in Items : updated'[z] = updated[z] \/ updated'[z] = Oldest[1]
  <1> DEFINE o == Oldest
  <1>1. /\ pc = "upsert" /\ o \in todo /\ o[1] \in Nat /\ o[2] \in Items
        /\ UNCHANGED <<changed, detailed, undetailed, kind>>
        /\ stored'[o[2]] = o[1] /\ \A x \in Items : x # o[2] => stored'[x] = stored[x]
        /\ o[1] # changed[o[2]] => slipped \subseteq slipped'
        /\ slipped \ {o[2]} \subseteq slipped'
    BY UpsertEffect DEF StateInv, TypeInv
  <1>7. kind # "products" =>
            \A z \in Items : updated'[z] = updated[z] \/ updated'[z] = o[1]
    BY UpsertEffect DEF StateInv, TypeInv
  <1> HIDE DEF o
  <1>2. /\ start <= o[1] /\ o[1] <= changed[o[2]] /\ start <= end
        /\ o[1] = changed[o[2]] \/ end <= changed[o[2]]
    BY <1>1 DEF StateInv, Fresh, Times, Pages
  <1>3. /\ changed[o[2]] \in Nat /\ start \in Int /\ end \in Nat /\ changed[y] \in Nat
    BY <1>1, StateFacts
  <1>4. EntryKept(y) /\ changed[y] < end => EntryKept(y)'
    <2>1. CASE y = o[2]
      BY <1>1, <1>2, <1>3, <2>1 DEF EntryKept
    <2>2. CASE y # o[2]
      BY <1>1, <2>2 DEF EntryKept
    <2> QED BY <2>1, <2>2
  <1>5. <<changed[y], y>> = o => EntryKept(y)'
    BY <1>1 DEF EntryKept
  <1>6. changed[y] < start => y # o[2] /\ changed[y] < end
    BY <1>1, <1>2, <1>3
  <1>8. DetailKept(y) /\ y # o[2] => DetailKept(y)'
    BY <1>1 DEF DetailKept
  <1> QED BY <1>4, <1>5, <1>6, <1>7, <1>8 DEF o

LEMMA DetailKeeps ==
    ASSUME StateInv, UpdateOrderDetail \/ UpsertReturnDetail, NEW y \in Items
    PROVE  /\ EntryKept(y) => EntryKept(y)'
           /\ DetailKept(y) \/ y = Oldest[2] => DetailKept(y)'
  <1> DEFINE o == Oldest
  <1>1. o[2] \in Items /\ UNCHANGED <<changed, kind>> /\ (Answered(o[2]) \/ LeftOut(o[2]))
    BY DetailEffect
  <1> HIDE DEF o
  <1>2. CASE Answered(o[2])
    <2>1. /\ o[2] \in detailed' /\ undetailed \ {o[2]} \subseteq undetailed'
          /\ detailed \subseteq detailed' /\ slipped \ {o[2]} \subseteq slipped'
      BY <1>2 DEF Answered
    <2>2. \/ UNCHANGED <<stored, slipped>>
          \/ stored'[o[2]] = changed[o[2]] /\ \A x \in Items : x # o[2] => stored'[x] = stored[x]
      BY <1>1, <1>2 DEF Answered, StateInv, TypeInv
    <2>3. EntryKept(y) => EntryKept(y)'
      BY <1>1, <2>1, <2>2 DEF EntryKept
    <2>4. DetailKept(y) \/ y = o[2] => DetailKept(y)'
      BY <1>1, <2>1 DEF DetailKept
    <2> QED BY <2>3, <2>4 DEF o
  <1>3. CASE LeftOut(o[2])
    <2>1. EntryKept(y) => EntryKept(y)'
      BY <1>1, <1>3 DEF LeftOut, EntryKept
    <2>2. DetailKept(y) \/ y = o[2] => DetailKept(y)'
      BY <1>1, <1>3 DEF LeftOut, DetailKept
    <2> QED BY <2>1, <2>2 DEF o
  <1> QED BY <1>1, <1>2, <1>3

LEMMA OlderStep ==
    ASSUME SyncInv, Steps
    PROVE  Older'
  <1>1. StateInv /\ Older /\ Settled
    BY DEF SyncInv
  <1> USE DEF Older
  <1>2. ASSUME pc' \notin Pages PROVE Older'
    BY <1>2
  <1>3. CASE Tick
    BY <1>1, <1>3 DEF Tick, database, history, run, plan, EntryKept, DetailKept
  <1>4. CASE \E x \in Items : Change(x)
    <2>1. PICK x \in Items : Change(x)
      BY <1>4
    <2>2. /\ UNCHANGED <<pc, kind, start, stored>>
          /\ detailed' = detailed \ {x} /\ undetailed' = undetailed \ {x}
          /\ changed' = [changed EXCEPT ![x] = now]
      BY <2>1 DEF Change, run, plan
    <2>3. /\ changed'[x] = now /\ \A y \in Items : y # x => changed'[y] = changed[y]
      BY <1>1, <2>2, StateFacts
    <2> SUFFICES ASSUME pc \in Pages PROVE Older'
      BY <2>2
    <2>4. start <= now
      BY <1>1, StateFacts DEF StateInv, Times, Pages
    <2>5. slipped \ {x} \subseteq slipped'
      BY <1>1, <2>1, ChangeMoves
    <2>6. ASSUME NEW y \in Items, changed'[y] # 0, changed'[y] < start
          PROVE  EntryKept(y)' /\ DetailKept(y)'
      <3>1. start \in Int /\ now \in Nat
        BY <1>1, StateFacts
      <3>2. y # x /\ changed'[y] = changed[y]
        BY <2>3, <2>4, <2>6, <3>1
      <3>3. EntryKept(y) /\ DetailKept(y)
        BY <1>1, <2>6, <3>2
      <3> QED BY <2>2, <2>5, <3>2, <3>3 DEF EntryKept, DetailKept
    <2> QED BY <2>2, <2>6
  <1>5. CASE StartRun
    BY <1>2, <1>5 DEF StartRun, Pages
  <1>6. CASE Plan
    <2>1. CASE EndRun
      BY <1>2, <2>1 DEF EndRun, Pages
    <2>2. CASE start' = ResolveStartTime(end)
      <3> SUFFICES ASSUME NEW x \in Items, changed[x] # 0, changed[x] < ResolveStartTime(end)
                   PROVE  EntryKept(x)' /\ DetailKept(x)'
        BY <1>6, <2>2, PlanEffect, <1>1
      <3>1. UNCHANGED <<changed, stored, detailed, undetailed, kind>>
            /\ slipped' = slipped \cup TooOld
        BY <1>1, <1>6, PlanEffect
      <3>4. EntryKept(x) /\ DetailKept(x) => EntryKept(x)' /\ DetailKept(x)'
        BY <3>1 DEF EntryKept, DetailKept
      <3>2. CASE Cursor = 0
        <4>1. CASE Current(x)
          BY <3>1, <4>1 DEF Current, EntryKept, DetailKept
        <4>2. CASE ~Current(x)
          <5>1. x \in TooOld
            BY <3>2, <4>2 DEF TooOld
          <5> QED BY <3>1, <5>1 DEF EntryKept, DetailKept
        <4> QED BY <4>1, <4>2
      <3>3. CASE Cursor # 0
        <4>1. PICK z \in Items : Cursor = Mark[z]
          BY <1>1, CursorIsNewest DEF StateInv
        <4>2. changed[x] < Mark[z] - Overlap
          BY <1>1, <3>3, <4>1, CursorIsNewest DEF StateInv
        <4>3. pc \notin Pages
          BY <1>1, <1>6, PlanEffect DEF Pages
        <4> QED BY <1>1, <3>4, <4>2, <4>3 DEF Settled
      <3> QED BY <3>2, <3>3
    <2> QED BY <1>1, <1>6, <2>1, <2>2, PlanEffect
  <1>7. CASE ListPage
    <2>1. CASE EndRun
      BY <1>2, <2>1 DEF EndRun, Pages
    <2>2. CASE ~EndRun
      <3>1. /\ UNCHANGED <<changed, stored, detailed, kind, slipped, undetailed, start>>
            /\ pc \in Pages
        BY <1>1, <1>7, <2>2, ListEffect DEF FetchDetails, plan, Pages
      <3> QED BY <1>1, <3>1 DEF EntryKept, DetailKept
    <2> QED BY <2>1, <2>2
  <1>8. CASE Upserts
    <2> SUFFICES ASSUME pc' \in Pages PROVE Older'
      BY <1>2
    <2>1. UNCHANGED <<changed, start>> /\ pc \in Pages
      BY <1>1, <1>8, UpsertFrame, UpsertEffect DEF Pages
    <2> QED BY <1>1, <1>8, <2>1, UpsertKeeps
  <1>9. CASE UpdateOrderDetail \/ UpsertReturnDetail
    <2> SUFFICES ASSUME pc' \in Pages PROVE Older'
      BY <1>2
    <2>1. UNCHANGED <<changed, start>> /\ pc \in Pages
      BY <1>1, <1>9, DetailFrame, DetailEffect DEF Pages
    <2> QED BY <1>1, <1>9, <2>1, DetailKeeps
  <1>10. CASE Stop
    BY <1>2, <1>10 DEF Stop, EndRun, Pages
  <1>11. CASE UNCHANGED vars
    BY <1>1, <1>11 DEF vars, shein, database, history, run, plan, EntryKept, DetailKept
  <1>12. CASE \E x \in Items : StoreSnapshot(x)
    <2>1. PICK x \in Items : StoreSnapshot(x)
      BY <1>12
    <2>2. /\ UNCHANGED <<changed, pc, start>>
          /\ \A y \in Items : /\ EntryKept(y) => EntryKept(y)'
                              /\ DetailKept(y) => DetailKept(y)'
      BY <1>1, <2>1, SnapshotEffect
    <2> QED BY <1>1, <2>2
  <1> QED BY <1>12, <1>3, <1>4, <1>5, <1>6, <1>7, <1>8, <1>9, <1>10, <1>11 DEF Steps

\* A run begins with nothing read.
LEMMA PlanReads ==
    ASSUME StateInv, Plan, pc' \in Pages
    PROVE  /\ pc' = "list" /\ Read' = {} /\ start' = ResolveStartTime(end) /\ end' = end
           /\ UNCHANGED <<todo, records, listed, total>>
  <1>1. /\ pc' = "list" /\ start' = ResolveStartTime(end)
        /\ UNCHANGED <<changed, end, page, todo, records, listed, total>>
    BY PlanEffect DEF EndRun, answers, Pages
  <1>2. Reached' = 0
    <2>1. page' = 1
      BY <1>1, PlanEffect DEF StateInv, Shape, Pages
    <2> QED BY <1>1, <2>1, Bounds DEF Reached
  <1>3. ASSUME NEW x \in Early' PROVE Position(x)' # 0 /\ Position(x)' \in Nat
    <2> DEFINE S == {y \in Window' : y = x \/ Before(y, x)'}
    <2>1. Position(x)' = Cardinality(S)
      BY Zenon DEF Position
    <2>2. start' \in Int /\ end \in Nat /\ changed' \in [Items -> Nat]
      BY <1>1, StateFacts, TypeStep DEF Steps, TypeInv
    <2>3. x \in S /\ S \in SUBSET Items
      BY <1>1, <2>2 DEF Window, Early
    <2>4. IsFiniteSet(S)
      BY <2>3, ItemsAssumption, FS_Subset
    <2> HIDE DEF S
    <2>5. Cardinality(S) # 0 /\ Cardinality(S) \in Nat
      BY <2>3, <2>4, FS_EmptySet, FS_CardinalityType
    <2> QED BY <2>1, <2>5
  <1>4. Read' = {}
    <2> SUFFICES ASSUME NEW x \in Early', Position(x)' <= 0 PROVE FALSE
      BY <1>2 DEF Read
    <2> QED BY <1>3
  <1> QED BY <1>1, <1>4

\* A page is the next part of the list; if it is empty, nothing is left.
LEMMA ListReads ==
    ASSUME StateInv, ListPage
    PROVE  /\ pc = "list"
           /\ Page = {} => Early \subseteq Read
           /\ pc' \in Pages => /\ Early' = Early /\ Read \subseteq Read'
                               /\ \A x \in Items : Position(x)' = Position(x)
                               /\ UNCHANGED <<changed, stored, updated, detailed, kind, slipped,
                                           undetailed, end>>
           /\ pc' \in Pages => \A y \in Read' : y \in Read \/ (pc' = "upsert" /\ y \in Page)
           /\ pc' \in Pages => \A y \in Early \ Read' : \A x \in Page : changed[x] <= changed[y]
           /\ \A x \in Page : x \in Window /\ x \notin Read
  <1> USE StateFacts
  <1>1. pc = "list" /\ Reached = (page - 1) * PageSize
    BY ListEffect DEF Reached
  <1>2. Page = {} => Early \subseteq Read
    <2> SUFFICES ASSUME Page = {}, NEW y \in Early, y \notin Read PROVE FALSE
      OBVIOUS
    <2>1. Reached < Position(y)
      BY DEF Read
    <2> QED BY <1>1, <2>1, PageDense
  <1>3. ASSUME pc' \in Pages
        PROVE  /\ Early' = Early /\ Reached' = page * PageSize
               /\ \A x \in Items : Position(x)' = Position(x)
               /\ UNCHANGED <<changed, stored, updated, detailed, kind, slipped,
                                           undetailed, end>>
    <2>1. /\ UNCHANGED <<start, end, page, changed, stored, updated, detailed, kind>>
          /\ UNCHANGED <<slipped, undetailed>> /\ pc' # "list"
      BY <1>3, ListEffect DEF EndRun, FetchDetails, plan, Pages
    <2> QED BY <2>1, ListFrame DEF Reached
  <1>4. page * PageSize \in Nat /\ page * PageSize = Reached + PageSize
    BY <1>1, PageBounds
  <1>5. pc' \in Pages => Read \subseteq Read'
    <2> SUFFICES ASSUME pc' \in Pages, NEW y \in Read PROVE y \in Read'
      OBVIOUS
    <2>1. Position(y)' = Position(y) /\ Position(y) \in Nat /\ Position(y) <= Reached
      BY <1>3 DEF Read
    <2>2. Position(y)' <= Reached'
      BY <1>3, <1>4, <2>1
    <2> QED BY <1>3, <2>2 DEF Read
  <1>6. ASSUME pc' \in Pages, NEW y \in Read' PROVE y \in Read \/ (pc' = "upsert" /\ y \in Page)
    <2>1. y \in Early /\ Position(y) <= page * PageSize
      BY <1>3, <1>6 DEF Read
    <2>2. y \in Read \/ y \in Page
      BY <1>1, <2>1 DEF Read, Page
    <2>3. Page # {} => pc' = "upsert"
      BY <1>6, ListEffect
    <2> QED BY <2>2, <2>3
  <1>7. ASSUME pc' \in Pages, NEW y \in Early, y \notin Read', NEW x \in Page
        PROVE  changed[x] <= changed[y]
    <2>1. page * PageSize < Position(y)
      BY <1>3, <1>4, <1>7 DEF Read
    <2>2. x \in Window /\ Position(x) <= page * PageSize /\ Position(x) \in Nat
      BY PositionRange DEF Page
    <2>3. ~(Position(y) < Position(x))
      BY <1>4, <2>1, <2>2
    <2>4. ~Before(y, x)
      BY <2>2, <2>3, PositionOrder
    <2> QED BY <2>2, <2>4 DEF Before
  <1>8. ASSUME NEW x \in Page PROVE x \in Window /\ x \notin Read
    <2>1. x \in Window /\ Reached < Position(x) /\ Position(x) \in Nat
      BY <1>1, PositionRange DEF Page
    <2> QED BY <2>1 DEF Read
  <1> QED BY <1>1, <1>2, <1>3, <1>5, <1>6, <1>7, <1>8

LEMMA EntriesReadStep ==
    ASSUME SyncInv, Steps
    PROVE  EntriesRead'
  <1>1. StateInv /\ EntriesRead
    BY DEF SyncInv, ListInv
  <1> USE DEF EntriesRead
  <1>2. ASSUME pc' \notin Pages PROVE EntriesRead'
    BY <1>2
  <1>3. ASSUME UNCHANGED <<changed, start, end, pc, page, stored, slipped, todo>>
        PROVE  EntriesRead'
    <2>1. Read' = Read
      BY <1>3, ListFrame DEF Reached
    <2> QED BY <1>1, <1>3, <2>1 DEF EntryKept
  <1>4. CASE \E x \in Items : Change(x)
    <2>1. PICK x \in Items : Change(x)
      BY <1>4
    <2>2. /\ UNCHANGED <<pc, stored, todo>>
          /\ changed' = [changed EXCEPT ![x] = now]
      BY <2>1 DEF Change, run
    <2>3. \A y \in Items : y # x => changed'[y] = changed[y]
      BY <2>2
    <2> SUFFICES ASSUME pc \in Pages, NEW y \in Read'
                 PROVE  EntryKept(y)' \/ (pc' = "upsert" /\ <<changed'[y], y>> \in todo')
      BY <2>2
    <2>4. y \in Early' /\ y \in Items /\ y # x /\ (y \in Read \/ y \in slipped')
          /\ slipped \ {x} \subseteq slipped'
      <3>1. y \in Early' /\ Position(y)' <= Reached'
        BY DEF Read
      <3> QED BY <1>1, <2>1, <3>1, ChangeMoves, StateFacts
    <2> QED BY <1>1, <2>2, <2>3, <2>4 DEF EntryKept
  <1>5. CASE Plan
    BY <1>1, <1>2, <1>5, PlanReads
  <1>6. CASE ListPage
    <2> SUFFICES ASSUME pc' \in Pages, NEW y \in Read'
                 PROVE  EntryKept(y)' \/ (pc' = "upsert" /\ <<changed'[y], y>> \in todo')
      BY ZenonT(60)
    <2>1. CASE y \in Read
      <3>1. EntryKept(y)
        BY <1>1, <1>6, <2>1, ListReads DEF Pages
      <3> QED BY <1>1, <1>6, <3>1, ListReads DEF EntryKept
    <2>2. CASE y \notin Read
      <3>1. pc' = "upsert" /\ y \in Page /\ changed' = changed
        BY <1>1, <1>6, <2>2, ListReads
      <3>2. todo' = {<<changed[x], x>> : x \in Page}
        BY <1>1, <1>6, <3>1, ListEffect DEF EndRun, FetchDetails
      <3> QED BY <3>1, <3>2
    <2> QED BY <2>1, <2>2
  <1>7. CASE Upserts
    <2> SUFFICES ASSUME pc' \in Pages, NEW y \in Read'
                 PROVE  EntryKept(y)' \/ (pc' = "upsert" /\ <<changed'[y], y>> \in todo')
      BY ZenonT(60)
    <2>1. y \in Read /\ y \in Items /\ changed' = changed
      BY <1>1, <1>7, UpsertFrame, StateFacts
    <2>2. pc = "upsert" /\ (EntryKept(y) \/ <<changed[y], y>> \in todo)
      BY <1>1, <1>7, <2>1, UpsertEffect DEF Pages
    <2>3. CASE EntryKept(y) \/ <<changed[y], y>> = Oldest
      <3>1. changed[y] < end
        BY <1>1, <2>1, StateFacts DEF Early
      <3> QED BY <1>1, <1>7, <2>1, <2>3, <3>1, UpsertKeeps
    <2>4. CASE <<changed[y], y>> \in todo \ {Oldest}
      <3>1. GoesOn(Oldest)
        BY <1>1, <1>7, <2>4, UpsertEffect
      <3> QED BY <2>1, <2>2, <2>4, <3>1 DEF GoesOn
    <2> QED BY <2>2, <2>3, <2>4
  <1>8. CASE UpdateOrderDetail \/ UpsertReturnDetail
    <2> SUFFICES ASSUME pc' \in Pages, NEW y \in Read' PROVE EntryKept(y)'
      OBVIOUS
    <2>1. y \in Read /\ y \in Early /\ y \in Items
      BY <1>1, <1>8, DetailFrame, StateFacts
    <2>2. pc = "detail" /\ EntryKept(y)
      BY <1>1, <1>8, <2>1, DetailEffect DEF Pages
    <2> QED BY <1>1, <1>8, <2>1, <2>2, DetailKeeps DEF Early
  <1>9. StartRun \/ Stop => pc' \notin Pages
    BY DEF StartRun, Stop, EndRun, Pages
  <1>10. Tick \/ UNCHANGED vars =>
             UNCHANGED <<changed, start, end, pc, page, stored, slipped, todo>>
    BY DEF Tick, vars, shein, database, history, run, plan
  <1>11. CASE \E x \in Items : StoreSnapshot(x)
    <2>1. PICK x \in Items : StoreSnapshot(x)
      BY <1>11
    <2>2. UNCHANGED <<changed, pc, kind, start, end, page, records, todo, listed>>
      BY <1>1, <2>1, SnapshotEffect
    <2>3. Read' = Read /\ Read \subseteq Items
      BY <1>1, <2>2, ListFrame, StateFacts DEF Reached
    <2>4. \A y \in Items : /\ EntryKept(y) => EntryKept(y)'
                           /\ DetailKept(y) => DetailKept(y)'
      BY <1>1, <2>1, SnapshotEffect
    <2> SUFFICES ASSUME pc \in Pages, NEW y \in Read
                 PROVE  EntryKept(y)' \/ (pc = "upsert" /\ <<changed[y], y>> \in todo)
      BY <2>2, <2>3, ZenonT(60)
    <2>5. y \in Items /\ (EntryKept(y) \/ (pc = "upsert" /\ <<changed[y], y>> \in todo))
      BY <1>1, <2>3
    <2> QED BY <2>4, <2>5
  <1> QED BY ZenonT(60), <1>11, <1>2, <1>3, <1>4, <1>5, <1>6, <1>7, <1>8, <1>9, <1>10 DEF Steps

LEMMA OrdersReadStep ==
    ASSUME SyncInv, Steps
    PROVE  OrdersRead'
  <1>1. StateInv /\ OrdersRead
    BY DEF SyncInv, ListInv
  <1> USE DEF OrdersRead
  <1>2. ASSUME pc' \notin Pages PROVE OrdersRead'
    BY <1>2
  <1>3. ASSUME UNCHANGED <<changed, start, end, pc, page, todo, records, kind>>,
               UNCHANGED <<detailed, slipped, undetailed>>
        PROVE  OrdersRead'
    <2>1. Read' = Read
      BY <1>3, ListFrame DEF Reached
    <2> QED BY <1>1, <1>3, <2>1 DEF DetailKept, ItemsOf
  <1> DEFINE Kept(y) == \/ DetailKept(y)
                        \/ pc = "upsert" /\ y \in ItemsOf(records)
                        \/ pc = "detail" /\ y \in ItemsOf(todo)
  <1>4. CASE \E x \in Items : Change(x)
    <2>1. PICK x \in Items : Change(x)
      BY <1>4
    <2>2. /\ UNCHANGED <<pc, kind, todo, records>>
          /\ detailed' = detailed \ {x} /\ undetailed' = undetailed \ {x}
          /\ changed' = [changed EXCEPT ![x] = now]
      BY <2>1 DEF Change, run, answers
    <2>3. \A y \in Items : y # x => changed'[y] = changed[y]
      BY <2>2
    <2> SUFFICES ASSUME pc \in Pages, kind = "orders", NEW y \in Read' PROVE Kept(y)'
      BY <2>2
    <2>4. y \in Early' /\ y \in Items /\ y # x /\ (y \in Read \/ y \in slipped')
          /\ slipped \ {x} \subseteq slipped'
      <3>1. y \in Early' /\ Position(y)' <= Reached'
        BY DEF Read
      <3> QED BY <1>1, <2>1, <3>1, ChangeMoves, StateFacts
    <2> QED BY <1>1, <2>2, <2>3, <2>4 DEF DetailKept, ItemsOf
  <1>5. CASE Plan
    BY <1>1, <1>2, <1>5, PlanReads
  <1>6. CASE ListPage
    <2> SUFFICES ASSUME pc' \in Pages, kind' = "orders", NEW y \in Read' PROVE Kept(y)'
      OBVIOUS
    <2>1. CASE y \in Read
      <3>1. DetailKept(y)
        BY <1>1, <1>6, <2>1, ListReads DEF Pages
      <3> QED BY <1>1, <1>6, <3>1, ListReads DEF DetailKept
    <2>2. CASE y \notin Read
      <3>1. pc' = "upsert" /\ y \in Page
        BY <1>1, <1>6, <2>2, ListReads
      <3>2. records' = {<<changed[x], x>> : x \in Page}
        BY <1>1, <1>6, <3>1, ListEffect DEF EndRun, FetchDetails
      <3>3. <<changed[y], y>> \in records'
        BY <3>1, <3>2
      <3> QED BY <3>1, <3>3 DEF ItemsOf
    <2> QED BY <2>1, <2>2
  <1>7. CASE Upserts
    <2> SUFFICES ASSUME pc' \in Pages, kind' = "orders", NEW y \in Read' PROVE Kept(y)'
      OBVIOUS
    <2>1. y \in Read /\ y \in Items /\ records' = records /\ kind = "orders" /\ pc = "upsert"
      BY <1>1, <1>7, UpsertFrame, UpsertEffect, StateFacts
    <2>2. DetailKept(y) \/ y \in ItemsOf(records)
      BY <1>1, <2>1 DEF Pages
    <2>3. (pc' = "upsert") \/ (pc' = "detail" /\ todo' = records)
      BY <1>1, <1>7, <2>1, UpsertEffect DEF GoesOn, FetchDetails, EndRun
    <2>4. Oldest[2] \in ItemsOf(records)
      BY <1>1, <1>7, <2>1, UpsertEffect DEF ItemsOf, StateInv, Shape
    <2>5. DetailKept(y)' \/ y \in ItemsOf(records)
      BY <1>1, <1>7, <2>1, <2>2, <2>4, UpsertKeeps
    <2> QED BY <2>1, <2>3, <2>5
  <1>8. CASE UpdateOrderDetail \/ UpsertReturnDetail
    <2> SUFFICES ASSUME pc' \in Pages, kind' = "orders", NEW y \in Read' PROVE Kept(y)'
      OBVIOUS
    <2>1. y \in Read /\ y \in Items /\ kind = "orders" /\ pc = "detail"
      BY <1>1, <1>8, DetailFrame, DetailEffect, StateFacts
    <2>2. DetailKept(y) \/ y \in ItemsOf(todo)
      BY <1>1, <2>1 DEF Pages
    <2>3. CASE DetailKept(y) \/ y = Oldest[2]
      BY <1>1, <1>8, <2>1, <2>3, DetailKeeps
    <2>4. CASE y \in ItemsOf(todo) /\ y # Oldest[2]
      <3>1. PICK t \in todo : t[2] = y /\ t # Oldest
        BY <2>4 DEF ItemsOf
      <3>2. GoesOn(Oldest)
        BY <1>1, <1>8, <3>1, DetailFrame
      <3> QED BY <2>1, <3>1, <3>2 DEF GoesOn, ItemsOf
    <2> QED BY <2>2, <2>3, <2>4
  <1>9. StartRun \/ Stop => pc' \notin Pages
    BY DEF StartRun, Stop, EndRun, Pages
  <1>10. Tick \/ UNCHANGED vars =>
             /\ UNCHANGED <<changed, start, end, pc, page, todo, records, kind>>
             /\ UNCHANGED <<detailed, slipped, undetailed>>
    BY DEF Tick, vars, shein, database, history, run, plan, answers
  <1>11. CASE \E x \in Items : StoreSnapshot(x)
    <2>1. PICK x \in Items : StoreSnapshot(x)
      BY <1>11
    <2>2. UNCHANGED <<changed, pc, kind, start, end, page, records, todo, listed>>
      BY <1>1, <2>1, SnapshotEffect
    <2>3. Read' = Read /\ Read \subseteq Items
      BY <1>1, <2>2, ListFrame, StateFacts DEF Reached
    <2>4. \A y \in Items : /\ EntryKept(y) => EntryKept(y)'
                           /\ DetailKept(y) => DetailKept(y)'
      BY <1>1, <2>1, SnapshotEffect
    <2> SUFFICES ASSUME pc \in Pages, kind = "orders", NEW y \in Read PROVE Kept(y)'
      BY <2>2, <2>3
    <2>5. y \in Items /\ Kept(y)
      BY <1>1, <2>3
    <2> QED BY <2>2, <2>4, <2>5 DEF ItemsOf
  <1> QED BY <1>11, <1>2, <1>3, <1>4, <1>5, <1>6, <1>7, <1>8, <1>9, <1>10 DEF Steps

LEMMA ReturnsReadStep ==
    ASSUME SyncInv, Steps
    PROVE  ReturnsRead'
  <1>1. StateInv /\ ReturnsRead
    BY DEF SyncInv, ListInv
  <1> USE DEF ReturnsRead
  <1>2. ASSUME pc' \notin Pages PROVE ReturnsRead'
    BY <1>2
  <1>3. ASSUME UNCHANGED <<changed, start, end, pc, page, todo, listed, kind>>,
               UNCHANGED <<detailed, slipped, undetailed>>
        PROVE  ReturnsRead'
    <2>1. Read' = Read
      BY <1>3, ListFrame DEF Reached
    <2> QED BY <1>1, <1>3, <2>1 DEF DetailKept, ItemsOf
  <1> DEFINE Kept(y) == \/ DetailKept(y)
                        \/ pc # "detail" /\ y \in listed
                        \/ pc = "detail" /\ y \in ItemsOf(todo)
  <1>4. ASSUME FetchDetails, NEW y \in listed PROVE pc' = "detail" /\ y \in ItemsOf(todo')
    <2>1. <<0, y>> \in todo' /\ pc' = "detail"
      BY <1>4 DEF FetchDetails
    <2> QED BY <2>1 DEF ItemsOf
  <1>5. CASE \E x \in Items : Change(x)
    <2>1. PICK x \in Items : Change(x)
      BY <1>5
    <2>2. /\ UNCHANGED <<pc, kind, todo, listed>>
          /\ detailed' = detailed \ {x} /\ undetailed' = undetailed \ {x}
          /\ changed' = [changed EXCEPT ![x] = now]
      BY <2>1 DEF Change, run, answers
    <2>3. \A y \in Items : y # x => changed'[y] = changed[y]
      BY <2>2
    <2> SUFFICES ASSUME pc \in Pages, kind = "returns", NEW y \in Read' PROVE Kept(y)'
      BY <2>2
    <2>4. y \in Early' /\ y \in Items /\ y # x /\ (y \in Read \/ y \in slipped')
          /\ slipped \ {x} \subseteq slipped'
      <3>1. y \in Early' /\ Position(y)' <= Reached'
        BY DEF Read
      <3> QED BY <1>1, <2>1, <3>1, ChangeMoves, StateFacts
    <2> QED BY <1>1, <2>2, <2>3, <2>4 DEF DetailKept, ItemsOf
  <1>6. CASE Plan
    BY <1>1, <1>2, <1>6, PlanReads
  <1>7. CASE ListPage
    <2> SUFFICES ASSUME pc' \in Pages, kind' = "returns", NEW y \in Read' PROVE Kept(y)'
      OBVIOUS
    <2>1. kind = "returns" /\ pc = "list"
      BY <1>1, <1>7, ListReads
    <2>2. CASE y \in Read
      <3>1. DetailKept(y) \/ y \in listed
        BY <1>1, <2>1, <2>2 DEF Pages
      <3>2. CASE FetchDetails
        BY <1>1, <1>4, <1>7, <3>1, <3>2, ListReads DEF DetailKept
      <3>3. CASE pc' = "upsert"
        <4>1. listed' = listed \cup Page
          BY <1>1, <1>7, <2>1, <3>3, ListEffect DEF EndRun, FetchDetails
        <4> QED BY <1>1, <1>7, <3>1, <3>3, <4>1, ListReads DEF DetailKept
      <3> QED BY <1>1, <1>7, <3>2, <3>3, ListEffect DEF EndRun, Pages
    <2>3. CASE y \notin Read
      <3>1. pc' = "upsert" /\ y \in Page
        BY <1>1, <1>7, <2>3, ListReads
      <3>2. listed' = listed \cup Page
        BY <1>1, <1>7, <2>1, <3>1, ListEffect DEF EndRun, FetchDetails
      <3> QED BY <3>1, <3>2
    <2> QED BY <2>2, <2>3
  <1>8. CASE Upserts
    <2> SUFFICES ASSUME pc' \in Pages, kind' = "returns", NEW y \in Read' PROVE Kept(y)'
      OBVIOUS
    <2>1. y \in Read /\ y \in Items /\ listed' = listed /\ kind = "returns" /\ pc = "upsert"
      BY <1>1, <1>8, UpsertFrame, UpsertEffect, StateFacts
    <2>2. DetailKept(y) \/ y \in listed
      BY <1>1, <2>1 DEF Pages
    <2>3. Oldest[2] \in listed
      <3>1. Oldest \in records
        BY <1>1, <1>8, UpsertEffect DEF StateInv, Shape
      <3> QED BY <1>1, <2>1, <3>1 DEF StateInv, Shape, ItemsOf
    <2>4. DetailKept(y)' \/ y \in listed
      BY <1>1, <1>8, <2>1, <2>2, <2>3, UpsertKeeps
    <2>5. FetchDetails \/ pc' # "detail"
      BY <1>1, <1>8, <2>1, UpsertEffect DEF GoesOn, Turns, EndRun
    <2> QED BY <1>4, <2>1, <2>4, <2>5
  <1>9. CASE UpdateOrderDetail \/ UpsertReturnDetail
    <2> SUFFICES ASSUME pc' \in Pages, kind' = "returns", NEW y \in Read' PROVE Kept(y)'
      OBVIOUS
    <2>1. /\ y \in Read /\ y \in Items /\ kind = "returns" /\ pc = "detail"
          /\ GoesOn(Oldest)
      BY <1>1, <1>9, DetailFrame, DetailEffect, StateFacts
    <2>2. DetailKept(y) \/ y \in ItemsOf(todo)
      BY <1>1, <2>1 DEF Pages
    <2>3. CASE DetailKept(y) \/ y = Oldest[2]
      BY <1>1, <1>9, <2>1, <2>3, DetailKeeps
    <2>4. CASE y \in ItemsOf(todo) /\ y # Oldest[2]
      <3>1. PICK t \in todo : t[2] = y /\ t # Oldest
        BY <2>4 DEF ItemsOf
      <3> QED BY <2>1, <3>1 DEF GoesOn, ItemsOf
    <2> QED BY <2>2, <2>3, <2>4
  <1>10. StartRun \/ Stop => pc' \notin Pages
    BY DEF StartRun, Stop, EndRun, Pages
  <1>11. Tick \/ UNCHANGED vars =>
             /\ UNCHANGED <<changed, start, end, pc, page, todo, listed, kind>>
             /\ UNCHANGED <<detailed, slipped, undetailed>>
    BY DEF Tick, vars, shein, database, history, run, plan, answers
  <1>12. (\E x \in Items : StoreSnapshot(x)) => ReturnsRead'
    BY <1>1, SnapshotEffect
  <1> QED BY <1>12, <1>2, <1>3, <1>5, <1>6, <1>7, <1>8, <1>9, <1>10, <1>11 DEF Steps

LEMMA UnreadStep ==
    ASSUME SyncInv, Steps
    PROVE  Unread'
  <1>1. StateInv /\ Unread /\ LastPage
    BY DEF SyncInv, ListInv
  <1> USE DEF Unread
  <1>2. ASSUME pc' \notin Pages PROVE Unread'
    BY <1>2
  <1>3. ASSUME UNCHANGED <<changed, start, end, pc, page, updated, todo, kind>>
        PROVE  Unread'
    <2>1. Read' = Read /\ Early' = Early
      BY <1>3, ListFrame DEF Reached
    <2> QED BY <1>1, <1>3, <2>1
  <1> DEFINE Ahead(y) == /\ \A z \in Items : updated[z] - Overlap <= changed[y]
                         /\ pc = "upsert" => \A t \in todo : t[1] <= changed[y]
  <1>4. CASE \E x \in Items : Change(x)
    <2>1. PICK x \in Items : Change(x)
      BY <1>4
    <2>2. /\ UNCHANGED <<pc, kind, updated, todo>>
          /\ changed' = [changed EXCEPT ![x] = now]
      BY <2>1 DEF Change, run
    <2>3. \A y \in Items : y # x => changed'[y] = changed[y]
      BY <2>2
    <2> SUFFICES ASSUME pc \in Pages, kind # "products", NEW y \in Early' \ Read'
                 PROVE  Ahead(y)'
      BY <2>2
    <2>4. y \in Early /\ y # x /\ y \notin Read /\ y \in Items
      BY <1>1, <2>1, ChangeMoves, StateFacts
    <2>5. Ahead(y) /\ changed'[y] = changed[y]
      BY <1>1, <2>3, <2>4
    <2> QED BY <2>2, <2>5
  <1>5. CASE Plan
    <2> SUFFICES ASSUME pc' \in Pages, kind' # "products", NEW y \in Early'
                 PROVE  Ahead(y)'
      OBVIOUS
    <2>1. /\ pc' = "list" /\ UNCHANGED <<changed, updated, kind>>
          /\ start' = ResolveStartTime(end)
      BY <1>1, <1>5, PlanReads, PlanEffect
    <2>2. y \in Items /\ ResolveStartTime(end) <= changed[y] /\ changed[y] \in Nat
      BY <1>1, <2>1, StateFacts DEF Early
    <2>3. ASSUME NEW z \in Items PROVE updated[z] - Overlap <= changed[y]
      <3>1. /\ updated[z] <= Cursor /\ Cursor \in Nat /\ updated[z] \in Nat
            /\ Overlap \in Nat /\ (Cursor # 0 => ResolveStartTime(end) = Cursor - Overlap)
        BY <1>1, <2>1, CursorIsNewest, StateFacts DEF StateInv, Mark
      <3>2. CASE Cursor = 0
        BY <2>2, <3>1, <3>2
      <3>3. CASE Cursor # 0
        BY <2>2, <3>1, <3>3
      <3> QED BY <3>2, <3>3
    <2> QED BY <2>1, <2>3
  <1>6. CASE ListPage
    <2> SUFFICES ASSUME pc' \in Pages, kind' # "products", NEW y \in Early' \ Read'
                 PROVE  Ahead(y)'
      OBVIOUS
    <2>1. /\ y \in Early /\ y \notin Read /\ pc = "list" /\ UNCHANGED <<changed, updated, kind>>
          /\ \A x \in Page : changed[x] <= changed[y]
      BY <1>1, <1>6, ListReads
    <2>2. Ahead(y)
      BY <1>1, <2>1 DEF Pages
    <2>3. ASSUME pc' = "upsert", NEW t \in todo' PROVE t[1] <= changed[y]
      <3>1. PICK x \in Page : t = <<changed[x], x>>
        BY <1>1, <1>6, <2>3, ListEffect DEF EndRun, FetchDetails
      <3> QED BY <2>1, <3>1
    <2> QED BY <2>1, <2>2, <2>3
  <1>7. CASE Upserts
    <2> SUFFICES ASSUME pc' \in Pages, kind' # "products", NEW y \in Early' \ Read'
                 PROVE  Ahead(y)'
      OBVIOUS
    <2>1. /\ y \in Early /\ y \notin Read /\ y \in Items /\ pc = "upsert"
          /\ UNCHANGED <<changed, kind>>
      BY <1>1, <1>7, UpsertFrame, UpsertEffect, StateFacts
    <2>2. Ahead(y)
      BY <1>1, <2>1 DEF Pages
    <2>3. Oldest[1] \in Nat /\ Oldest[1] <= changed[y] /\ changed[y] \in Nat /\ Overlap \in Nat
      BY <1>1, <1>7, <2>1, <2>2, UpsertEffect, StateFacts
    <2>4. \A z \in Items : updated'[z] - Overlap <= changed[y]
      BY <1>1, <1>7, <2>1, <2>2, <2>3, UpsertKeeps
    <2>5. pc' = "upsert" => todo' \subseteq todo
      BY <1>1, <1>7, UpsertEffect DEF GoesOn, Turns, FetchDetails, EndRun
    <2> QED BY <2>1, <2>2, <2>4, <2>5
  <1>8. CASE UpdateOrderDetail \/ UpsertReturnDetail
    <2> SUFFICES ASSUME pc' \in Pages, kind' # "products", NEW y \in Early' \ Read'
                 PROVE  Ahead(y)'
      OBVIOUS
    <2>1. /\ y \in Early /\ y \notin Read /\ pc = "detail" /\ UNCHANGED <<changed, kind>>
      BY <1>1, <1>8, DetailFrame, DetailEffect
    <2>2. Ahead(y)
      BY <1>1, <2>1, DetailEffect DEF Pages
    <2>3. kind # "returns"
      BY <1>1, <2>1 DEF LastPage
    <2>4. updated' = updated /\ pc' # "upsert"
      BY <1>1, <1>8, <2>1, <2>3, DetailEffect DEF GoesOn, Turns, EndRun, Answered, LeftOut
    <2> QED BY <2>1, <2>2, <2>4
  <1>9. StartRun \/ Stop => pc' \notin Pages
    BY DEF StartRun, Stop, EndRun, Pages
  <1>10. Tick \/ UNCHANGED vars =>
             UNCHANGED <<changed, start, end, pc, page, updated, todo, kind>>
    BY DEF Tick, vars, shein, database, run, plan
  <1>11. (\E x \in Items : StoreSnapshot(x)) =>
             UNCHANGED <<changed, start, end, pc, page, updated, todo, kind>>
    BY <1>1, SnapshotEffect
  <1> QED BY <1>11, <1>2, <1>3, <1>4, <1>5, <1>6, <1>7, <1>8, <1>9, <1>10 DEF Steps

LEMMA NotBehindStep ==
    ASSUME SyncInv, Steps
    PROVE  NotBehind'
  <1>1. StateInv /\ NotBehind /\ Unread
    BY DEF SyncInv, ListInv
  <1> USE DEF NotBehind
  <1>2. ASSUME pc' # "upsert" PROVE NotBehind'
    BY <1>2
  <1>3. ASSUME UNCHANGED <<pc, updated, todo, kind>> PROVE NotBehind'
    BY <1>1, <1>3
  <1>4. CASE ListPage
    <2> SUFFICES ASSUME pc' = "upsert", kind' # "products", NEW t \in todo', NEW z \in Items
                 PROVE  updated'[z] - Overlap <= t[1]
      OBVIOUS
    <2>1. PICK x \in Page : t = <<changed[x], x>>
      BY <1>1, <1>4, ListEffect DEF EndRun, FetchDetails
    <2>2. pc = "list" /\ x \in Window /\ x \notin Read /\ UNCHANGED <<updated, kind>>
      BY <1>1, <1>4, ListReads DEF Pages
    <2>3. CASE x \in Early
      BY <1>1, <2>1, <2>2, <2>3 DEF Pages, Unread
    <2>4. CASE x \notin Early
      <3>1. changed[x] = end /\ x \in Items
        BY <1>1, <2>2, <2>4, StateFacts DEF Early, Window
      <3>2. updated[z] <= end
        BY <1>1, <2>2 DEF StateInv, Times
      <3> QED BY <1>1, <2>1, <2>2, <3>1, <3>2, StateFacts
    <2> QED BY <2>3, <2>4
  <1>5. CASE Upserts
    <2> SUFFICES ASSUME pc' = "upsert", kind' # "products", NEW t \in todo', NEW z \in Items
                 PROVE  updated'[z] - Overlap <= t[1]
      OBVIOUS
    <2>1. pc = "upsert" /\ kind # "products" /\ t \in todo
      BY <1>1, <1>5, UpsertEffect DEF GoesOn, Turns, FetchDetails, EndRun
    <2>2. updated[z] - Overlap <= t[1] /\ Oldest[1] <= t[1] /\ Oldest[1] \in Nat
      BY <1>1, <1>5, <2>1, UpsertEffect
    <2> QED BY <1>1, <1>5, <2>1, <2>2, UpsertKeeps, StateFacts
  <1>6. Plan \/ StartRun \/ Stop => pc' # "upsert"
    BY DEF Plan, StartRun, Stop, EndRun
  <1>7. Tick \/ (\E x \in Items : Change(x)) \/ UNCHANGED vars =>
            UNCHANGED <<pc, updated, todo, kind>>
    BY DEF Tick, Change, vars, database, run
  <1>8. UpdateOrderDetail \/ UpsertReturnDetail => pc' # "upsert"
    BY <1>1, DetailEffect DEF GoesOn, Turns, EndRun
  <1>9. (\E x \in Items : StoreSnapshot(x)) => UNCHANGED <<pc, updated, todo, kind>>
    BY <1>1, SnapshotEffect
  <1> QED BY <1>9, <1>2, <1>3, <1>4, <1>5, <1>6, <1>7, <1>8 DEF Steps

LEMMA LastPageReads ==
    ASSUME StateInv, LastPage, IsLastPage, pc = "upsert" \/ (pc = "detail" /\ kind = "orders")
    PROVE  Early \subseteq Read
  <1>1. CASE Cardinality(records) < PageSize
    BY <1>1 DEF LastPage
  <1>2. CASE total # 0 /\ page * PageSize >= total
    <2>1. \A y \in Early : Position(y) <= total
      BY <1>2 DEF LastPage, Pages
    <2>2. Reached = page * PageSize
      BY DEF Reached
    <2> QED BY <1>2, <2>1, <2>2, StateFacts DEF Read
  <1> QED BY <1>1, <1>2 DEF IsLastPage

LEMMA LastPageStep ==
    ASSUME SyncInv, Steps
    PROVE  LastPage'
  <1>1. StateInv /\ LastPage
    BY DEF SyncInv, ListInv
  <1>2. ASSUME pc' \notin Pages PROVE LastPage'
    BY <1>2 DEF LastPage, Pages
  <1>3. ASSUME UNCHANGED <<changed, start, end, pc, page, records, total, kind>>
        PROVE  LastPage'
    <2>1. Read' = Read /\ Early' = Early /\ \A x \in Items : Position(x)' = Position(x)
      BY <1>3, ListFrame DEF Reached
    <2> QED BY <1>1, <1>3, <2>1, StateFacts DEF LastPage
  <1>4. CASE \E x \in Items : Change(x)
    <2>1. PICK x \in Items : Change(x)
      BY <1>4
    <2>2. UNCHANGED <<pc, kind, records, total>>
      BY <2>1 DEF Change, run, answers
    <2> SUFFICES ASSUME pc \in Pages PROVE LastPage'
      BY <1>2, <2>2
    <2>3. Early \subseteq Read => Early' \subseteq Read'
      BY <1>1, <2>1, ChangeMoves
    <2>4. \A y \in Early' : /\ y \in Early /\ Position(y)' \in Nat /\ Position(y) \in Nat
                            /\ Position(y)' <= Position(y)
      BY <1>1, <2>1, ChangeMoves
    <2>5. total \in Nat
      BY <1>1, StateFacts
    <2>6. (\A y \in Early : Position(y) <= total) => \A y \in Early' : Position(y)' <= total
      BY <2>4, <2>5
    <2> QED BY <1>1, <2>2, <2>3, <2>6 DEF LastPage
  <1>5. CASE Plan
    <2> SUFFICES ASSUME pc' \in Pages PROVE LastPage'
      BY <1>2
    <2>1. pc' = "list" /\ total' = 0
      BY <1>1, <1>5, PlanReads, PlanEffect DEF StateInv, Shape, Pages
    <2> QED BY <2>1 DEF LastPage
  <1>6. CASE ListPage
    <2> SUFFICES ASSUME pc' \in Pages PROVE LastPage'
      BY <1>2
    <2>1. /\ pc = "list" /\ Early' = Early /\ Read \subseteq Read'
          /\ \A x \in Items : Position(x)' = Position(x)
      BY <1>1, <1>6, ListReads
    <2>2. CASE Page = {}
      <3>1. FetchDetails /\ Early \subseteq Read
        BY <1>1, <1>6, <2>2, ListEffect, ListReads DEF EndRun, Pages
      <3>2. pc' = "detail" /\ total' = total /\ kind' = "returns"
        BY <1>1, <1>6, <3>1, ListEffect DEF FetchDetails, answers
      <3> QED BY <1>1, <2>1, <3>1, <3>2, StateFacts DEF LastPage, Pages
    <2>3. CASE Page # {}
      <3>1. /\ pc' = "upsert" /\ records' = {<<changed[x], x>> : x \in Page}
            /\ UNCHANGED <<page, start, end>>
            /\ total' \in {0, Cardinality(Window)} \/ total' = total
        BY <1>6, <2>3, ListEffect, <1>1 DEF plan
      <3>2. ASSUME Cardinality(records') < PageSize, NEW y \in Early PROVE y \in Read'
        <4>1. y \in Window /\ Position(y) \in Nat /\ page \in Nat \ {0} /\ changed \in [Items -> Nat]
          BY <1>1, StateFacts
        <4>2. Cardinality(records') \in Nat /\ PageSize \in Nat
          <5>1. IsFiniteSet(records')
            BY <3>1, PageFinite
          <5> QED BY <5>1, FS_CardinalityType, Bounds
        <4>3. ~(page * PageSize < Position(y))
          <5> SUFFICES ASSUME page * PageSize < Position(y) PROVE FALSE
            OBVIOUS
          <5>1. PageSize <= Cardinality(records')
            BY <3>1, <4>1, PageFull
          <5> QED BY <3>2, <4>2, <5>1
        <4>4. Position(y)' <= page * PageSize
          BY <1>1, <2>1, <4>1, <4>3, PageBounds, StateFacts
        <4> QED BY <2>1, <3>1, <4>4 DEF Read, Reached
      <3>3. ASSUME total' # 0, NEW y \in Early PROVE Position(y)' <= total'
        <4>1. y \in Window /\ y \in Items
          BY <1>1, StateFacts
        <4>2. CASE total' = Cardinality(Window)
          BY <2>1, <4>1, <4>2, PositionRange
        <4>3. CASE total' = total
          BY <1>1, <2>1, <3>3, <4>1, <4>3 DEF LastPage, Pages
        <4> QED BY <3>1, <3>3, <4>2, <4>3
      <3> QED BY <2>1, <3>1, <3>2, <3>3 DEF LastPage
    <2> QED BY <2>2, <2>3
  <1>7. CASE Upserts
    <2> SUFFICES ASSUME pc' \in Pages PROVE LastPage'
      BY <1>2
    <2>1. /\ Early' = Early /\ Read' = Read /\ \A x \in Items : Position(x)' = Position(x)
          /\ UNCHANGED <<records, total, kind>> /\ pc = "upsert"
      BY <1>1, <1>7, UpsertFrame, UpsertEffect
    <2>2. \A y \in Early : Position(y)' = Position(y)
      BY <1>1, <2>1, StateFacts
    <2>3. pc' = "detail" /\ kind = "returns" => Early \subseteq Read
      BY <1>1, <1>7, <2>1, UpsertEffect, LastPageReads DEF GoesOn, Turns, EndRun
    <2> QED BY <1>1, <2>1, <2>2, <2>3 DEF LastPage, Pages
  <1>8. CASE UpdateOrderDetail \/ UpsertReturnDetail
    <2> SUFFICES ASSUME pc' \in Pages PROVE LastPage'
      BY <1>2
    <2>1. /\ Early' = Early /\ Read' = Read /\ \A x \in Items : Position(x)' = Position(x)
          /\ UNCHANGED <<records, total, kind>> /\ pc = "detail" /\ pc' \in {"detail", "list"}
      BY <1>1, <1>8, DetailFrame, DetailEffect DEF GoesOn, Turns
    <2>2. \A y \in Early : Position(y)' = Position(y)
      BY <1>1, <2>1, StateFacts
    <2> QED BY <1>1, <2>1, <2>2 DEF LastPage, Pages
  <1>9. StartRun \/ Stop => pc' \notin Pages
    BY DEF StartRun, Stop, EndRun, Pages
  <1>10. Tick \/ UNCHANGED vars =>
             UNCHANGED <<changed, start, end, pc, page, records, total, kind>>
    BY DEF Tick, vars, shein, database, run, plan, answers
  <1>11. (\E x \in Items : StoreSnapshot(x)) =>
             UNCHANGED <<changed, start, end, pc, page, records, total, kind>>
    BY <1>1, SnapshotEffect
  <1> QED BY <1>11, <1>2, <1>3, <1>4, <1>5, <1>6, <1>7, <1>8, <1>9, <1>10 DEF Steps

\* What changed after the interval is kept when a cursor moves past it.
LEMMA LateKept ==
    ASSUME SyncInv, pc \in Pages, Steps,
           ListPage \/ Upserts \/ UpdateOrderDetail \/ UpsertReturnDetail \/ Stop,
           NEW y \in Items, NEW z \in Items,
           end <= changed[y], changed[y] # 0, changed[y] < Mark'[z] - Overlap
    PROVE  EntryKept(y)' /\ DetailKept(y)'
  <1> USE StateFacts DEF SyncInv
  <1>1. ASSUME UNCHANGED <<changed, stored, updated, detailed, seen, kind>>,
               slipped \subseteq slipped', undetailed \subseteq undetailed'
        PROVE  EntryKept(y)' /\ DetailKept(y)'
    <2>1. Mark' = Mark
      BY <1>1 DEF Mark
    <2>2. EntryKept(y) /\ DetailKept(y)
      BY <2>1 DEF Late
    <2> QED BY <1>1, <2>2 DEF EntryKept, DetailKept
  <1>2. CASE ListPage
    BY <1>1, <1>2, ListEffect
  <1>3. CASE Stop
    BY <1>1, <1>3 DEF Stop, shein, database
  <1>4. CASE Upserts
    <2>1. /\ pc = "upsert" /\ Oldest \in todo /\ Oldest[2] \in Items /\ Oldest[1] \in Nat
          /\ UNCHANGED <<changed, kind>>
          /\ stored' = [stored EXCEPT ![Oldest[2]] = Oldest[1]]
      BY <1>4, UpsertEffect
    <2>2. CASE kind # "products"
      <3>1. Oldest[1] <= end /\ \A x \in Items : updated[x] <= end
        BY <2>1, <2>2 DEF StateInv, Fresh, Times
      <3>2. updated'[z] <= end /\ Mark' = updated'
        BY <1>4, <2>1, <2>2, <3>1, UpsertKeeps DEF Mark
      <3>3. updated'[z] \in Nat
        BY <1>4, <2>1, <2>2, UpsertKeeps
      <3> QED BY <3>2, <3>3
    <2>3. CASE kind = "products"
      <3>1. /\ Oldest[1] = changed[Oldest[2]]
            /\ Outrun(now) \ {Oldest[2]} \subseteq slipped'
        BY <1>4, <2>1, <2>3, UpsertEffect DEF StateInv, Fresh
      <3>2. Mark'[z] <= now /\ Mark'[z] \in Nat
        <4>1. seen' = [seen EXCEPT ![Oldest[2]] = now] /\ Mark = seen /\ Mark' = seen'
          BY <1>4, <2>1, <2>3, UpsertEffect DEF Mark
        <4> QED BY <2>1, <4>1 DEF StateInv, TypeInv
      <3>3. CASE y = Oldest[2]
        BY <2>1, <2>3, <3>1, <3>3 DEF EntryKept, DetailKept, StateInv, TypeInv
      <3>4. CASE y # Oldest[2] /\ Current(y)
        BY <2>1, <2>3, <3>4 DEF Current, EntryKept, DetailKept, StateInv, TypeInv
      <3>5. CASE y # Oldest[2] /\ ~Current(y)
        <4>1. y \in Outrun(now)
          BY <3>2, <3>5 DEF Outrun
        <4> QED BY <3>1, <3>5, <4>1 DEF EntryKept, DetailKept
      <3> QED BY <3>3, <3>4, <3>5
    <2> QED BY <2>2, <2>3
  <1>5. CASE UpdateOrderDetail \/ UpsertReturnDetail
    <2>1. /\ pc = "detail" /\ kind \in {"orders", "returns"} /\ Oldest[2] \in Items
          /\ UNCHANGED <<changed, seen, kind>> /\ (Answered(Oldest[2]) \/ LeftOut(Oldest[2]))
      BY <1>5, DetailEffect DEF StateInv, Shape
    <2>2. CASE updated'[z] = updated[z]
      <3>1. Mark'[z] = Mark[z]
        BY <2>1, <2>2 DEF Mark
      <3>2. EntryKept(y) /\ DetailKept(y)
        BY <3>1 DEF Late
      <3> QED BY <1>5, <3>2, DetailKeeps
    <2>3. CASE updated'[z] # updated[z]
      <3>1. /\ kind = "returns" /\ updated'[z] = changed[Oldest[2]] /\ Answered(Oldest[2])
            /\ stored' = [stored EXCEPT ![Oldest[2]] = changed[Oldest[2]]]
            /\ slipped' = (slipped \cup Outrun(changed[Oldest[2]])) \ {Oldest[2]}
            /\ detailed' = detailed \cup {Oldest[2]}
        BY <2>1, <2>3 DEF Answered, LeftOut, StateInv, TypeInv
      <3>2. Mark'[z] = changed[Oldest[2]]
        BY <2>1, <3>1 DEF Mark
      <3>3. CASE y = Oldest[2]
        BY <2>1, <3>1, <3>3 DEF EntryKept, DetailKept, StateInv, TypeInv
      <3>4. CASE y # Oldest[2] /\ Current(y)
        BY <2>1, <3>1, <3>4 DEF Current, EntryKept, DetailKept, StateInv, TypeInv
      <3>5. CASE y # Oldest[2] /\ ~Current(y)
        <4>1. y \in Outrun(changed[Oldest[2]])
          BY <3>2, <3>5 DEF Outrun
        <4> QED BY <3>1, <3>5, <4>1 DEF EntryKept, DetailKept
      <3> QED BY <3>3, <3>4, <3>5
    <2> QED BY <2>2, <2>3
  <1> QED BY <1>2, <1>3, <1>4, <1>5

LEMMA LateStep ==
    ASSUME SyncInv, Steps
    PROVE  Late'
  <1>1. StateInv /\ Late
    BY DEF SyncInv
  <1> USE DEF Late
  <1>2. ASSUME pc' \notin Pages PROVE Late'
    BY <1>2
  <1>3. CASE Tick \/ UNCHANGED vars
    <2>1. UNCHANGED <<changed, end, pc, stored, updated, seen, kind>>
          /\ UNCHANGED <<detailed, slipped, undetailed>>
      BY <1>3 DEF Tick, vars, shein, database, history, run, plan
    <2> QED BY <1>1, <2>1 DEF Mark, EntryKept, DetailKept
  <1>4. CASE \E x \in Items : Change(x)
    <2>1. PICK x \in Items : Change(x)
      BY <1>4
    <2>2. /\ UNCHANGED <<pc, kind, end, stored, updated, seen>>
          /\ detailed' = detailed \ {x} /\ undetailed' = undetailed \ {x}
          /\ changed' = [changed EXCEPT ![x] = now]
      BY <2>1 DEF Change, run, plan
    <2>3. /\ changed'[x] = now /\ \A y \in Items : y # x => changed'[y] = changed[y]
          /\ Mark' = Mark /\ now \in Nat /\ Overlap \in Nat
          /\ \A z \in Items : Mark[z] \in Nat /\ Mark[z] <= now
      BY <1>1, <2>2, StateFacts DEF Mark
    <2> SUFFICES ASSUME pc \in Pages, NEW y \in Items, NEW z \in Items,
                        end <= changed'[y], changed'[y] # 0, changed'[y] < Mark[z] - Overlap
                 PROVE  EntryKept(y)' /\ DetailKept(y)'
      BY <2>2, <2>3
    <2>4. y # x /\ changed'[y] = changed[y]
      BY <2>3
    <2>5. EntryKept(y) /\ DetailKept(y)
      BY <1>1, <2>4
    <2>6. slipped \ {x} \subseteq slipped'
      BY <1>1, <2>1, ChangeMoves
    <2> QED BY <2>2, <2>4, <2>5, <2>6 DEF EntryKept, DetailKept
  <1>5. CASE Plan
    <2> SUFFICES ASSUME pc' \in Pages PROVE Late'
      BY <1>2
    <2>1. /\ pc \notin Pages /\ slipped \subseteq slipped'
          /\ UNCHANGED <<changed, stored, updated, detailed, seen, kind, undetailed>>
      BY <1>1, <1>5, PlanEffect DEF Pages
    <2>2. Mark' = Mark
      BY <2>1 DEF Mark
    <2> QED BY <2>1, <2>2 DEF SyncInv, Settled, EntryKept, DetailKept
  <1>6. CASE ListPage \/ Upserts \/ UpdateOrderDetail \/ UpsertReturnDetail
    <2> SUFFICES ASSUME pc' \in Pages PROVE Late'
      BY <1>2
    <2>1. UNCHANGED <<changed, end>> /\ pc \in Pages
      <3>1. CASE ListPage
        BY <1>1, <3>1, ListEffect, ListReads DEF Pages
      <3>2. CASE Upserts
        BY <1>1, <3>2, UpsertFrame, UpsertEffect DEF Pages
      <3>3. CASE UpdateOrderDetail \/ UpsertReturnDetail
        BY <1>1, <3>3, DetailFrame, DetailEffect DEF Pages
      <3> QED BY <1>6, <3>1, <3>2, <3>3
    <2> SUFFICES ASSUME NEW y \in Items, NEW z \in Items,
                        end <= changed[y], changed[y] # 0, changed[y] < Mark'[z] - Overlap
                 PROVE  EntryKept(y)' /\ DetailKept(y)'
      BY <2>1
    <2> QED BY <1>6, <2>1, LateKept
  <1>7. CASE StartRun \/ Stop
    BY <1>2, <1>7 DEF StartRun, Stop, EndRun, Pages
  <1>8. CASE \E x \in Items : StoreSnapshot(x)
    <2>1. PICK x \in Items : StoreSnapshot(x)
      BY <1>8
    <2>2. /\ UNCHANGED <<changed, end, pc, updated, kind>> /\ kind = "orders"
          /\ \A y \in Items : /\ EntryKept(y) => EntryKept(y)'
                              /\ DetailKept(y) => DetailKept(y)'
      BY <1>1, <2>1, SnapshotEffect
    <2>3. Mark' = Mark
      BY <2>2 DEF Mark
    <2> QED BY <1>1, <2>2, <2>3
  <1> QED BY <1>3, <1>4, <1>5, <1>6, <1>7, <1>8 DEF Steps

\* What is behind a cursor is kept, but for the details that the run has
\* still to fetch.
LEMMA BehindKept ==
    ASSUME SyncInv, pc \in Pages, kind # "products", NEW x \in Items, NEW z \in Items,
           changed[x] # 0, changed[x] < updated[z] - Overlap
    PROVE  /\ EntryKept(x)
           /\ DetailKept(x) \/ x \in ItemsOf(records) \cup listed
  <1> USE DEF SyncInv, ListInv
  <1>1. Mark = updated /\ (changed[x] < start \/ x \in Early \/ end <= changed[x])
    BY StateFacts DEF Mark, Early
  <1>2. CASE changed[x] < start
    BY <1>2 DEF Older
  <1>4. CASE end <= changed[x]
    BY <1>1, <1>4 DEF Late
  <1>3. CASE x \in Early
    <2>1. Overlap \in Nat /\ updated[z] \in Nat /\ changed[x] \in Nat
      BY <1>3, StateFacts
    <2>2. x \in Read
      BY <1>3, <2>1 DEF Unread
    <2>3. EntryKept(x)
      <3>1. ~(pc = "upsert" /\ <<changed[x], x>> \in todo)
        BY <2>1 DEF NotBehind
      <3> QED BY <2>2, <3>1 DEF EntriesRead
    <2>4. kind = "orders" \/ kind = "returns"
      BY StateFacts
    <2>5. CASE kind = "orders"
      BY <2>2, <2>3, <2>5 DEF OrdersRead, StateInv, Shape, ItemsOf
    <2>6. CASE kind = "returns"
      BY <2>2, <2>3, <2>6 DEF ReturnsRead, StateInv, Shape
    <2> QED BY <2>4, <2>5, <2>6
  <1> QED BY <1>1, <1>2, <1>3, <1>4

\* A run that ends having kept all it had to ask for leaves nothing behind.
LEMMA EndSettles ==
    ASSUME SyncInv, UNCHANGED <<changed, kind>>,
           \A x \in Items : changed[x] # 0 /\ changed[x] < start =>
                                EntryKept(x)' /\ DetailKept(x)',
           \A x \in Early : EntryKept(x)' /\ DetailKept(x)',
           \A x, z \in Items : end <= changed[x] /\ changed[x] # 0
                                    /\ changed[x] < Mark'[z] - Overlap =>
                                EntryKept(x)' /\ DetailKept(x)'
    PROVE  Settled'
  <1> SUFFICES ASSUME NEW x \in Items, NEW z \in Items, changed[x] # 0,
                      changed[x] < Mark'[z] - Overlap
               PROVE  EntryKept(x)' /\ DetailKept(x)'
    BY DEF Settled
  <1>1. changed[x] < start \/ x \in Early \/ end <= changed[x]
    BY StateFacts DEF SyncInv, Early
  <1> QED BY <1>1

LEMMA SettledStep ==
    ASSUME SyncInv, Steps
    PROVE  Settled'
  <1> USE DEF SyncInv, ListInv
  <1>1. StateInv
    OBVIOUS
  <1>2. ASSUME pc' \in Pages PROVE Settled'
    BY <1>2 DEF Settled
  <1>3. ASSUME pc \notin Pages, UNCHANGED <<changed, stored, updated, detailed, seen, kind>>,
               slipped \subseteq slipped', undetailed \subseteq undetailed'
        PROVE  Settled'
    <2>1. Mark' = Mark
      BY <1>3 DEF Mark
    <2> QED BY <1>3, <2>1 DEF Settled, EntryKept, DetailKept
  <1>4. CASE Tick
    <2>1. CASE pc \in Pages
      BY <1>2, <1>4, <2>1 DEF Tick, run
    <2>2. CASE pc \notin Pages
      BY <1>3, <1>4, <2>2 DEF Tick, run, database, history
    <2> QED BY <2>1, <2>2
  <1>5. CASE \E x \in Items : Change(x)
    <2>1. PICK x \in Items : Change(x)
      BY <1>5
    <2>2. /\ UNCHANGED <<pc, kind, stored, updated, seen, now>>
          /\ detailed' = detailed \ {x} /\ undetailed' = undetailed \ {x}
          /\ changed' = [changed EXCEPT ![x] = now]
      BY <2>1 DEF Change, run
    <2> SUFFICES ASSUME pc \notin Pages PROVE Settled'
      BY <1>2, <2>2
    <2>3. slipped' = slipped \ {x}
      BY <2>1 DEF Change, Moved, Reading, Pages
    <2>4. changed'[x] = now /\ \A y \in Items : y # x => changed'[y] = changed[y]
      BY <2>2, StateFacts
    <2>5. Mark' = Mark
      BY <2>2 DEF Mark
    <2>6. \A z \in Items : ~(now < Mark[z] - Overlap)
      BY StateFacts
    <2>7. ASSUME NEW y \in Items, NEW z \in Items, changed'[y] # 0,
                 changed'[y] < Mark[z] - Overlap
          PROVE  EntryKept(y)' /\ DetailKept(y)'
      <3>1. y # x
        BY <2>4, <2>6, <2>7
      <3>2. EntryKept(y) /\ DetailKept(y)
        BY <2>4, <2>7, <3>1 DEF Settled
      <3> QED BY <2>2, <2>3, <2>4, <3>1, <3>2 DEF EntryKept, DetailKept
    <2> QED BY <2>5, <2>7 DEF Settled
  <1>6. CASE StartRun
    BY <1>3, <1>6 DEF StartRun, shein, database, history, Pages
  <1>7. CASE Plan
    BY <1>1, <1>3, <1>7, PlanEffect DEF Pages
  <1>8. CASE ListPage
    <2> SUFFICES ASSUME pc' \notin Pages PROVE Settled'
      BY <1>2
    <2>1. /\ pc = "list" /\ Page = {} /\ (kind # "returns" \/ listed = {})
          /\ UNCHANGED <<now, changed, stored, detailed, kind, slipped, undetailed>>
      BY <1>1, <1>8, ListEffect DEF FetchDetails, Pages
    <2>2. Early \subseteq Read
      BY <1>1, <1>8, <2>1, ListReads
    <2>3. \A x \in Early : EntryKept(x) /\ DetailKept(x)
      BY <2>1, <2>2, StateFacts DEF EntriesRead, OrdersRead, ReturnsRead, Pages, DetailKept
    <2>4. \A x \in Items : (EntryKept(x) => EntryKept(x)') /\ (DetailKept(x) => DetailKept(x)')
      BY <2>1 DEF EntryKept, DetailKept
    <2>5. \A x \in Items : changed[x] # 0 /\ changed[x] < start =>
                               EntryKept(x)' /\ DetailKept(x)'
      BY <2>1, <2>4 DEF Older, Pages
    <2>6. \A x \in Early : EntryKept(x)' /\ DetailKept(x)'
      BY <2>3, <2>4, StateFacts
    <2>9. \A x, z \in Items : end <= changed[x] /\ changed[x] # 0
                                   /\ changed[x] < Mark'[z] - Overlap =>
                               EntryKept(x)' /\ DetailKept(x)'
      BY LateKept, <1>8, <2>1 DEF Pages
    <2> QED BY <1>1, <2>1, <2>5, <2>6, <2>9, EndSettles
  <1>9. CASE Upserts
    <2> SUFFICES ASSUME pc' \notin Pages PROVE Settled'
      BY <1>2
    <2>1. /\ pc = "upsert" /\ kind = "products" /\ todo = {Oldest} /\ IsLastPage
          /\ UNCHANGED <<now, changed, kind>>
      BY <1>1, <1>9, UpsertEffect DEF GoesOn, Turns, FetchDetails, Pages
    <2>2. Early \subseteq Read
      BY <1>1, <2>1, LastPageReads
    <2>3. \A x \in Early : EntryKept(x)' /\ DetailKept(x)'
      <3> TAKE x \in Early
      <3>1. x \in Items /\ changed[x] < end /\ (EntryKept(x) \/ <<changed[x], x>> = Oldest)
        BY <2>1, <2>2, StateFacts DEF EntriesRead, Pages, Early
      <3> QED BY <1>1, <1>9, <2>1, <3>1, UpsertKeeps DEF DetailKept
    <2>4. \A x \in Items : changed[x] # 0 /\ changed[x] < start =>
                               EntryKept(x)' /\ DetailKept(x)'
      BY <1>1, <1>9, <2>1, UpsertKeeps DEF Older, Pages
    <2>9. \A x, z \in Items : end <= changed[x] /\ changed[x] # 0
                                   /\ changed[x] < Mark'[z] - Overlap =>
                               EntryKept(x)' /\ DetailKept(x)'
      BY LateKept, <1>9, <2>1 DEF Pages
    <2> QED BY <1>1, <2>1, <2>3, <2>4, <2>9, EndSettles
  <1>10. CASE UpdateOrderDetail \/ UpsertReturnDetail
    <2> SUFFICES ASSUME pc' \notin Pages PROVE Settled'
      BY <1>2
    <2>1. /\ pc = "detail" /\ kind \in {"orders", "returns"} /\ todo = {Oldest}
          /\ UNCHANGED <<now, changed, kind>> /\ (kind = "orders" => IsLastPage)
      BY <1>1, <1>10, DetailEffect DEF GoesOn, Turns, Pages
    <2>2. Early \subseteq Read
      BY <1>1, <2>1, LastPageReads DEF LastPage
    <2>3. \A x \in Early : EntryKept(x)' /\ DetailKept(x)'
      <3> TAKE x \in Early
      <3>1. x \in Items /\ EntryKept(x) /\ (DetailKept(x) \/ x = Oldest[2])
        BY <2>1, <2>2, StateFacts DEF EntriesRead, OrdersRead, ReturnsRead, Pages, ItemsOf
      <3> QED BY <1>1, <1>10, <3>1, DetailKeeps
    <2>4. \A x \in Items : changed[x] # 0 /\ changed[x] < start =>
                               EntryKept(x)' /\ DetailKept(x)'
      BY <1>1, <1>10, <2>1, DetailKeeps DEF Older, Pages
    <2>9. \A x, z \in Items : end <= changed[x] /\ changed[x] # 0
                                   /\ changed[x] < Mark'[z] - Overlap =>
                               EntryKept(x)' /\ DetailKept(x)'
      BY LateKept, <1>10, <2>1 DEF Pages
    <2> QED BY <1>1, <2>1, <2>3, <2>4, <2>9, EndSettles
  <1>11. CASE Stop
    <2>1. /\ UNCHANGED <<now, changed, stored, updated, detailed, seen, kind>> /\ pc' = "idle"
          /\ slipped \subseteq slipped' /\ undetailed \subseteq undetailed'
      BY <1>11 DEF Stop, shein, database, EndRun
    <2>2. CASE pc \notin Pages
      BY <1>3, <2>1, <2>2
    <2>3. CASE pc \in Pages /\ kind # "products"
      <3>1. \A x \in ItemsOf(records) \cup listed : x \in detailed \cup undetailed'
        BY <1>11, <2>3 DEF Stop, Unfinished, Reading, Pages
      <3> SUFFICES ASSUME NEW x \in Items, NEW z \in Items, changed[x] # 0,
                          changed[x] < updated[z] - Overlap
                   PROVE  EntryKept(x)' /\ DetailKept(x)'
        BY <2>1, <2>3 DEF Settled, Mark
      <3>2. EntryKept(x) /\ (DetailKept(x) \/ x \in ItemsOf(records) \cup listed)
        BY <2>3, BehindKept
      <3> QED BY <2>1, <3>1, <3>2 DEF EntryKept, DetailKept
    <2>4. CASE pc \in Pages /\ kind = "products"
      <3>1. \A x \in Window : stored[x] # 0 \/ x \in slipped'
        BY <1>11, <2>4 DEF Stop, Overtaken, Reading, Pages
      <3>2. \A x \in Items : stored[x] \in {0, changed[x]}
        BY <2>4 DEF StateInv, Fresh
      <3>3. \A x \in Early : EntryKept(x)' /\ DetailKept(x)'
        BY <2>1, <2>4, <3>1, <3>2, StateFacts DEF EntryKept, DetailKept
      <3>4. \A x \in Items : changed[x] # 0 /\ changed[x] < start =>
                                 EntryKept(x)' /\ DetailKept(x)'
        BY <2>1, <2>4 DEF Older, EntryKept, DetailKept
      <3>5. \A x, z \in Items : end <= changed[x] /\ changed[x] # 0
                                     /\ changed[x] < Mark'[z] - Overlap =>
                                 EntryKept(x)' /\ DetailKept(x)'
        BY LateKept, <1>11, <2>4
      <3> QED BY <1>1, <2>1, <3>3, <3>4, <3>5, EndSettles
    <2> QED BY <2>2, <2>3, <2>4
  <1>12. CASE UNCHANGED vars
    <2>1. CASE pc \in Pages
      BY <1>2, <1>12, <2>1 DEF vars, run
    <2>2. CASE pc \notin Pages
      BY <1>3, <1>12, <2>2 DEF vars, run, shein, database, history
    <2> QED BY <2>1, <2>2
  <1>13. CASE \E x \in Items : StoreSnapshot(x)
    <2>1. PICK x \in Items : StoreSnapshot(x)
      BY <1>13
    <2>2. /\ UNCHANGED <<changed, pc, updated, kind>> /\ kind = "orders"
          /\ \A y \in Items : /\ EntryKept(y) => EntryKept(y)'
                              /\ DetailKept(y) => DetailKept(y)'
      BY <1>1, <2>1, SnapshotEffect
    <2>3. Mark' = Mark
      BY <2>2 DEF Mark
    <2> QED BY <1>1, <2>2, <2>3 DEF Settled
  <1> QED BY <1>13, <1>4, <1>5, <1>6, <1>7, <1>8, <1>9, <1>10, <1>11, <1>12 DEF Steps

-----------------------------------------------------------------------------
(* The theorems.                                                           *)

\* The invariant of every run of the synchronisation: what is before its
\* interval, what it has read and what it has still to read.
THEOREM SyncInvariant == Spec => []SyncInv
  <1>1. Init => SyncInv
    <2> SUFFICES ASSUME Init PROVE SyncInv
      OBVIOUS
    <2>1. TypeInv
      BY FS_EmptySet DEF Init, TypeInv
    <2>2. Shape /\ Times /\ Fresh
      BY <2>1, Bounds DEF Init, Shape, Times, Fresh, Pages, Mark
    <2>3. Older /\ Settled /\ Late /\ ListInv
      BY <2>1, Bounds DEF Init, Older, Settled, Late, ListInv, EntriesRead, OrdersRead,
         ReturnsRead, Unread, NotBehind, LastPage, Pages, Mark
    <2> QED BY <2>1, <2>2, <2>3 DEF SyncInv, StateInv
  <1>2. SyncInv /\ [Next]_vars => SyncInv'
    <2> SUFFICES ASSUME SyncInv, Steps PROVE SyncInv'
      BY NextSteps
    <2>1. StateInv
      BY DEF SyncInv
    <2>2. TypeInv' /\ Shape' /\ Times' /\ Fresh'
      BY <2>1, TypeStep, ShapeStep, TimesStep, FreshStep
    <2>3. Older' /\ Settled' /\ Late'
      BY OlderStep, SettledStep, LateStep
    <2>4. ListInv'
      BY EntriesReadStep, OrdersReadStep, ReturnsReadStep, UnreadStep, NotBehindStep,
         LastPageStep DEF ListInv
    <2> QED BY <2>2, <2>3, <2>4 DEF SyncInv, StateInv
  <1> QED BY <1>1, <1>2, PTL DEF Spec

LEMMA BehindACursor ==
    ASSUME TypeInv, NEW x \in Behind
    PROVE  /\ x \in Items /\ changed[x] # 0
           /\ \E z \in Items : changed[x] < Mark[z] - Overlap
  BY CursorIsNewest DEF Behind

\* No entry that the next run will not ask for again is missing or out of
\* date, but for what was too old for the first run, moved past a reader,
\* changed while a run of returns outran the overlap or was overwritten by
\* the server: for every page size, overlap and look-back of the first run,
\* however long runs take, and wherever they stop.
THEOREM CursorSkips == Spec => []CursorSkipsNothing
  <1>1. SyncInv => CursorSkipsNothing
    <2> SUFFICES ASSUME SyncInv, kind # "products", NEW x \in Behind
                 PROVE  stored[x] = changed[x] \/ x \in slipped
      BY DEF CursorSkipsNothing
    <2>1. PICK z \in Items : changed[x] < Mark[z] - Overlap
      BY BehindACursor DEF SyncInv, StateInv
    <2>2. x \in Items /\ changed[x] # 0 /\ Mark = updated
      BY BehindACursor DEF SyncInv, StateInv, Mark
    <2>3. CASE pc \in Pages
      BY <2>1, <2>2, <2>3, BehindKept DEF EntryKept
    <2>4. CASE pc \notin Pages
      BY <2>1, <2>2, <2>4 DEF SyncInv, Settled, EntryKept
    <2> QED BY <2>3, <2>4
  <1> QED BY <1>1, SyncInvariant, PTL

\* The same for the details of orders and returns, which are written after
\* the entries that move the cursor: a missing one is that of a run at work,
\* or one that was left out of an answer, whose run stopped or that the
\* server overwrote.
THEOREM DetailsFollow == Spec => []DetailFollowsList
  <1>1. SyncInv => DetailFollowsList
    <2> SUFFICES ASSUME SyncInv, kind # "products", NEW x \in Behind
                 PROVE  \/ x \in detailed \cup slipped \cup undetailed
                        \/ Reading /\ x \in ItemsOf(records) \cup listed
      BY DEF DetailFollowsList
    <2>1. PICK z \in Items : changed[x] < Mark[z] - Overlap
      BY BehindACursor DEF SyncInv, StateInv
    <2>2. x \in Items /\ changed[x] # 0 /\ Mark = updated
      BY BehindACursor DEF SyncInv, StateInv, Mark
    <2>3. CASE pc \in Pages
      <3>1. Reading
        BY <2>3 DEF Reading, Pages
      <3> QED BY <2>1, <2>2, <2>3, <3>1, BehindKept DEF DetailKept
    <2>4. CASE pc \notin Pages
      BY <2>1, <2>2, <2>4 DEF SyncInv, Settled, DetailKept
    <2> QED BY <2>3, <2>4
  <1> QED BY <1>1, SyncInvariant, PTL

\* A product older than the time any row was last written, less the overlap,
\* is stored, was still to be read by a run that stopped or is by the run at
\* work, or was created while a run outran the overlap.
THEOREM ProductCursorSkips == Spec => []ProductCursorSkipsNothing
  <1>1. SyncInv => ProductCursorSkipsNothing
    <2> SUFFICES ASSUME SyncInv, kind = "products", NEW x \in Behind
                 PROVE  \/ stored[x] # 0 \/ x \in slipped \/ (Reading /\ x \in Window)
      BY DEF ProductCursorSkipsNothing
    <2>1. PICK z \in Items : changed[x] < Mark[z] - Overlap
      BY BehindACursor DEF SyncInv, StateInv
    <2>2. x \in Items /\ changed[x] # 0
      BY BehindACursor DEF SyncInv, StateInv
    <2>3. CASE pc \in Pages
      <3>1. changed[x] < start \/ x \in Early \/ end <= changed[x]
        BY <2>2, StateFacts DEF SyncInv, Early
      <3>2. Early \subseteq Window /\ Reading
        BY <2>3, StateFacts DEF SyncInv, Reading, Pages
      <3>3. changed[x] < start \/ end <= changed[x] => EntryKept(x)
        BY <2>1, <2>2, <2>3 DEF SyncInv, Older, Late
      <3> QED BY <2>2, <3>1, <3>2, <3>3 DEF EntryKept
    <2>4. CASE pc \notin Pages
      BY <2>1, <2>2, <2>4 DEF SyncInv, Settled, EntryKept
    <2> QED BY <2>3, <2>4
  <1> QED BY <1>1, SyncInvariant, PTL
=============================================================================
