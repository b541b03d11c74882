------------------------- MODULE ProfitReportProofs -------------------------
(***************************************************************************)
(* What holds of the profit report and of the pages that show it, for      *)
(* every set of orders, SKUs, lines, amounts and costs, and every sequence *)
(* of imports, mappings and exports.  The invariant is about the file; the *)
(* rest is arithmetic over the rows of a file that satisfies it.           *)
(***************************************************************************)
EXTENDS ReportPages, SetSums, SequenceTheorems

Statuses == {"excluded", "pending_pickup", "after_sales", "normal"}
Places == WarehouseSkus \cup {Unmapped}
CostAt(then, s) == IF then[s] = Unmapped THEN 0 ELSE Cost[then[s]]
Row(then, o, k) == RowCosting(o, k, CostAt(then, goods[o][k].sku))
FileOf(then) == UNION {{Row(then, o, k) : k \in DOMAIN goods[o]} : o \in Orders}

Stored ==
    /\ goods \in [Orders -> Goods] /\ status \in [Orders -> Statuses]
    /\ charge \in [Orders -> Charges \cup {0}] /\ returned \in SUBSET Orders
    /\ mapping \in [Skus -> Places]

\* The file is the one of what is stored, but for the mapping: one and the same
\* for all its rows, and not that of now when SKUs were mapped anew since.
FileInv == items = {} \/ \E then \in [Skus -> Places] : items = FileOf(then)

ReportInv == Stored /\ FileInv

\* An order has lines, and finitely many.
LEMMA GoodsTypes ==
    ASSUME NEW g \in Goods
    PROVE  /\ g \in Seq([sku : Skus, weight : Nat, income : Nat]) /\ g # <<>>
           /\ Len(g) \in Nat \ {0} /\ DOMAIN g = 1..Len(g)
           /\ IsFiniteSet(DOMAIN g) /\ Cardinality(DOMAIN g) = Len(g)
           /\ \A k \in DOMAIN g : g[k].sku \in Skus /\ g[k].weight \in Nat /\ g[k].income \in Nat
  <1>1. g \in Seq([sku : Skus, weight : Nat, income : Nat]) /\ g # <<>>
    BY GoodsAssumption
  <1>2. Len(g) \in Nat \ {0} /\ DOMAIN g = 1..Len(g)
    BY <1>1
  <1>3. IsFiniteSet(DOMAIN g) /\ Cardinality(DOMAIN g) = Len(g)
    BY <1>2, FS_Interval
  <1> DEFINE L == [sku : Skus, weight : Nat, income : Nat]
  <1>4. \A k \in DOMAIN g : g[k] \in L
    <2>1. g \in Seq(L)
      BY <1>1
    <2> HIDE DEF L
    <2> QED BY <2>1
  <1> QED BY <1>1, <1>2, <1>3, <1>4

LEMMA InitInv == Init => ReportInv
  BY DEF Init, ReportInv, Stored, FileInv, Statuses, Places

\* The rows of a file and of an export, one for each line of an order.
LEMMA InFile ==
    ASSUME NEW then
    PROVE  \A x : x \in FileOf(then)
                 <=> \E o \in Orders : \E k \in DOMAIN goods[o] : x = Row(then, o, k)
  BY DEF FileOf

LEMMA InExport ==
    \A x : x \in ExportedRows
           <=> \E o \in Orders : \E k \in DOMAIN goods[o] : x = ExportedRow(o, k)
  BY DEF ExportedRows

\* An export writes the file of the mapping as it is.
LEMMA FileNow == ExportedRows = FileOf(mapping)
  <1>1. \A o, k : ExportedRow(o, k) = Row(mapping, o, k)
    BY DEF ExportedRow, Row, WarehouseCost, CostAt
  <1>2. \A x : x \in ExportedRows <=> x \in FileOf(mapping)
    <2> TAKE x
    <2>1. ASSUME x \in ExportedRows PROVE x \in FileOf(mapping)
      <3>1. PICK o \in Orders : \E k \in DOMAIN goods[o] : x = ExportedRow(o, k)
        BY <2>1, InExport
      <3>2. PICK k \in DOMAIN goods[o] : x = ExportedRow(o, k)
        BY <3>1
      <3>3. x = Row(mapping, o, k)
        BY <1>1, <3>2
      <3> QED BY <3>3, InFile
    <2>2. ASSUME x \in FileOf(mapping) PROVE x \in ExportedRows
      <3>1. PICK o \in Orders : \E k \in DOMAIN goods[o] : x = Row(mapping, o, k)
        BY <2>2, InFile
      <3>2. PICK k \in DOMAIN goods[o] : x = Row(mapping, o, k)
        BY <3>1
      <3>3. x = ExportedRow(o, k)
        BY <1>1, <3>2
      <3> QED BY <3>3, InExport
    <2> QED BY <2>1, <2>2
  <1> QED BY <1>2

\* Steps that rewrite the file, change what is stored, or map a SKU.
LEMMA ExportInv ==
    ASSUME Stored', Export
    PROVE  ReportInv'
  <1>1. items' = FileOf(mapping)'
    <2>1. (ExportedRows = FileOf(mapping))'
      BY FileNow, PTL
    <2> QED BY <2>1 DEF Export
  <1>2. mapping' \in [Skus -> Places]
    BY DEF Stored
  <1>3. FileInv'
    BY <1>1, <1>2, Zenon DEF FileInv
  <1> QED BY <1>3 DEF ReportInv

LEMMA StoredAfter ==
    ASSUME Stored, [Next]_vars
    PROVE  Stored'
  <1>1. ASSUME NEW o \in Orders, SyncOrders(o) PROVE Stored'
    BY <1>1 DEF Stored, SyncOrders, Later, Statuses
  <1>2. ASSUME NEW o \in Orders, SyncReturns(o) PROVE Stored'
    BY <1>2 DEF Stored, SyncReturns
  <1>3. ASSUME NEW s \in Skus, Remap(s) PROVE Stored'
    BY <1>3 DEF Stored, Remap, Places
  <1>4. CASE Refresh
    BY <1>4 DEF Stored, Refresh
  <1>5. CASE UNCHANGED vars
    BY <1>5 DEF Stored, vars
  <1> QED BY <1>1, <1>2, <1>3, <1>4, <1>5 DEF Next

LEMMA RemapInv ==
    ASSUME FileInv, Stored, NEW s \in Skus, Remap(s)
    PROVE  FileInv'
  <1>1. \A then : FileOf(then)' = FileOf(then)
    BY DEF Remap, FileOf, Row, CostAt, RowCosting, Policy, Original, Share
  <1> QED BY <1>1, Zenon DEF FileInv, Remap

\* What is stored is well formed, and the file, once there is one, holds a row
\* for each line of each order as it is stored now, all of them with the costs
\* of one mapping, whatever has been mapped, mapped anew or unmapped since
\* (export_orders_profit.py; platform_mappings.py resolves the mapping).
THEOREM ReportInvariant == Spec => []ReportInv
  <1>1. Init => ReportInv
    BY InitInv
  <1>2. ASSUME ReportInv, [Next]_vars PROVE ReportInv'
    <2>0. Stored /\ FileInv /\ Stored'
      BY <1>2, StoredAfter DEF ReportInv
    <2>1. ASSUME Export PROVE ReportInv'
      BY <2>0, <2>1, ExportInv
    <2>2. ASSUME NEW o \in Orders, SyncOrders(o) \/ SyncReturns(o) PROVE ReportInv'
      BY <2>1, <2>2 DEF SyncOrders, SyncReturns
    <2>3. ASSUME NEW s \in Skus, Remap(s) PROVE ReportInv'
      BY <2>0, <2>3, RemapInv DEF ReportInv
    <2>4. CASE Refresh
      BY <2>1, <2>4 DEF Refresh
    <2>5. CASE UNCHANGED vars
      <3>1. \A then : FileOf(then)' = FileOf(then)
        BY <2>5 DEF vars, FileOf, Row, CostAt, RowCosting, Policy, Original, Share
      <3> QED BY SMTT(30), <2>0, <2>5, <3>1 DEF vars, ReportInv, FileInv
    <2> QED BY <1>2, <2>2, <2>3, <2>4, <2>5 DEF Next
  <1> QED BY <1>1, <1>2, PTL DEF Spec

-----------------------------------------------------------------------------
(* The rows.                                                               *)
Policies == {"standard", "after_sales_cost", "return_profit_zeroed",
             "pending_pickup_without_fulfillment_fee", "revenue_excluded_status"}
Amounts == [base : Int, shipping : Int, charge : Int, gross : Int]
Rows == [order : Orders, line : Nat, sku : Skus, policy : Policies, original : Amounts,
         amounts : Amounts, ruleCost : Nat, pnlCost : Nat, afterSales : Int, profit : Int]

\* The sum over the rows of a table of one of its columns.
AddsUpTo(table, c, total) == MapThenSumSet(LAMBDA k : table[k][c], DOMAIN table) = total

\* The sum of a column of a table.
LEMMA ColumnSum ==
    ASSUME NEW table, IsFiniteSet(DOMAIN table), NEW c
    PROVE  AddsUpTo(table, c, SumOf([k \in DOMAIN table |-> table[k][c]], DOMAIN table))
  <1> DEFINE S == DOMAIN table
             f == [k \in S |-> table[k][c]]
             F(it) == it = [U \in SUBSET S |-> IF U = {} THEN 0
                              ELSE table[CHOOSE x \in U : TRUE][c]
                                     + it[U \ {CHOOSE x \in U : TRUE}]]
  <1>1. \A it : IsFold(it, f, S) <=> F(it)
    <2>1. \A U \in SUBSET S : U # {} => f[First(U)] = table[First(U)][c]
      BY FirstIn
    <2>2. \A it : [U \in SUBSET S |-> IF U = {} THEN 0 ELSE f[First(U)]
                                 + it[U \ {First(U)}]]
                = [U \in SUBSET S |-> IF U = {} THEN 0
                     ELSE table[First(U)][c] + it[U \ {First(U)}]]
      <3> HIDE DEF f
      <3> QED BY <2>1
    <2> HIDE DEF f, S
    <2> QED BY <2>2 DEF IsFold, First
  <1>2. MapThenSumSet(LAMBDA k : table[k][c], S) = (CHOOSE it : F(it))[S]
    BY Zenon DEF MapThenSumSet, MapThenFoldSet
  <1>3. \E it : F(it)
    <2> HIDE DEF F, f, S
    <2> QED BY <1>1, FoldExists DEF S
  <1> DEFINE it == CHOOSE it : F(it)
  <1>4. F(it)
    <2> HIDE DEF F
    <2> QED BY <1>3
  <1>5. IsFold(it, f, S)
    BY <1>1, <1>4
  <1> HIDE DEF it, F, f
  <1>6. SumOf(f, S) = it[S]
    BY <1>5, SumIsFold
  <1> QED BY <1>2, <1>6 DEF it, f, AddsUpTo

\* The totals of the report are sums of what is stored.
LEMMA TotalIs ==
    ASSUME NEW g \in Goods
    PROVE  /\ Total(g, "weight") = SumOf([k \in DOMAIN g |-> g[k].weight], DOMAIN g)
           /\ Total(g, "income") = SumOf([k \in DOMAIN g |-> g[k].income], DOMAIN g)
           /\ Total(g, "weight") \in Int /\ Total(g, "income") \in Int
  <1>1. [k \in DOMAIN g |-> g[k].weight] \in [DOMAIN g -> Int]
        /\ [k \in DOMAIN g |-> g[k].income] \in [DOMAIN g -> Int]
    BY GoodsTypes
  <1>2. \A c : Total(g, c) = SumOf([k \in DOMAIN g |-> g[k][c]], DOMAIN g)
    BY GoodsTypes, ColumnSum DEF Total, AddsUpTo
  <1>3. /\ Total(g, "weight") = SumOf([k \in DOMAIN g |-> g[k].weight], DOMAIN g)
        /\ Total(g, "income") = SumOf([k \in DOMAIN g |-> g[k].income], DOMAIN g)
    BY <1>2
  <1> QED BY <1>1, <1>3, GoodsTypes, SumFacts

\* A line gets a whole share of an amount.
LEMMA ShareInt ==
    ASSUME NEW g \in Goods, NEW k \in DOMAIN g, NEW a \in Int
    PROVE  Share(g, k, a) \in Int
  <1>1. \A x \in Int : \A y \in Int : y > 0 => x \div y \in Int
    OBVIOUS
  <1>2. \A x, y \in Int : x * y \in Int
    OBVIOUS
  <1> DEFINE w == g[k].weight
             i == g[k].income
             W == Total(g, "weight")
             I == Total(g, "income")
             n == Len(g)
  <1>3. w \in Int /\ i \in Int /\ W \in Int /\ I \in Int /\ n \in Int /\ n > 0
    <2>1. w \in Nat /\ i \in Nat /\ n \in Nat \ {0}
      BY GoodsTypes
    <2>2. W \in Int /\ I \in Int
      BY TotalIs, Zenon
    <2> QED BY <2>1, <2>2
  <1>4. Share(g, k, a) = IF W > 0 THEN (a * w) \div W ELSE IF I > 0 THEN (a * i) \div I
                         ELSE a \div n
    BY DEF Share
  <1> HIDE DEF w, i, W, I, n
  <1>5. a * w \in Int /\ a * i \in Int
    BY <1>2, <1>3
  <1> QED BY <1>1, <1>3, <1>4, <1>5

\* The amounts of a row are numbers.
LEMMA RowIs ==
    ASSUME Stored, NEW o \in Orders, NEW k \in DOMAIN goods[o], NEW c \in Nat
    PROVE  RowCosting(o, k, c) \in Rows
  <1>1. /\ goods[o] \in Goods /\ goods[o][k].income \in Int /\ goods[o][k].sku \in Skus
        /\ k \in Nat
    BY GoodsTypes DEF Stored
  <1>2. charge[o] \in Int /\ Shipping \in Int
    <2>1. charge[o] \in Charges \cup {0}
      BY DEF Stored
    <2>2. Shipping \in Int /\ Charges \subseteq Nat
      BY ReportAmountsAssumption
    <2>3. \A a \in Charges \cup {0} : a \in Int
      BY <2>2
    <2> QED BY <2>1, <2>2, <2>3, Zenon
  <1>3. Original(o, k) \in Amounts
    BY <1>1, <1>2, ShareInt DEF Original, Amounts
  <1>4. Zero \in Amounts
    BY DEF Zero, Amounts
  <1>5. Policy(o, k) \in Policies
    BY DEF Policy, Policies
  <1> QED BY <1>1, <1>3, <1>4, <1>5 DEF RowCosting, Rows, Amounts

\* Each row of the file is that of a line, with what the line cost then.
LEMMA RowOfLine ==
    ASSUME ReportInv, NEW r \in items
    PROVE  \E o \in Orders : \E k \in DOMAIN goods[o] : \E c \in Nat : r = RowCosting(o, k, c)
  <1>1. PICK then \in [Skus -> Places] : items = FileOf(then)
    BY DEF ReportInv, FileInv
  <1>2. PICK o \in Orders : \E k \in DOMAIN goods[o] : r = Row(then, o, k)
    BY <1>1, InFile
  <1>3. PICK k \in DOMAIN goods[o] : r = Row(then, o, k)
    BY <1>2
  <1>4. CostAt(then, goods[o][k].sku) \in Nat
    BY GoodsTypes, ReportAmountsAssumption DEF CostAt, Places, ReportInv, Stored
  <1> QED BY <1>3, <1>4 DEF Row

\* The sums the report is written with, as sums of functions.
LEMMA ChargeSum ==
    ASSUME NEW S, IsFiniteSet(S)
    PROVE  MapThenSumSet(LAMBDA r : r.amounts.charge, S)
             = SumOf([r \in S |-> r.amounts.charge], S)
  <1> DEFINE f == [r \in S |-> r.amounts.charge]
             Fold(it) == [U \in SUBSET S |-> IF U = {} THEN 0
                            ELSE (CHOOSE x \in U : TRUE).amounts.charge
                                 + it[U \ {CHOOSE x \in U : TRUE}]]
  <1>1. \A it : IsFold(it, f, S) <=> it = Fold(it)
    <2>1. \A U \in SUBSET S : U # {} => f[First(U)] = First(U).amounts.charge
      BY FirstIn
    <2>2. \A it : [U \in SUBSET S |-> IF U = {} THEN 0 ELSE f[First(U)]
                                 + it[U \ {First(U)}]]
                = Fold(it)
      <3> HIDE DEF f
      <3> QED BY <2>1 DEF First
    <2> HIDE DEF f, Fold
    <2> QED BY <2>2 DEF IsFold
  <1>2. MapThenSumSet(LAMBDA r : r.amounts.charge, S) = (CHOOSE it : it = Fold(it))[S]
    BY Zenon DEF MapThenSumSet, MapThenFoldSet
  <1> DEFINE it == CHOOSE it : it = Fold(it)
  <1> HIDE DEF f, Fold
  <1>3. IsFold(it, f, S)
    BY <1>1, FoldExists
  <1> HIDE DEF it
  <1>4. SumOf(f, S) = it[S]
    BY <1>3, SumIsFold
  <1> QED BY <1>2, <1>4 DEF it, f

LEMMA GrossSum ==
    ASSUME NEW S, IsFiniteSet(S)
    PROVE  MapThenSumSet(LAMBDA r : r.amounts.gross, S)
             = SumOf([r \in S |-> r.amounts.gross], S)
  <1> DEFINE f == [r \in S |-> r.amounts.gross]
             Fold(it) == [U \in SUBSET S |-> IF U = {} THEN 0
                            ELSE (CHOOSE x \in U : TRUE).amounts.gross
                                 + it[U \ {CHOOSE x \in U : TRUE}]]
  <1>1. \A it : IsFold(it, f, S) <=> it = Fold(it)
    <2>1. \A U \in SUBSET S : U # {} => f[First(U)] = First(U).amounts.gross
      BY FirstIn
    <2>2. \A it : [U \in SUBSET S |-> IF U = {} THEN 0 ELSE f[First(U)]
                                 + it[U \ {First(U)}]]
                = Fold(it)
      <3> HIDE DEF f
      <3> QED BY <2>1 DEF First
    <2> HIDE DEF f, Fold
    <2> QED BY <2>2 DEF IsFold
  <1>2. MapThenSumSet(LAMBDA r : r.amounts.gross, S) = (CHOOSE it : it = Fold(it))[S]
    BY Zenon DEF MapThenSumSet, MapThenFoldSet
  <1> DEFINE it == CHOOSE it : it = Fold(it)
  <1> HIDE DEF f, Fold
  <1>3. IsFold(it, f, S)
    BY <1>1, FoldExists
  <1> HIDE DEF it
  <1>4. SumOf(f, S) = it[S]
    BY <1>3, SumIsFold
  <1> QED BY <1>2, <1>4 DEF it, f

LEMMA ShippingAllocated ==
    ASSUME NEW S, IsFiniteSet(S)
    PROVE  MapThenSumSet(LAMBDA r : r.original.shipping, S)
             = SumOf([r \in S |-> r.original.shipping], S)
  <1> DEFINE f == [r \in S |-> r.original.shipping]
             Fold(it) == [U \in SUBSET S |-> IF U = {} THEN 0
                            ELSE (CHOOSE x \in U : TRUE).original.shipping
                                 + it[U \ {CHOOSE x \in U : TRUE}]]
  <1>1. \A it : IsFold(it, f, S) <=> it = Fold(it)
    <2>1. \A U \in SUBSET S : U # {} => f[First(U)] = First(U).original.shipping
      BY FirstIn
    <2>2. \A it : [U \in SUBSET S |-> IF U = {} THEN 0 ELSE f[First(U)]
                                 + it[U \ {First(U)}]]
                = Fold(it)
      <3> HIDE DEF f
      <3> QED BY <2>1 DEF First
    <2> HIDE DEF f, Fold
    <2> QED BY <2>2 DEF IsFold
  <1>2. MapThenSumSet(LAMBDA r : r.original.shipping, S) = (CHOOSE it : it = Fold(it))[S]
    BY Zenon DEF MapThenSumSet, MapThenFoldSet
  <1> DEFINE it == CHOOSE it : it = Fold(it)
  <1> HIDE DEF f, Fold
  <1>3. IsFold(it, f, S)
    BY <1>1, FoldExists
  <1> HIDE DEF it
  <1>4. SumOf(f, S) = it[S]
    BY <1>3, SumIsFold
  <1> QED BY <1>2, <1>4 DEF it, f

LEMMA ChargeAllocated ==
    ASSUME NEW S, IsFiniteSet(S)
    PROVE  MapThenSumSet(LAMBDA r : r.original.charge, S)
             = SumOf([r \in S |-> r.original.charge], S)
  <1> DEFINE f == [r \in S |-> r.original.charge]
             Fold(it) == [U \in SUBSET S |-> IF U = {} THEN 0
                            ELSE (CHOOSE x \in U : TRUE).original.charge
                                 + it[U \ {CHOOSE x \in U : TRUE}]]
  <1>1. \A it : IsFold(it, f, S) <=> it = Fold(it)
    <2>1. \A U \in SUBSET S : U # {} => f[First(U)] = First(U).original.charge
      BY FirstIn
    <2>2. \A it : [U \in SUBSET S |-> IF U = {} THEN 0 ELSE f[First(U)]
                                 + it[U \ {First(U)}]]
                = Fold(it)
      <3> HIDE DEF f
      <3> QED BY <2>1 DEF First
    <2> HIDE DEF f, Fold
    <2> QED BY <2>2 DEF IsFold
  <1>2. MapThenSumSet(LAMBDA r : r.original.charge, S) = (CHOOSE it : it = Fold(it))[S]
    BY Zenon DEF MapThenSumSet, MapThenFoldSet
  <1> DEFINE it == CHOOSE it : it = Fold(it)
  <1> HIDE DEF f, Fold
  <1>3. IsFold(it, f, S)
    BY <1>1, FoldExists
  <1> HIDE DEF it
  <1>4. SumOf(f, S) = it[S]
    BY <1>3, SumIsFold
  <1> QED BY <1>2, <1>4 DEF it, f

LEMMA ProfitSum ==
    ASSUME NEW S, IsFiniteSet(S)
    PROVE  MapThenSumSet(LAMBDA r : r.profit, S) = SumOf([r \in S |-> r.profit], S)
  <1> DEFINE f == [r \in S |-> r.profit]
             Fold(it) == [U \in SUBSET S |-> IF U = {} THEN 0
                            ELSE (CHOOSE x \in U : TRUE).profit
                                 + it[U \ {CHOOSE x \in U : TRUE}]]
  <1>1. \A it : IsFold(it, f, S) <=> it = Fold(it)
    <2>1. \A U \in SUBSET S : U # {} => f[First(U)] = First(U).profit
      BY FirstIn
    <2>2. \A it : [U \in SUBSET S |-> IF U = {} THEN 0 ELSE f[First(U)]
                                 + it[U \ {First(U)}]]
                = Fold(it)
      <3> HIDE DEF f
      <3> QED BY <2>1 DEF First
    <2> HIDE DEF f, Fold
    <2> QED BY <2>2 DEF IsFold
  <1>2. MapThenSumSet(LAMBDA r : r.profit, S) = (CHOOSE it : it = Fold(it))[S]
    BY Zenon DEF MapThenSumSet, MapThenFoldSet
  <1> DEFINE it == CHOOSE it : it = Fold(it)
  <1> HIDE DEF f, Fold
  <1>3. IsFold(it, f, S)
    BY <1>1, FoldExists
  <1> HIDE DEF it
  <1>4. SumOf(f, S) = it[S]
    BY <1>3, SumIsFold
  <1> QED BY <1>2, <1>4 DEF it, f

LEMMA CostSum ==
    ASSUME NEW S, IsFiniteSet(S)
    PROVE  MapThenSumSet(LAMBDA r : r.pnlCost, S) = SumOf([r \in S |-> r.pnlCost], S)
  <1> DEFINE f == [r \in S |-> r.pnlCost]
             Fold(it) == [U \in SUBSET S |-> IF U = {} THEN 0
                            ELSE (CHOOSE x \in U : TRUE).pnlCost
                                 + it[U \ {CHOOSE x \in U : TRUE}]]
  <1>1. \A it : IsFold(it, f, S) <=> it = Fold(it)
    <2>1. \A U \in SUBSET S : U # {} => f[First(U)] = First(U).pnlCost
      BY FirstIn
    <2>2. \A it : [U \in SUBSET S |-> IF U = {} THEN 0 ELSE f[First(U)]
                                 + it[U \ {First(U)}]]
                = Fold(it)
      <3> HIDE DEF f
      <3> QED BY <2>1 DEF First
    <2> HIDE DEF f, Fold
    <2> QED BY <2>2 DEF IsFold
  <1>2. MapThenSumSet(LAMBDA r : r.pnlCost, S) = (CHOOSE it : it = Fold(it))[S]
    BY Zenon DEF MapThenSumSet, MapThenFoldSet
  <1> DEFINE it == CHOOSE it : it = Fold(it)
  <1> HIDE DEF f, Fold
  <1>3. IsFold(it, f, S)
    BY <1>1, FoldExists
  <1> HIDE DEF it
  <1>4. SumOf(f, S) = it[S]
    BY <1>3, SumIsFold
  <1> QED BY <1>2, <1>4 DEF it, f

LEMMA AfterSalesSum ==
    ASSUME NEW S, IsFiniteSet(S)
    PROVE  MapThenSumSet(LAMBDA r : r.afterSales, S)
             = SumOf([r \in S |-> r.afterSales], S)
  <1> DEFINE f == [r \in S |-> r.afterSales]
             Fold(it) == [U \in SUBSET S |-> IF U = {} THEN 0
                            ELSE (CHOOSE x \in U : TRUE).afterSales
                                 + it[U \ {CHOOSE x \in U : TRUE}]]
  <1>1. \A it : IsFold(it, f, S) <=> it = Fold(it)
    <2>1. \A U \in SUBSET S : U # {} => f[First(U)] = First(U).afterSales
      BY FirstIn
    <2>2. \A it : [U \in SUBSET S |-> IF U = {} THEN 0 ELSE f[First(U)]
                                 + it[U \ {First(U)}]]
                = Fold(it)
      <3> HIDE DEF f
      <3> QED BY <2>1 DEF First
    <2> HIDE DEF f, Fold
    <2> QED BY <2>2 DEF IsFold
  <1>2. MapThenSumSet(LAMBDA r : r.afterSales, S) = (CHOOSE it : it = Fold(it))[S]
    BY Zenon DEF MapThenSumSet, MapThenFoldSet
  <1> DEFINE it == CHOOSE it : it = Fold(it)
  <1> HIDE DEF f, Fold
  <1>3. IsFold(it, f, S)
    BY <1>1, FoldExists
  <1> HIDE DEF it
  <1>4. SumOf(f, S) = it[S]
    BY <1>3, SumIsFold
  <1> QED BY <1>2, <1>4 DEF it, f

LEMMA ShippingSum ==
    ASSUME NEW S, IsFiniteSet(S)
    PROVE  MapThenSumSet(LAMBDA r : r.amounts.shipping, S)
             = SumOf([r \in S |-> r.amounts.shipping], S)
  <1> DEFINE f == [r \in S |-> r.amounts.shipping]
             Fold(it) == [U \in SUBSET S |-> IF U = {} THEN 0
                            ELSE (CHOOSE x \in U : TRUE).amounts.shipping
                                 + it[U \ {CHOOSE x \in U : TRUE}]]
  <1>1. \A it : IsFold(it, f, S) <=> it = Fold(it)
    <2>1. \A U \in SUBSET S : U # {} => f[First(U)] = First(U).amounts.shipping
      BY FirstIn
    <2>2. \A it : [U \in SUBSET S |-> IF U = {} THEN 0 ELSE f[First(U)]
                                 + it[U \ {First(U)}]]
                = Fold(it)
      <3> HIDE DEF f
      <3> QED BY <2>1 DEF First
    <2> HIDE DEF f, Fold
    <2> QED BY <2>2 DEF IsFold
  <1>2. MapThenSumSet(LAMBDA r : r.amounts.shipping, S) = (CHOOSE it : it = Fold(it))[S]
    BY Zenon DEF MapThenSumSet, MapThenFoldSet
  <1> DEFINE it == CHOOSE it : it = Fold(it)
  <1> HIDE DEF f, Fold
  <1>3. IsFold(it, f, S)
    BY <1>1, FoldExists
  <1> HIDE DEF it
  <1>4. SumOf(f, S) = it[S]
    BY <1>3, SumIsFold
  <1> QED BY <1>2, <1>4 DEF it, f

LEMMA RoundedShippingSum ==
    ASSUME NEW S, IsFiniteSet(S)
    PROVE  MapThenSumSet(LAMBDA r : RoundToCent(r.amounts.shipping), S)
             = SumOf([r \in S |-> RoundToCent(r.amounts.shipping)], S)
  <1> DEFINE f == [r \in S |-> RoundToCent(r.amounts.shipping)]
             Fold(it) == [U \in SUBSET S |-> IF U = {} THEN 0
                            ELSE RoundToCent((CHOOSE x \in U : TRUE).amounts.shipping)
                                 + it[U \ {CHOOSE x \in U : TRUE}]]
  <1>1. \A it : IsFold(it, f, S) <=> it = Fold(it)
    <2>1. \A U \in SUBSET S : U # {} => f[First(U)] = RoundToCent(First(U).amounts.shipping)
      BY FirstIn
    <2>2. \A it : [U \in SUBSET S |-> IF U = {} THEN 0 ELSE f[First(U)]
                                 + it[U \ {First(U)}]]
                = Fold(it)
      <3> HIDE DEF f
      <3> QED BY <2>1 DEF First
    <2> HIDE DEF f, Fold
    <2> QED BY <2>2 DEF IsFold
  <1>2. MapThenSumSet(LAMBDA r : RoundToCent(r.amounts.shipping), S) = (CHOOSE it : it = Fold(it))[S]
    BY Zenon DEF MapThenSumSet, MapThenFoldSet
  <1> DEFINE it == CHOOSE it : it = Fold(it)
  <1> HIDE DEF f, Fold
  <1>3. IsFold(it, f, S)
    BY <1>1, FoldExists
  <1> HIDE DEF it
  <1>4. SumOf(f, S) = it[S]
    BY <1>3, SumIsFold
  <1> QED BY <1>2, <1>4 DEF it, f

LEMMA EstimateSum ==
    ASSUME NEW S, IsFiniteSet(S)
    PROVE  MapThenSumSet(LAMBDA r : r.original.gross - r.amounts.charge - r.ruleCost, S)
             = SumOf([r \in S |-> r.original.gross - r.amounts.charge - r.ruleCost], S)
  <1> DEFINE f == [r \in S |-> r.original.gross - r.amounts.charge - r.ruleCost]
             Fold(it) == [U \in SUBSET S |-> IF U = {} THEN 0
                            ELSE (CHOOSE x \in U : TRUE).original.gross
                                 - (CHOOSE x \in U : TRUE).amounts.charge
                                 - (CHOOSE x \in U : TRUE).ruleCost
                                 + it[U \ {CHOOSE x \in U : TRUE}]]
  <1>1. \A it : IsFold(it, f, S) <=> it = Fold(it)
    <2>1. \A U \in SUBSET S : U # {} => f[First(U)]
            = First(U).original.gross - First(U).amounts.charge - First(U).ruleCost
      BY FirstIn
    <2>2. \A it : [U \in SUBSET S |-> IF U = {} THEN 0 ELSE f[First(U)]
                                 + it[U \ {First(U)}]]
                = Fold(it)
      <3> HIDE DEF f
      <3> QED BY <2>1 DEF First
    <2> HIDE DEF f, Fold
    <2> QED BY <2>2 DEF IsFold
  <1>2. MapThenSumSet(LAMBDA r : r.original.gross - r.amounts.charge - r.ruleCost, S)
          = (CHOOSE it : it = Fold(it))[S]
    BY Zenon DEF MapThenSumSet, MapThenFoldSet
  <1> DEFINE it == CHOOSE it : it = Fold(it)
  <1> HIDE DEF f, Fold
  <1>3. IsFold(it, f, S)
    BY <1>1, FoldExists
  <1> HIDE DEF it
  <1>4. SumOf(f, S) = it[S]
    BY <1>3, SumIsFold
  <1> QED BY ZenonT(60), <1>2, <1>4 DEF it, f

-----------------------------------------------------------------------------
(* What a request makes of a row.                                          *)
\* Every row of the file has its type.
LEMMA ItemsAreRows ==
    ASSUME ReportInv
    PROVE  items \in SUBSET Rows
  <1>1. ASSUME NEW r \in items PROVE r \in Rows
    <2>1. PICK o \in Orders : \E k \in DOMAIN goods[o] : \E c \in Nat : r = RowCosting(o, k, c)
      BY RowOfLine
    <2>2. PICK k \in DOMAIN goods[o] : \E c \in Nat : r = RowCosting(o, k, c)
      BY <2>1
    <2> QED BY <2>2, RowIs DEF ReportInv
  <1> QED BY <1>1

\* The file is finite.
LEMMA ItemsFinite ==
    ASSUME ReportInv
    PROVE  IsFiniteSet(items)
  <1>1. CASE items = {}
    BY <1>1, FS_EmptySet
  <1>2. ASSUME NEW then, items = FileOf(then) PROVE IsFiniteSet(items)
    <2> DEFINE Of(o) == {Row(then, o, k) : k \in DOMAIN goods[o]}
               all == {Of(o) : o \in Orders}
    <2>1. \A o \in Orders : IsFiniteSet(Of(o))
      <3> SUFFICES ASSUME NEW o \in Orders PROVE IsFiniteSet(Of(o))
        OBVIOUS
      <3>1. IsFiniteSet(DOMAIN goods[o])
        BY GoodsTypes DEF ReportInv, Stored
      <3> DEFINE f == [k \in DOMAIN goods[o] |-> Row(then, o, k)]
      <3>2. \A y : y \in Of(o) <=> \E k \in DOMAIN goods[o] : y = f[k]
        OBVIOUS
      <3> HIDE DEF Of, f
      <3> QED BY <3>1, <3>2, FiniteImage
    <2>2. IsFiniteSet(all)
      <3> DEFINE f == [o \in Orders |-> Of(o)]
      <3>1. \A y : y \in all <=> \E o \in Orders : y = f[o]
        OBVIOUS
      <3> HIDE DEF Of, f, all
      <3> QED BY <3>1, OrdersAssumption, FiniteImage
    <2>3. \A x \in all : IsFiniteSet(x)
      BY <2>1
    <2>4. IsFiniteSet(UNION all)
      <3> HIDE DEF all
      <3> QED BY <2>2, <2>3, FS_UNION
    <2> QED BY <1>2, <2>4 DEF FileOf
  <1> QED BY <1>1, <1>2 DEF ReportInv, FileInv

\* What an estimate changes of a row, and what a missing one does.
LEMMA EstimateIs ==
    ASSUME NEW r \in Rows, NEW fee \in Int, NEW q, q = Estimate(r, fee)
    PROVE  /\ q.order = r.order /\ q.line = r.line /\ q.sku = r.sku
           /\ q.original = r.original /\ q.ruleCost = r.ruleCost
           /\ q.policy = "pending_pickup_estimated"
           /\ q.amounts.gross = r.original.gross /\ q.amounts.charge = fee
           /\ q.afterSales = 0 /\ q.pnlCost = r.ruleCost
           /\ q.profit = r.original.gross - fee - r.ruleCost
           /\ q.profit \in Int /\ q.amounts.gross \in Int /\ q.ruleCost \in Int
  BY DEF Rows, Amounts, Estimate

LEMMA MissingIs ==
    ASSUME NEW r \in Rows, NEW q, q = [r EXCEPT !.policy = "pending_pickup_estimate_missing"]
    PROVE  /\ q.order = r.order /\ q.line = r.line /\ q.sku = r.sku
           /\ q.original = r.original /\ q.ruleCost = r.ruleCost
           /\ q.policy = "pending_pickup_estimate_missing"
           /\ q.amounts = r.amounts /\ q.afterSales = r.afterSales /\ q.pnlCost = r.pnlCost
           /\ q.profit = r.profit
  BY DEF Rows

Fee(r, m, method) == IF method = "zero" THEN 0 ELSE Average(items, m, Warehouse(m, r))

\* What the carriers charged for a set of orders.
LEMMA ChargedSum ==
    ASSUME ReportInv, NEW m, NEW w, HasAverage(items, m, w)
    PROVE  Average(items, m, w) \in Int
  <1> DEFINE C == Charged(items, m, w)
             f == [r \in C |-> r.amounts.charge]
  <1>1. C \in SUBSET items /\ C # {}
    BY DEF HasAverage, Charged
  <1>2. IsFiniteSet(C) /\ Cardinality(C) \in Nat
    BY <1>1, ItemsFinite, FS_Subset, FS_CardinalityType
  <1>3. Cardinality(C) # 0
    BY <1>1, <1>2, FS_EmptySet
  <1>4. f \in [C -> Int]
    BY <1>1, ItemsAreRows DEF Rows, Amounts
  <1> HIDE DEF C
  <1>5. MapThenSumSet(LAMBDA r : r.amounts.charge, C) = SumOf(f, C)
    BY <1>2, ChargeSum, Zenon
  <1>6. SumOf(f, C) \in Int
    BY <1>2, <1>4, SumFacts
  <1>7. Average(items, m, w) = SumOf(f, C) \div Cardinality(C)
    BY <1>5, Zenon DEF Average, C
  <1>8. \A x \in Int : \A y \in Nat : y # 0 => x \div y \in Int
    OBVIOUS
  <1> QED BY <1>2, <1>3, <1>6, <1>7, <1>8

\* A row of an answer is the row of the file or, in the estimated mode, that
\* of a pending line with an estimate or marked as one without.
LEMMA InModeIs ==
    ASSUME ReportInv, NEW r \in items, NEW m, NEW mode \in Modes, NEW method \in Methods,
           NEW q, q = InMode(r, items, m, mode, method)
    PROVE  \/ (mode = "actual" \/ ~IsPending(r)) /\ q = r
           \/ /\ mode = "estimated" /\ IsPending(r) /\ IsEstimable(r, items, m, method)
              /\ q = Estimate(r, Fee(r, m, method)) /\ Fee(r, m, method) \in Int
           \/ /\ mode = "estimated" /\ IsPending(r) /\ ~IsEstimable(r, items, m, method)
              /\ q = [r EXCEPT !.policy = "pending_pickup_estimate_missing"]
  <1>1. IsEstimable(r, items, m, method) => Fee(r, m, method) \in Int
    BY ChargedSum DEF IsEstimable, Fee
  <1> QED BY <1>1 DEF InMode, Fee, Modes

\* It stays the row of that line.
LEMMA InModeKeeps ==
    ASSUME ReportInv, NEW r \in items, NEW m, NEW mode \in Modes, NEW method \in Methods,
           NEW q, q = InMode(r, items, m, mode, method)
    PROVE  /\ q.order = r.order /\ q.line = r.line /\ q.sku = r.sku
           /\ q.original = r.original /\ q.ruleCost = r.ruleCost
  <1>1. r \in Rows
    BY ItemsAreRows
  <1>2. CASE q = r
    BY <1>2
  <1>3. CASE q = Estimate(r, Fee(r, m, method)) /\ Fee(r, m, method) \in Int
    BY <1>1, <1>3, EstimateIs
  <1>4. CASE q = [r EXCEPT !.policy = "pending_pickup_estimate_missing"]
    BY <1>1, <1>4, MissingIs
  <1> QED BY <1>2, <1>3, <1>4, InModeIs

-----------------------------------------------------------------------------
\* A selection that names every SKU leaves no row out.
LEMMA EveryRowIsSelected ==
    ASSUME ReportInv, NEW m \in Mappings, NEW r \in items
    PROVE  r.order \in Orders /\ Key(m, r) \in Keys
  <1>1. r.order \in Orders /\ r.sku \in Skus
    BY ItemsAreRows DEF Rows
  <1>2. m \in [Skus -> Places]
    BY DEF Mappings, ReportInv, Stored, Places
  <1>3. m[r.sku] \in WarehouseSkus \/ m[r.sku] = Unmapped
    BY <1>1, <1>2 DEF Places
  <1> QED BY <1>1, <1>3 DEF Key, Keys, Warehouse

\* A page shows the rows of the file, each in the mode that was asked for.
LEMMA ViewIs ==
    ASSUME ReportInv, NEW m \in Mappings, NEW mode, NEW method
    PROVE  View(m, mode, method) = {InMode(r, items, m, mode, method) : r \in items}
  <1>1. Selected(m, Orders, Keys) = items
    BY EveryRowIsSelected DEF Selected
  <1> QED BY <1>1, Zenon DEF View, Report, ApplyMode

LEMMA SelectionInv ==
    ASSUME ReportInv
    PROVE  SelectionChangesNoLine
  <1> SUFFICES ASSUME NEW m \in Mappings, NEW mode \in Modes, NEW method \in Methods,
                      NEW period \in SUBSET Orders, NEW keys \in SUBSET Keys
               PROVE  Report(m, period, keys, mode, method) =
                        {r \in View(m, mode, method) : r.order \in period /\ Key(m, r) \in keys}
    BY DEF SelectionChangesNoLine
  <1> DEFINE In(r) == InMode(r, items, m, mode, method)
  <1>1. \A r \in items : In(r).order = r.order /\ Key(m, In(r)) = Key(m, r)
    BY InModeKeeps DEF Key, Warehouse
  <1>2. Report(m, period, keys, mode, method)
          = {In(r) : r \in {s \in items : s.order \in period /\ Key(m, s) \in keys}}
    BY Zenon DEF Report, ApplyMode, Selected
  <1>3. View(m, mode, method) = {In(r) : r \in items}
    BY ViewIs
  <1> HIDE DEF In
  <1> QED BY <1>1, <1>2, <1>3

\* Selecting SKUs only leaves lines out of the report: those that stay are
\* the ones of the unselected report, with the same estimates (build_context
\* estimates from all the rows of the file).
THEOREM SelectionNeverMatters == Spec => []SelectionChangesNoLine
  BY SelectionInv, ReportInvariant, PTL

\* Of a row of the file, as it was exported.
LEMMA ExportAddsUp ==
    ASSUME ReportInv, NEW r \in items
    PROVE  /\ r.profit = r.amounts.gross - r.amounts.charge - r.afterSales
                            - (IF IsReturn(r) THEN 0 ELSE r.pnlCost)
           /\ ~IsSale(r) => r.profit = 0
  <1>1. PICK o \in Orders : \E k \in DOMAIN goods[o] : \E c \in Nat : r = RowCosting(o, k, c)
    BY RowOfLine
  <1>2. PICK k \in DOMAIN goods[o] : \E c \in Nat : r = RowCosting(o, k, c)
    BY <1>1
  <1>3. PICK c \in Nat : r = RowCosting(o, k, c)
    BY <1>2
  <1>4. r \in Rows
    BY ItemsAreRows
  <1>5. r.policy = Policy(o, k) /\ r.policy \in Policies
    BY <1>3, <1>4 DEF RowCosting, Rows
  <1>6. CASE Policy(o, k) \in {"standard", "after_sales_cost"}
    <2>1. /\ r.profit = r.amounts.gross - r.amounts.charge - r.pnlCost - r.afterSales
          /\ IsSale(r)
      BY <1>3, <1>6 DEF RowCosting, IsSale, IsReturn, IsExcluded, RevenueExcluded
    <2>2. /\ r.amounts.gross \in Int /\ r.amounts.charge \in Int
          /\ r.pnlCost \in Int /\ r.afterSales \in Int
      BY <1>4 DEF Rows, Amounts
    <2> QED BY <2>1, <2>2 DEF IsSale
  <1>7. CASE Policy(o, k) \notin {"standard", "after_sales_cost"}
    <2>1. /\ r.profit = 0 /\ r.amounts = Zero /\ r.afterSales = 0
          /\ r.pnlCost = IF IsReturn(r) THEN c ELSE 0
      BY <1>3, <1>7 DEF RowCosting, IsReturn
    <2> QED BY <2>1 DEF Zero
  <1> QED BY <1>6, <1>7

\* The profit of a row, in every mode.
LEMMA ProfitInv ==
    ASSUME ReportInv
    PROVE  ProfitAddsUp
  <1> SUFFICES ASSUME NEW m \in Mappings, NEW mode \in Modes, NEW method \in Methods,
                      NEW q \in View(m, mode, method)
               PROVE  q.profit = q.amounts.gross - q.amounts.charge - q.afterSales
                                    - (IF IsReturn(q) THEN 0 ELSE q.pnlCost)
    BY DEF ProfitAddsUp
  <1>1. PICK r \in items : q = InMode(r, items, m, mode, method)
    BY ViewIs
  <1>2. r \in Rows
    BY <1>1, ItemsAreRows
  <1>3. CASE q = r
    BY <1>3, ExportAddsUp
  <1>4. CASE q = Estimate(r, Fee(r, m, method)) /\ Fee(r, m, method) \in Int
    <2> DEFINE fee == Fee(r, m, method)
    <2>1. /\ q.amounts.gross = r.original.gross /\ q.amounts.charge = fee
          /\ q.afterSales = 0 /\ q.pnlCost = r.ruleCost
          /\ q.profit = r.original.gross - fee - r.ruleCost
          /\ ~IsReturn(q)
      BY <1>2, <1>4, EstimateIs DEF IsReturn
    <2>2. r.original.gross \in Int /\ r.ruleCost \in Int
      BY <1>2 DEF Rows, Amounts
    <2> QED BY <1>4, <2>1, <2>2
  <1>5. CASE IsPending(r) /\ q = [r EXCEPT !.policy = "pending_pickup_estimate_missing"]
    <2>1. /\ q.amounts = r.amounts /\ q.afterSales = r.afterSales /\ q.pnlCost = r.pnlCost
          /\ q.profit = r.profit /\ ~IsReturn(q) /\ ~IsReturn(r)
      BY <1>2, <1>5, MissingIs DEF IsReturn, IsPending
    <2> QED BY <1>1, <2>1, ExportAddsUp
  <1> QED BY <1>1, <1>3, <1>4, <1>5, InModeIs

\* The profit of each line is its revenue less its costs, in the file and in
\* every mode of the report, however it was estimated.
THEOREM ProfitAlwaysAddsUp == Spec => []ProfitAddsUp
  BY ProfitInv, ReportInvariant, PTL

-----------------------------------------------------------------------------
(* The lines of an order carry its amounts once.                           *)
\* Whole division.
LEMMA Quotient ==
    ASSUME NEW x \in Nat, NEW y \in Nat, y > 0, x % y = 0
    PROVE  y * (x \div y) = x
  OBVIOUS

LEMMA Cancel ==
    ASSUME NEW y \in Nat, y > 0, NEW x \in Int, NEW a \in Int, y * x = y * a
    PROVE  x = a
  <1>1. y * (x - a) = 0
    OBVIOUS
  <1> QED BY <1>1

SumsTo(f, S, a) == SumOf(f, S) = a

\* Shares by what the parts weigh, when they weigh something together.
LEMMA SharesByWeight ==
    ASSUME NEW S, IsFiniteSet(S), NEW w \in [S -> Nat], NEW a \in Nat, NEW W, W = SumOf(w, S),
           W > 0, \A k \in S : (a * w[k]) % W = 0
    PROVE  SumsTo([k \in S |-> (a * w[k]) \div W], S, a)
  <1> DEFINE f == [k \in S |-> (a * w[k]) \div W]
             h == [k \in S |-> a * w[k]]
  <1>1. w \in [S -> Int]
    OBVIOUS
  <1>2. W \in Int
    BY <1>1, SumFacts
  <1>3. W \in Nat
    BY <1>2
  <1>4. \A k \in S : a * w[k] \in Nat
    OBVIOUS
  <1>5. \A k \in S : W * ((a * w[k]) \div W) = a * w[k]
    <2> SUFFICES ASSUME NEW k \in S PROVE W * ((a * w[k]) \div W) = a * w[k]
      OBVIOUS
    <2> DEFINE x == a * w[k]
    <2>1. x \in Nat /\ x % W = 0
      BY <1>4
    <2> HIDE DEF x
    <2>2. W * (x \div W) = x
      BY <1>3, <2>1, Quotient
    <2> QED BY <2>2 DEF x
  <1>6. \A x \in Nat : x \div W \in Int
    BY <1>3
  <1>7. f \in [S -> Int]
    BY <1>4, <1>6
  <1>8. h \in [S -> Int]
    BY <1>4
  <1>9. \A k \in S : h[k] = W * f[k] /\ h[k] = a * w[k]
    BY <1>5
  <1> HIDE DEF f, h
  <1>10. SumOf(h, S) = W * SumOf(f, S)
    BY <1>3, <1>7, <1>8, <1>9, SumTimes
  <1>11. SumOf(h, S) = a * W
    BY <1>1, <1>8, <1>9, SumTimes
  <1>12. SumOf(f, S) \in Int
    BY <1>7, SumFacts
  <1>13. W * SumOf(f, S) = W * a
    BY <1>3, <1>10, <1>11
  <1>14. SumOf(f, S) = a
    <2> DEFINE s == SumOf(f, S)
    <2>1. s \in Int /\ W * s = W * a /\ W \in Nat /\ W > 0 /\ a \in Int
      BY <1>3, <1>12, <1>13
    <2> HIDE DEF s
    <2>2. s = a
      BY <2>1, Cancel, Zenon
    <2> QED BY <2>2 DEF s
  <1> QED BY <1>14 DEF f, SumsTo

\* The shares of an amount add up to it: the last line takes what is left.
LEMMA SharesAddUp ==
    ASSUME NEW g \in Goods, NEW a \in Charges \cup {Shipping, 0}
    PROVE  SumOf([k \in DOMAIN g |-> Share(g, k, a)], DOMAIN g) = a
  <1> DEFINE S == DOMAIN g
             f == [k \in S |-> Share(g, k, a)]
  <1>0. a \in Nat
    <2>1. Charges \subseteq Nat /\ Shipping \in Nat
      BY ReportAmountsAssumption
    <2>2. \A b \in Charges \cup {Shipping, 0} : b \in Nat
      BY <2>1
    <2> QED BY <2>2, Zenon
  <1>1. IsFiniteSet(S) /\ Cardinality(S) = Len(g) /\ Len(g) \in Nat \ {0}
    BY GoodsTypes
  <1>2. \A k \in S : IF Total(g, "weight") > 0 THEN (a * g[k].weight) % Total(g, "weight") = 0
                     ELSE IF Total(g, "income") > 0
                     THEN (a * g[k].income) % Total(g, "income") = 0
                     ELSE a % Len(g) = 0
    <2>1. CASE a # 0
      BY <2>1, GoodsAssumption
    <2>2. CASE a = 0
      <3>1. \A y \in Int : y > 0 => \A x \in Int : (0 * x) % y = 0
        OBVIOUS
      <3>2. \A y \in Nat \ {0} : 0 % y = 0
        OBVIOUS
      <3>3. \A k \in S : g[k].weight \in Int /\ g[k].income \in Int
        BY GoodsTypes
      <3>4. Total(g, "weight") \in Int /\ Total(g, "income") \in Int
        BY TotalIs, Zenon
      <3> QED BY <1>1, <2>2, <3>1, <3>2, <3>3, <3>4
    <2> QED BY <2>1, <2>2
  <1>3. CASE Total(g, "weight") > 0
    <2> DEFINE w == [k \in S |-> g[k].weight]
               W == Total(g, "weight")
    <2>1. w \in [S -> Nat]
      BY GoodsTypes
    <2>2. W = SumOf(w, S)
      BY TotalIs, Zenon
    <2>3. f = [k \in S |-> (a * w[k]) \div W]
      BY <1>3 DEF Share
    <2>4. \A k \in S : (a * w[k]) % W = 0
      BY <1>2, <1>3
    <2>5. IsFiniteSet(S) /\ W > 0
      BY <1>1, <1>3
    <2> HIDE DEF w, W, f, S
    <2>6. SumsTo([k \in S |-> (a * w[k]) \div W], S, a)
      BY <1>0, <2>1, <2>2, <2>4, <2>5, SharesByWeight, Zenon
    <2> QED BY <2>3, <2>6 DEF f, S, SumsTo
  <1>4. CASE ~(Total(g, "weight") > 0) /\ Total(g, "income") > 0
    <2> DEFINE w == [k \in S |-> g[k].income]
               W == Total(g, "income")
    <2>1. w \in [S -> Nat]
      BY GoodsTypes
    <2>2. W = SumOf(w, S)
      BY TotalIs, Zenon
    <2>3. f = [k \in S |-> (a * w[k]) \div W]
      BY <1>4 DEF Share
    <2>4. \A k \in S : (a * w[k]) % W = 0
      BY <1>2, <1>4
    <2>5. IsFiniteSet(S) /\ W > 0
      BY <1>1, <1>4
    <2> HIDE DEF w, W, f, S
    <2>6. SumsTo([k \in S |-> (a * w[k]) \div W], S, a)
      BY <1>0, <2>1, <2>2, <2>4, <2>5, SharesByWeight, Zenon
    <2> QED BY <2>3, <2>6 DEF f, S, SumsTo
  <1>5. CASE ~(Total(g, "weight") > 0) /\ ~(Total(g, "income") > 0)
    <2> DEFINE n == Len(g)
               c == a \div n
    <2>1. f = [k \in S |-> c]
      BY <1>5 DEF Share
    <2>2. n \in Nat /\ n > 0
      BY <1>1
    <2>3. a % n = 0
      <3>1. \E k \in S : TRUE
        BY GoodsTypes
      <3> QED BY <1>2, <1>5, <3>1
    <2>4. n * c = a
      BY <1>0, <2>2, <2>3, Quotient
    <2>5. c \in Int
      BY <1>0, <2>2
    <2> HIDE DEF c, n
    <2>6. f \in [S -> Int] /\ \A k \in S : f[k] = c
      BY <2>1, <2>5
    <2> HIDE DEF f, S
    <2>7. SumOf(f, S) = c * Cardinality(S)
      BY <1>1, <2>5, <2>6, SumConstant
    <2>8. SumOf(f, S) = a
      BY <1>1, <2>2, <2>4, <2>5, <2>7 DEF n
    <2> QED BY <2>8 DEF f, S
  <1> QED BY <1>3, <1>4, <1>5

OneToOne(b, S, T) == b \in Bijection(S, T)

\* The rows of an order are those of its lines.
LEMMA RowsOfOrder ==
    ASSUME ReportInv, NEW o \in OrdersOf(items)
    PROVE  /\ o \in Orders /\ goods[o] \in Goods
           /\ \E b : /\ OneToOne(b, DOMAIN goods[o], LinesOf(items, o))
                     /\ \A k \in DOMAIN goods[o] : \E c \in Nat : b[k] = RowCosting(o, k, c)
  <1>0. PICK r0 \in items : r0.order = o
    BY DEF OrdersOf
  <1>1. o \in Orders
    BY <1>0, ItemsAreRows DEF Rows
  <1>2. goods[o] \in Goods
    BY <1>1 DEF ReportInv, Stored
  <1>3. PICK then \in [Skus -> Places] : items = FileOf(then)
    BY <1>0 DEF ReportInv, FileInv
  <1> DEFINE D == DOMAIN goods[o]
             b == [k \in D |-> Row(then, o, k)]
  <1>4. \A p \in Orders : \A k \in DOMAIN goods[p] :
           \E c \in Nat : Row(then, p, k) = RowCosting(p, k, c)
    <2> TAKE p \in Orders
    <2> TAKE k \in DOMAIN goods[p]
    <2>1. CostAt(then, goods[p][k].sku) \in Nat
      BY GoodsTypes, ReportAmountsAssumption DEF CostAt, Places, ReportInv, Stored
    <2> QED BY <2>1 DEF Row
  <1>5. \A p, k : Row(then, p, k).order = p /\ Row(then, p, k).line = k
    BY DEF Row, RowCosting
  <1>6. \A r : r \in LinesOf(items, o) <=> \E k \in D : r = Row(then, o, k)
    <2> TAKE r
    <2>1. ASSUME r \in LinesOf(items, o) PROVE \E k \in D : r = Row(then, o, k)
      <3>1. r \in items /\ r.order = o
        BY <2>1 DEF LinesOf
      <3>2. PICK p \in Orders : \E k \in DOMAIN goods[p] : r = Row(then, p, k)
        BY <1>3, <3>1, InFile
      <3>3. p = o
        BY <1>5, <3>1, <3>2
      <3> QED BY <3>2, <3>3
    <2>2. ASSUME NEW k \in D, r = Row(then, o, k) PROVE r \in LinesOf(items, o)
      <3>1. r \in items
        BY <1>1, <1>3, <2>2, InFile
      <3> QED BY <1>5, <2>2, <3>1 DEF LinesOf
    <2> QED BY <2>1, <2>2
  <1>7. /\ b \in [D -> LinesOf(items, o)]
        /\ \A k, j \in D : b[k] = b[j] => k = j
        /\ \A r \in LinesOf(items, o) : \E k \in D : b[k] = r
    <2>1. \A k \in D : b[k] = Row(then, o, k) /\ b[k] \in LinesOf(items, o)
      BY <1>6
    <2>2. \A k, j \in D : b[k] = b[j] => k = j
      BY <1>5, <2>1
    <2> QED BY <1>6, <2>1, <2>2
  <1>8. OneToOne(b, D, LinesOf(items, o))
    <2> HIDE DEF b, D
    <2> QED BY <1>7 DEF OneToOne, Bijection, Injection, Surjection, IsInjective
  <1>9. \A k \in D : \E c \in Nat : b[k] = RowCosting(o, k, c)
    BY <1>1, <1>4
  <1> HIDE DEF b
  <1> QED BY <1>1, <1>2, <1>8, <1>9

\* So a sum over them is one over the lines.
LEMMA SumOverLines ==
    ASSUME NEW D, IsFiniteSet(D), NEW rows, IsFiniteSet(rows), NEW b, OneToOne(b, D, rows),
           NEW f \in [D -> Int], NEW g \in [rows -> Int], \A k \in D : f[k] = g[b[k]],
           NEW a, SumsTo(f, D, a)
    PROVE  SumsTo(g, rows, a)
  <1>1. SumOf(f, D) = SumOf(g, rows)
    BY SumRenamed DEF OneToOne
  <1> QED BY <1>1 DEF SumsTo

\* The amounts of an order, over its rows.
LEMMA AllocationInv ==
    ASSUME ReportInv
    PROVE  AllocationIsComplete
  <1> SUFFICES ASSUME NEW o \in OrdersOf(items)
               PROVE  LET rows == {r \in items : r.order = o}
                          paid == {r \in rows : IsSale(r)}
                      IN /\ MapThenSumSet(LAMBDA r : r.original.shipping, rows) = Shipping
                         /\ MapThenSumSet(LAMBDA r : r.original.charge, rows) \in Charges \cup {0}
                         /\ paid # {} =>
                               MapThenSumSet(LAMBDA r : r.amounts.gross, paid) =
                                  Shipping + Total(goods[o], "income")
    BY DEF AllocationIsComplete
  <1> DEFINE rows == {r \in items : r.order = o}
             paid == {r \in rows : IsSale(r)}
             g == goods[o]
             D == DOMAIN g
  <1>1. rows = LinesOf(items, o)
    BY DEF LinesOf
  <1>2. /\ o \in Orders /\ g \in Goods
        /\ \E b : /\ OneToOne(b, D, rows)
                  /\ \A k \in D : \E c \in Nat : b[k] = RowCosting(o, k, c)
    BY <1>1, RowsOfOrder
  <1>3. PICK b : /\ OneToOne(b, D, rows)
                 /\ \A k \in D : \E c \in Nat : b[k] = RowCosting(o, k, c)
    BY <1>2
  <1>4. IsFiniteSet(rows) /\ IsFiniteSet(D)
    BY <1>2, GoodsTypes, ItemsFinite, FS_Subset
  <1>5. \A k \in D : b[k] \in rows /\ b[k] \in Rows
    <2>1. rows \in SUBSET Rows
      BY ItemsAreRows
    <2>2. b \in [D -> rows]
      BY <1>3 DEF OneToOne, Bijection, Injection
    <2> HIDE DEF rows, D
    <2> QED BY <2>1, <2>2
  <1>6. \A r \in rows : \E k \in D : b[k] = r
    BY <1>3 DEF OneToOne, Bijection, Surjection
  <1>7. \A k \in D : /\ b[k].original = Original(o, k)
                     /\ b[k].policy = Policy(o, k)
                     /\ IsSale(b[k]) => b[k].amounts = Original(o, k)
    <2> TAKE k \in D
    <2>1. PICK c \in Nat : b[k] = RowCosting(o, k, c)
      BY <1>3
    <2>2. b[k].policy = Policy(o, k) /\ b[k].policy \in Policies
      BY <1>5, <2>1 DEF RowCosting, Rows
    <2>3. b[k].original = Original(o, k)
      BY <2>1 DEF RowCosting
    <2>4. IsSale(b[k]) => Policy(o, k) \in {"standard", "after_sales_cost"}
      BY <2>2 DEF IsSale, IsReturn, IsExcluded, RevenueExcluded, Policies
    <2>5. IsSale(b[k]) => b[k].amounts = Original(o, k)
      BY <2>1, <2>4 DEF RowCosting
    <2> QED BY <2>2, <2>3, <2>5
  <1>8. \A a \in Int : [k \in D |-> Share(g, k, a)] \in [D -> Int]
    BY <1>2, ShareInt
  <1>9. Shipping \in Int /\ charge[o] \in Charges \cup {0} /\ charge[o] \in Int
    <2>1. charge[o] \in Charges \cup {0} /\ Shipping \in Nat /\ Charges \subseteq Nat
      BY <1>2, ReportAmountsAssumption DEF ReportInv, Stored
    <2>2. \A a \in Charges \cup {0} : a \in Int
      BY <2>1
    <2>3. Shipping \in Int
      BY <2>1
    <2> QED BY <2>1, <2>2, <2>3, Zenon
  <1>10. \A a \in Charges \cup {Shipping, 0} : SumsTo([k \in D |-> Share(g, k, a)], D, a)
    BY <1>2, SharesAddUp DEF SumsTo
  <1>11. rows \in SUBSET Rows
    BY ItemsAreRows
  <1>15. \A k \in D : /\ b[k].original.shipping = Share(g, k, Shipping)
                      /\ b[k].original.charge = Share(g, k, charge[o])
                      /\ IsSale(b[k]) =>
                            b[k].amounts.gross = g[k].income + Share(g, k, Shipping)
    <2>1. \A k : /\ Original(o, k).shipping = Share(g, k, Shipping)
                 /\ Original(o, k).charge = Share(g, k, charge[o])
                 /\ Original(o, k).gross = g[k].income + Share(g, k, Shipping)
      BY DEF Original
    <2> HIDE DEF D, g
    <2> QED BY <1>7, <2>1
  <1> HIDE DEF D, rows
  <1>12. MapThenSumSet(LAMBDA r : r.original.shipping, rows) = Shipping
    <2> DEFINE f == [k \in D |-> Share(g, k, Shipping)]
               h == [r \in rows |-> r.original.shipping]
    <2>1. h \in [rows -> Int]
      BY <1>11 DEF Rows, Amounts
    <2>2. f \in [D -> Int]
      BY <1>8, <1>9
    <2>3. \A k \in D : f[k] = h[b[k]]
      BY <1>5, <1>15
    <2>4. SumsTo(f, D, Shipping)
      BY <1>10
    <2> HIDE DEF f, h
    <2>5. SumsTo(h, rows, Shipping)
      BY <1>3, <1>4, <2>1, <2>2, <2>3, <2>4, SumOverLines, Zenon
    <2>6. MapThenSumSet(LAMBDA r : r.original.shipping, rows) = SumOf(h, rows)
      BY <1>4, ShippingAllocated, Zenon DEF h
    <2> QED BY <2>5, <2>6 DEF SumsTo
  <1>13. MapThenSumSet(LAMBDA r : r.original.charge, rows) \in Charges \cup {0}
    <2> DEFINE a == charge[o]
               f == [k \in D |-> Share(g, k, a)]
               h == [r \in rows |-> r.original.charge]
    <2>1. h \in [rows -> Int]
      BY <1>11 DEF Rows, Amounts
    <2>2. f \in [D -> Int]
      BY <1>8, <1>9
    <2>3. \A k \in D : f[k] = h[b[k]]
      BY <1>5, <1>15
    <2>4. SumsTo(f, D, a)
      BY <1>9, <1>10
    <2> HIDE DEF f, h, a
    <2>5. SumsTo(h, rows, a)
      BY <1>3, <1>4, <2>1, <2>2, <2>3, <2>4, SumOverLines, Zenon
    <2>6. MapThenSumSet(LAMBDA r : r.original.charge, rows) = SumOf(h, rows)
      BY <1>4, ChargeAllocated, Zenon DEF h
    <2> QED BY <1>9, <2>5, <2>6 DEF SumsTo, a
  <1>14. ASSUME paid # {}
         PROVE  MapThenSumSet(LAMBDA r : r.amounts.gross, paid) = Shipping + Total(g, "income")
    <2>1. \A k, j : Policy(o, k) = Policy(o, j)
      BY DEF Policy
    <2>2. paid = rows
      <3>1. \A r, q \in rows : r.policy = q.policy
        BY <1>6, <1>7, <2>1
      <3>2. \A r, q \in rows : IsSale(r) => IsSale(q)
        BY <3>1 DEF IsSale, IsReturn, IsExcluded
      <3> QED BY <1>14, <3>2
    <2> DEFINE i == [k \in D |-> g[k].income]
               s == [k \in D |-> Share(g, k, Shipping)]
               f == [k \in D |-> g[k].income + Share(g, k, Shipping)]
               h == [r \in rows |-> r.amounts.gross]
    <2>3. i \in [D -> Int]
      BY <1>2, GoodsTypes DEF D
    <2>4. s \in [D -> Int]
      BY <1>8, <1>9
    <2>5. \A k \in D : i[k] \in Int /\ s[k] \in Int /\ f[k] = i[k] + s[k]
      BY <2>3, <2>4
    <2>6. f \in [D -> Int]
      BY <2>5
    <2>7. h \in [rows -> Int]
      BY <1>11 DEF Rows, Amounts
    <2>8. \A k \in D : f[k] = h[b[k]]
      BY <1>5, <1>15, <2>2
    <2>9. SumOf(i, D) = Total(g, "income") /\ Total(g, "income") \in Int
      BY <1>2, TotalIs, Zenon DEF D
    <2>10. SumOf(s, D) = Shipping
      BY <1>10 DEF SumsTo
    <2> DEFINE a == Shipping + Total(g, "income")
    <2> HIDE DEF f, h, i, s, a
    <2>11. SumOf(f, D) = SumOf(i, D) + SumOf(s, D)
      BY <1>4, <2>3, <2>4, <2>5, <2>6, SumPlus
    <2>12. SumsTo(f, D, a)
      BY <1>9, <2>9, <2>10, <2>11 DEF SumsTo, a
    <2>13. SumsTo(h, rows, a)
      BY <1>3, <1>4, <2>6, <2>7, <2>8, <2>12, SumOverLines, Zenon
    <2>14. MapThenSumSet(LAMBDA r : r.amounts.gross, rows) = SumOf(h, rows)
      BY <1>4, GrossSum, Zenon DEF h
    <2> QED BY <2>2, <2>13, <2>14 DEF SumsTo, a
  <1> QED BY <1>12, <1>13, <1>14, Zenon DEF rows

\* The shipping fee and the charge of an order are divided among its lines
\* without loss: the lines add up to the cent (allocate_amount).
THEOREM AllocationAlwaysComplete == Spec => []AllocationIsComplete
  BY AllocationInv, ReportInvariant, PTL

-----------------------------------------------------------------------------
(* Sales, returns and excluded orders.                                     *)
\* The lines of an order are all treated alike.
LEMMA OrderHasOnePolicy ==
    ASSUME ReportInv, NEW r \in items, NEW q \in items, r.order = q.order
    PROVE  r.policy = q.policy
  <1>1. ASSUME NEW x \in items PROVE \E k : x.policy = Policy(x.order, k)
    <2>1. PICK o \in Orders : \E k \in DOMAIN goods[o] : \E c \in Nat : x = RowCosting(o, k, c)
      BY RowOfLine
    <2>2. PICK k \in DOMAIN goods[o] : \E c \in Nat : x = RowCosting(o, k, c)
      BY <2>1
    <2> QED BY <2>2 DEF RowCosting
  <1>2. \A o, k, j : Policy(o, k) = Policy(o, j)
    BY DEF Policy
  <1> QED BY <1>1, <1>2

Estimated(r, m, mode, method) ==
    mode = "estimated" /\ IsPending(r) /\ IsEstimable(r, items, m, method)

\* No mode makes a sale of another line, or another line of a sale.
LEMMA KindInMode ==
    ASSUME ReportInv, NEW r \in items, NEW m, NEW mode \in Modes, NEW method \in Methods,
           NEW q, q = InMode(r, items, m, mode, method)
    PROVE  /\ q.order = r.order
           /\ IsReturn(q) <=> IsReturn(r)
           /\ IsExcluded(q) <=> IsExcluded(r) /\ ~Estimated(r, m, mode, method)
  <1>1. r \in Rows /\ q.order = r.order
    BY ItemsAreRows, InModeKeeps
  <1>2. CASE (mode = "actual" \/ ~IsPending(r)) /\ q = r
    BY <1>1, <1>2 DEF Estimated
  <1>3. CASE /\ mode = "estimated" /\ IsPending(r) /\ IsEstimable(r, items, m, method)
             /\ q = Estimate(r, Fee(r, m, method)) /\ Fee(r, m, method) \in Int
    <2>1. q.policy = "pending_pickup_estimated"
      BY <1>1, <1>3, EstimateIs
    <2> QED BY <1>1, <1>3, <2>1 DEF Estimated, IsPending, IsReturn, IsExcluded, RevenueExcluded
  <1>4. CASE /\ mode = "estimated" /\ IsPending(r) /\ ~IsEstimable(r, items, m, method)
             /\ q = [r EXCEPT !.policy = "pending_pickup_estimate_missing"]
    <2>1. q.policy = "pending_pickup_estimate_missing"
      BY <1>1, <1>4, MissingIs
    <2> QED BY <1>1, <1>4, <2>1 DEF Estimated, IsPending, IsReturn, IsExcluded, RevenueExcluded
  <1> QED BY <1>2, <1>3, <1>4, InModeIs

\* Three parts count as the whole.
LEMMA CountsAddUp ==
    ASSUME NEW O, IsFiniteSet(O), NEW A \in SUBSET O, NEW B \in SUBSET O, NEW C \in SUBSET O,
           O = A \cup B \cup C, B \cap (A \cup C) = {}
    PROVE  Cardinality(A) + Cardinality(B) + Cardinality(C)
             = Cardinality(O) + Cardinality(A \cap C)
  <1>1. IsFiniteSet(A) /\ IsFiniteSet(B) /\ IsFiniteSet(C)
        /\ IsFiniteSet(A \cup C) /\ IsFiniteSet(A \cap C)
    BY FS_Subset
  <1>2. Cardinality(A \cup C) = Cardinality(A) + Cardinality(C) - Cardinality(A \cap C)
    BY <1>1, FS_Union
  <1>3. Cardinality(B \cup (A \cup C))
          = Cardinality(B) + Cardinality(A \cup C) - Cardinality(B \cap (A \cup C))
    BY <1>1, FS_Union
  <1>4. O = B \cup (A \cup C) /\ Cardinality(B \cap (A \cup C)) = 0
    BY FS_EmptySet
  <1>5. /\ Cardinality(A) \in Nat /\ Cardinality(B) \in Nat /\ Cardinality(C) \in Nat
        /\ Cardinality(A \cap C) \in Nat
    BY <1>1, FS_CardinalityType
  <1>6. Cardinality(O) = Cardinality(B) + Cardinality(A \cup C)
    <2>1. Cardinality(A \cup C) \in Nat
      BY <1>1, FS_CardinalityType
    <2>2. Cardinality(O) = Cardinality(B) + Cardinality(A \cup C) - 0
      BY <1>3, <1>4, Zenon
    <2> QED BY <1>5, <2>1, <2>2
  <1> QED BY <1>2, <1>5, <1>6

\* Counting orders by what they are.
LEMMA CountInv ==
    ASSUME ReportInv
    PROVE  OrdersCountedOnce
  <1> SUFFICES ASSUME NEW m \in Mappings, NEW mode \in Modes, NEW method \in Methods
               PROVE  LET rows == View(m, mode, method)
                          summary == Summarize(rows)
                          mixed == {o \in OrdersOf(rows) :
                                      /\ \E r \in items : r.order = o /\ IsPending(r)
                                                          /\ IsEstimable(r, items, m, method)
                                      /\ \E r \in items : r.order = o /\ IsPending(r)
                                                          /\ ~IsEstimable(r, items, m, method)}
                      IN summary.salesOrders + summary.returnOrders
                            + summary.revenueExcludedOrders
                           = summary.orders
                               + (IF mode = "actual" THEN 0 ELSE Cardinality(mixed))
    BY DEF OrdersCountedOnce
  <1> DEFINE rows == View(m, mode, method)
             mixed == {o \in OrdersOf(rows) :
                         /\ \E r \in items : r.order = o /\ IsPending(r)
                                             /\ IsEstimable(r, items, m, method)
                         /\ \E r \in items : r.order = o /\ IsPending(r)
                                             /\ ~IsEstimable(r, items, m, method)}
             In(r) == InMode(r, items, m, mode, method)
             O == OrdersOf(rows)
             A == OrdersOf({r \in rows : IsSale(r)})
             B == OrdersOf({r \in rows : IsReturn(r)})
             C == OrdersOf({r \in rows : IsExcluded(r)})
  <1>1. rows = {In(r) : r \in items}
    BY ViewIs
  <1>2. ASSUME NEW r \in items
        PROVE  /\ In(r).order = r.order
               /\ IsReturn(In(r)) <=> IsReturn(r)
               /\ IsExcluded(In(r)) <=> IsExcluded(r) /\ ~Estimated(r, m, mode, method)
    BY KindInMode
  <1>3. \A o : /\ o \in O <=> \E r \in items : r.order = o
               /\ o \in A <=> \E r \in items : r.order = o /\ IsSale(In(r))
               /\ o \in B <=> \E r \in items : r.order = o /\ IsReturn(In(r))
               /\ o \in C <=> \E r \in items : r.order = o /\ IsExcluded(In(r))
    <2> HIDE DEF In, rows
    <2> QED BY <1>1, <1>2 DEF OrdersOf
  <1>4. O \in SUBSET Orders /\ IsFiniteSet(O)
    <2>1. O \in SUBSET Orders
      <3>1. \A r \in items : r.order \in Orders
        BY ItemsAreRows DEF Rows
      <3> HIDE DEF O
      <3> QED BY <1>3, <3>1
    <2> QED BY <2>1, OrdersAssumption, FS_Subset
  <1>5. \A r \in items : IsPending(r) => IsExcluded(r) /\ ~IsReturn(r)
    BY DEF IsPending, IsExcluded, IsReturn, RevenueExcluded
  <1>6. \A r, q \in items : r.order = q.order => /\ IsReturn(r) <=> IsReturn(q)
                                                 /\ IsExcluded(r) <=> IsExcluded(q)
                                                 /\ IsPending(r) <=> IsPending(q)
    BY OrderHasOnePolicy DEF IsReturn, IsExcluded, IsPending
  <1> HIDE DEF In, O, A, B, C
  <1>7. /\ A \in SUBSET O /\ B \in SUBSET O /\ C \in SUBSET O
        /\ O = A \cup B \cup C
    BY <1>3 DEF IsSale
  <1>8. \A r \in items : IsSale(In(r)) <=> ~IsReturn(In(r)) /\ ~IsExcluded(In(r))
    BY DEF IsSale
  <1>9. \A r \in items : IsReturn(r) => ~IsExcluded(r)
    BY DEF IsReturn, IsExcluded, RevenueExcluded
  <1>10. B \cap (A \cup C) = {}
    BY <1>2, <1>3, <1>6, <1>8, <1>9
  <1>11. A \cap C = IF mode = "actual" THEN {} ELSE mixed
    <2>1. ASSUME NEW o \in A, o \in C
          PROVE  mode = "estimated" /\ o \in mixed
      <3>1. PICK r \in items : r.order = o /\ IsSale(In(r))
        BY <1>3
      <3>2. PICK q \in items : q.order = o /\ IsExcluded(In(q))
        BY <1>3, <2>1
      <3>3. IsExcluded(q) /\ ~Estimated(q, m, mode, method)
        BY <1>2, <3>2
      <3>4. IsExcluded(r) /\ Estimated(r, m, mode, method)
        BY <1>2, <1>6, <1>8, <1>9, <3>1, <3>2, <3>3
      <3>5. IsPending(r) /\ IsPending(q) /\ mode = "estimated"
        BY <1>6, <3>1, <3>2, <3>4 DEF Estimated
      <3>6. IsEstimable(r, items, m, method) /\ ~IsEstimable(q, items, m, method)
        BY <3>3, <3>4, <3>5 DEF Estimated
      <3>7. o \in O
        BY <1>3, <3>1
      <3> QED BY <3>1, <3>2, <3>5, <3>6, <3>7 DEF O
    <2>2. ASSUME NEW o \in mixed, mode = "estimated"
          PROVE  o \in A /\ o \in C
      <3>1. PICK r \in items : r.order = o /\ IsPending(r) /\ IsEstimable(r, items, m, method)
        OBVIOUS
      <3>2. PICK q \in items : q.order = o /\ IsPending(q) /\ ~IsEstimable(q, items, m, method)
        OBVIOUS
      <3>3. IsSale(In(r))
        BY <1>2, <1>5, <1>8, <2>2, <3>1 DEF Estimated
      <3>4. IsExcluded(In(q))
        BY <1>2, <1>5, <3>2 DEF Estimated
      <3> QED BY <1>3, <3>1, <3>2, <3>3, <3>4
    <2> HIDE DEF mixed
    <2>3. mode = "actual" \/ mode = "estimated"
      BY DEF Modes
    <2> QED BY <2>1, <2>2, <2>3
  <1>12. Cardinality(A) + Cardinality(B) + Cardinality(C)
           = Cardinality(O) + Cardinality(A \cap C)
    BY <1>4, <1>7, <1>10, CountsAddUp
  <1>13. Cardinality(A \cap C) = IF mode = "actual" THEN 0 ELSE Cardinality(mixed)
    BY <1>11, FS_EmptySet
  <1>14. /\ Summarize(rows).orders = Cardinality(O)
         /\ Summarize(rows).salesOrders = Cardinality(A)
         /\ Summarize(rows).returnOrders = Cardinality(B)
         /\ Summarize(rows).revenueExcludedOrders = Cardinality(C)
    BY DEF Summarize, O, A, B, C
  <1> QED BY <1>12, <1>13, <1>14

\* Each order of the report is counted as a sale, a return or excluded, and
\* as one of them only.
THEOREM OrdersAlwaysCountedOnce == Spec => []OrdersCountedOnce
  BY CountInv, ReportInvariant, PTL

-----------------------------------------------------------------------------
(* What the estimates add.                                                 *)
\* Two rows of the file are not of one line.
LEMMA LineHasOneRow ==
    ASSUME ReportInv, NEW r \in items, NEW q \in items, r.order = q.order, r.line = q.line
    PROVE  r = q
  <1>1. PICK then \in [Skus -> Places] : items = FileOf(then)
    BY DEF ReportInv, FileInv
  <1>2. \A o, k : Row(then, o, k).order = o /\ Row(then, o, k).line = k
    BY DEF Row, RowCosting
  <1>3. ASSUME NEW x \in items PROVE x = Row(then, x.order, x.line)
    <2>1. PICK o \in Orders : \E k \in DOMAIN goods[o] : x = Row(then, o, k)
      BY <1>1, InFile
    <2> QED BY <1>2, <2>1
  <1>4. r = Row(then, r.order, r.line) /\ q = Row(then, q.order, q.line)
    BY <1>3
  <1> QED BY <1>4, Zenon

IsEstimate(q) == q.policy = "pending_pickup_estimated"

\* The profit of a line in the estimated mode.
LEMMA EstimateAdds ==
    ASSUME ReportInv, NEW r \in items, NEW m, NEW method \in Methods,
           NEW q, q = InMode(r, items, m, "estimated", method)
    PROVE  /\ q.profit \in Int /\ r.profit \in Int
           /\ IsEstimate(q) =>
                 /\ q.original.gross - q.amounts.charge - q.ruleCost \in Int
                 /\ q.profit = r.profit + (q.original.gross - q.amounts.charge - q.ruleCost)
           /\ ~IsEstimate(q) => q.profit = r.profit
  <1>1. r \in Rows
    BY ItemsAreRows
  <1>2. r.profit \in Int /\ r.original.gross \in Int /\ r.ruleCost \in Int
    BY <1>1 DEF Rows, Amounts
  <1>3. CASE q = r
    <2>1. ~IsEstimate(r)
      BY <1>1 DEF IsEstimate, Rows, Policies
    <2> QED BY <1>2, <1>3, <2>1
  <1>4. CASE IsPending(r) /\ q = Estimate(r, Fee(r, m, method)) /\ Fee(r, m, method) \in Int
    <2> DEFINE fee == Fee(r, m, method)
    <2>1. /\ q.original = r.original /\ q.ruleCost = r.ruleCost /\ q.amounts.charge = fee
          /\ q.profit = r.original.gross - fee - r.ruleCost /\ IsEstimate(q) /\ fee \in Int
      BY <1>1, <1>4, EstimateIs DEF IsEstimate
    <2>2. r.profit = 0
      BY <1>4, ExportAddsUp DEF IsPending, IsSale, IsExcluded, RevenueExcluded
    <2> HIDE DEF fee
    <2> QED BY <1>2, <2>1, <2>2
  <1>5. CASE q = [r EXCEPT !.policy = "pending_pickup_estimate_missing"]
    <2>1. q.profit = r.profit /\ ~IsEstimate(q)
      BY <1>1, <1>5, MissingIs DEF IsEstimate
    <2> QED BY <1>2, <2>1
  <1>6. "estimated" \in Modes
    BY DEF Modes
  <1> QED BY <1>3, <1>4, <1>5, <1>6, InModeIs

\* The difference between the modes, line by line.
LEMMA DeltaInv ==
    ASSUME ReportInv
    PROVE  DeltaIsEstimatedProfit
  <1> SUFFICES ASSUME NEW m \in Mappings, NEW method \in Methods
               PROVE  LET actual == View(m, "actual", method)
                          estimated == View(m, "estimated", method)
                      IN /\ Summarize(estimated).profit - Summarize(actual).profit =
                              MapThenSumSet(
                                LAMBDA r : r.original.gross - r.amounts.charge - r.ruleCost,
                                {r \in estimated : r.policy = "pending_pickup_estimated"})
                         /\ \A r \in actual \ estimated : IsPending(r)
    BY ZenonT(60) DEF DeltaIsEstimatedProfit
  <1> DEFINE In(r) == InMode(r, items, m, "estimated", method)
             actual == View(m, "actual", method)
             E == View(m, "estimated", method)
             X == {r \in E : r.policy = "pending_pickup_estimated"}
  <1>1. "estimated" \in Modes /\ "actual" \in Modes
    BY DEF Modes
  <1>2. actual = items
    <2>1. \A r \in items : InMode(r, items, m, "actual", method) = r
      BY DEF InMode
    <2>2. actual = {InMode(r, items, m, "actual", method) : r \in items}
      BY ViewIs
    <2> QED BY <2>1, <2>2
  <1>3. E = {In(r) : r \in items}
    BY ViewIs
  <1>4. \A r \in items : ~IsPending(r) => In(r) = r
    BY DEF InMode
  <1>5. ASSUME NEW r \in items
        PROVE  /\ In(r).order = r.order /\ In(r).line = r.line
               /\ In(r).profit \in Int /\ r.profit \in Int
               /\ IsEstimate(In(r)) =>
                    /\ In(r).original.gross - In(r).amounts.charge - In(r).ruleCost \in Int
                    /\ In(r).profit = r.profit
                         + (In(r).original.gross - In(r).amounts.charge - In(r).ruleCost)
               /\ ~IsEstimate(In(r)) => In(r).profit = r.profit
    <2>1. In(r).order = r.order /\ In(r).line = r.line
      BY <1>1, InModeKeeps
    <2> QED BY <2>1, EstimateAdds
  <1>6. \A r \in actual \ E : IsPending(r)
    <2> HIDE DEF In, E, actual
    <2> QED BY <1>2, <1>3, <1>4
  <1> HIDE DEF In, E
  <1> DEFINE b == [r \in items |-> In(r)]
             pI == [r \in items |-> r.profit]
             pE == [q \in E |-> q.profit]
             u == [r \in items |-> In(r).profit]
             x == [q \in X |-> q.original.gross - q.amounts.charge - q.ruleCost]
             e == [q \in E |-> IF IsEstimate(q)
                               THEN q.original.gross - q.amounts.charge - q.ruleCost ELSE 0]
             v == [r \in items |-> e[In(r)]]
  <1>7. OneToOne(b, items, E)
    <2>1. \A r, q \in items : In(r) = In(q) => r = q
      BY <1>5, LineHasOneRow
    <2>2. /\ b \in [items -> E]
          /\ \A r, q \in items : b[r] = b[q] => r = q
          /\ \A q \in E : \E r \in items : b[r] = q
      BY <1>3, <2>1
    <2> HIDE DEF b
    <2> QED BY <2>2 DEF OneToOne, Bijection, Injection, Surjection, IsInjective
  <1>8. IsFiniteSet(items) /\ IsFiniteSet(E) /\ X \in SUBSET E /\ IsFiniteSet(X)
    <2>1. IsFiniteSet(items)
      BY ItemsFinite
    <2>2. IsFiniteSet(E)
      <3>1. b \in Surjection(items, E)
        BY <1>7 DEF OneToOne, Bijection
      <3> HIDE DEF b
      <3> QED BY <2>1, <3>1, FS_Surjection
    <2> QED BY <2>1, <2>2, FS_Subset
  <1>9. \A q \in E : \E r \in items : q = In(r)
    BY <1>3
  <1>10. pI \in [items -> Int] /\ u \in [items -> Int] /\ pE \in [E -> Int]
    BY <1>5, <1>9
  <1>11. \A q \in E : /\ q \in X <=> IsEstimate(q)
                      /\ IsEstimate(q) => q.original.gross - q.amounts.charge - q.ruleCost \in Int
    BY <1>5, <1>9 DEF IsEstimate
  <1>12. x \in [X -> Int] /\ e \in [E -> Int] /\ \A r \in items : In(r) \in E
    BY <1>3, <1>11
  <1>13. v \in [items -> Int]
    <2> HIDE DEF e
    <2> QED BY <1>12
  <1>14. \A r \in items : u[r] = pI[r] + v[r] /\ u[r] = pE[b[r]] /\ v[r] = e[b[r]]
    <2> TAKE r \in items
    <2>1. In(r) \in E
      BY <1>12
    <2>2. u[r] = In(r).profit /\ pI[r] = r.profit /\ v[r] = e[In(r)] /\ b[r] = In(r)
      OBVIOUS
    <2>3. pE[In(r)] = In(r).profit
      BY <2>1
    <2>4. e[In(r)] = IF IsEstimate(In(r))
                     THEN In(r).original.gross - In(r).amounts.charge - In(r).ruleCost ELSE 0
      BY <2>1
    <2>5. In(r).profit = r.profit + e[In(r)]
      <3> HIDE DEF e
      <3> QED BY <1>5, <2>4
    <2> HIDE DEF u, pI, v, pE, e, b
    <2> QED BY <2>2, <2>3, <2>5
  <1> HIDE DEF actual
  <1>15. \A q \in E : e[q] = IF q \in X THEN x[q] ELSE 0
    BY <1>11
  <1> HIDE DEF b, pI, pE, u, x, e, v, X
  <1>16. SumOf(u, items) = SumOf(pE, E)
    BY <1>7, <1>8, <1>10, <1>14, SumRenamed DEF OneToOne
  <1>17. SumOf(v, items) = SumOf(e, E)
    BY <1>7, <1>8, <1>12, <1>13, <1>14, SumRenamed DEF OneToOne
  <1>18. SumOf(u, items) = SumOf(pI, items) + SumOf(v, items)
    BY <1>8, <1>10, <1>13, <1>14, SumPlus
  <1>19. SumOf(e, E) = SumOf(x, X)
    BY <1>8, <1>12, <1>15, SumPart
  <1>20. SumOf(pI, items) \in Int /\ SumOf(x, X) \in Int
    BY <1>8, <1>10, <1>12, SumFacts
  <1>21. Summarize(actual).profit = SumOf(pI, items)
    <2>1. MapThenSumSet(LAMBDA r : r.profit, items) = SumOf(pI, items)
      BY <1>8, ProfitSum, Zenon DEF pI
    <2> QED BY <1>2, <2>1 DEF Summarize
  <1>22. Summarize(E).profit = SumOf(pE, E)
    <2>1. MapThenSumSet(LAMBDA r : r.profit, E) = SumOf(pE, E)
      BY <1>8, ProfitSum, Zenon DEF pE
    <2> QED BY <2>1 DEF Summarize
  <1>23. MapThenSumSet(LAMBDA r : r.original.gross - r.amounts.charge - r.ruleCost, X)
           = SumOf(x, X)
    BY <1>8, EstimateSum, Zenon DEF x
  <1>24. Summarize(E).profit - Summarize(actual).profit = SumOf(x, X)
    <2>1. Summarize(E).profit = SumOf(pI, items) + SumOf(x, X)
      BY <1>16, <1>17, <1>18, <1>19, <1>22, Zenon
    <2>2. \A i, j \in Int : (i + j) - i = j
      OBVIOUS
    <2> QED BY <1>20, <1>21, <2>1, <2>2, Zenon
  <1> QED BY <1>6, <1>23, <1>24, Zenon DEF X, E, actual

\* The report with estimates and the one without differ by the profit of the
\* estimated lines.
THEOREM DeltaAlwaysEstimatedProfit == Spec => []DeltaIsEstimatedProfit
  BY DeltaInv, ReportInvariant, PTL

-----------------------------------------------------------------------------
(* The tables of the report.                                               *)
\* What a row adds to a column.
Adds(m, c, r) ==
    CASE c = "lines" -> 1
      [] c = "salesLines" -> IF IsSale(r) THEN 1 ELSE 0
      [] c = "estimatedLines" -> IF IsEstimated(r) THEN 1 ELSE 0
      [] c = "missingMappingLines" -> IF Warehouse(m, r) = Unmapped THEN 1 ELSE 0
      [] c = "grossRevenue" -> r.amounts.gross
      [] c = "performanceFee" -> r.amounts.charge
      [] c = "productCost" -> r.pnlCost
      [] c = "afterSalesCost" -> r.afterSales
      [] c = "profit" -> r.profit
      [] c = "salesProfit" -> IF IsSale(r) THEN r.profit ELSE 0

\* Rows whose amounts are numbers.
HasAmounts(r) ==
    /\ r.amounts.gross \in Int /\ r.amounts.charge \in Int /\ r.pnlCost \in Int
    /\ r.afterSales \in Int /\ r.profit \in Int

\* The totals of a group are sums of what its rows add.
LEMMA AddsInt ==
    ASSUME NEW m, NEW c \in Columns, NEW r, HasAmounts(r)
    PROVE  Adds(m, c, r) \in Int
  BY DEF Adds, HasAmounts, Columns

LEMMA TotalsAddUp ==
    ASSUME NEW m, NEW rows, IsFiniteSet(rows), \A r \in rows : HasAmounts(r),
           NEW c \in Columns
    PROVE  Totals(m, rows)[c] = SumOf([r \in rows |-> Adds(m, c, r)], rows)
  <1> DEFINE f == [r \in rows |-> Adds(m, c, r)]
             sales == {r \in rows : IsSale(r)}
  <1>1. f \in [rows -> Int]
    BY AddsInt
  <1>2. IsFiniteSet(sales)
    BY FS_Subset
  <1>3. CASE c = "lines"
    <2>1. \A r \in rows : f[r] = 1
      BY <1>3 DEF Adds
    <2> HIDE DEF f
    <2>2. SumOf(f, rows) = Cardinality(rows)
      BY <1>1, <2>1, SumCount
    <2> QED BY <1>3, <2>2 DEF Totals, f
  <1>4. CASE c = "salesLines"
    <2>1. /\ \A r \in sales : f[r] = 1
          /\ \A r \in rows \ sales : f[r] = 0
      BY <1>4 DEF Adds
    <2> HIDE DEF f
    <2>2. SumOf(f, rows) = Cardinality(sales)
      BY <1>1, <2>1, SumCount
    <2> QED BY <1>4, <2>2 DEF Totals, f
  <1>5. CASE c = "estimatedLines"
    <2> DEFINE T == {r \in rows : IsEstimated(r)}
    <2>1. /\ \A r \in T : f[r] = 1
          /\ \A r \in rows \ T : f[r] = 0
      BY <1>5 DEF Adds
    <2> HIDE DEF f
    <2>2. SumOf(f, rows) = Cardinality(T)
      BY <1>1, <2>1, SumCount
    <2> QED BY <1>5, <2>2 DEF Totals, f
  <1>6. CASE c = "missingMappingLines"
    <2> DEFINE T == {r \in rows : Warehouse(m, r) = Unmapped}
    <2>1. /\ \A r \in T : f[r] = 1
          /\ \A r \in rows \ T : f[r] = 0
      BY <1>6 DEF Adds
    <2> HIDE DEF f
    <2>2. SumOf(f, rows) = Cardinality(T)
      BY <1>1, <2>1, SumCount
    <2> QED BY <1>6, <2>2 DEF Totals, f
  <1>7. CASE c = "grossRevenue"
    <2>1. f = [r \in rows |-> r.amounts.gross]
      BY <1>7 DEF Adds
    <2>2. Sum(rows, LAMBDA r : r.amounts.gross) = SumOf([r \in rows |-> r.amounts.gross], rows)
      BY GrossSum, Zenon DEF Sum
    <2> QED BY <1>7, <2>1, <2>2 DEF Totals
  <1>8. CASE c = "performanceFee"
    <2>1. f = [r \in rows |-> r.amounts.charge]
      BY <1>8 DEF Adds
    <2>2. Sum(rows, LAMBDA r : r.amounts.charge) = SumOf([r \in rows |-> r.amounts.charge], rows)
      BY ChargeSum, Zenon DEF Sum
    <2> QED BY <1>8, <2>1, <2>2 DEF Totals
  <1>9. CASE c = "productCost"
    <2>1. f = [r \in rows |-> r.pnlCost]
      BY <1>9 DEF Adds
    <2>2. Sum(rows, LAMBDA r : r.pnlCost) = SumOf([r \in rows |-> r.pnlCost], rows)
      BY CostSum, Zenon DEF Sum
    <2> QED BY <1>9, <2>1, <2>2 DEF Totals
  <1>10. CASE c = "afterSalesCost"
    <2>1. f = [r \in rows |-> r.afterSales]
      BY <1>10 DEF Adds
    <2>2. Sum(rows, LAMBDA r : r.afterSales) = SumOf([r \in rows |-> r.afterSales], rows)
      BY AfterSalesSum, Zenon DEF Sum
    <2> QED BY <1>10, <2>1, <2>2 DEF Totals
  <1>11. CASE c = "profit"
    <2>1. f = [r \in rows |-> r.profit]
      BY <1>11 DEF Adds
    <2>2. Sum(rows, LAMBDA r : r.profit) = SumOf([r \in rows |-> r.profit], rows)
      BY ProfitSum, Zenon DEF Sum
    <2> QED BY <1>11, <2>1, <2>2 DEF Totals
  <1>12. CASE c = "salesProfit"
    <2> DEFINE h == [r \in sales |-> r.profit]
    <2>1. /\ \A r \in sales : f[r] = h[r]
          /\ \A r \in rows \ sales : f[r] = 0
          /\ h \in [sales -> Int]
      BY <1>12 DEF Adds, HasAmounts
    <2>2. Sum(sales, LAMBDA r : r.profit) = SumOf(h, sales)
      BY <1>2, ProfitSum, Zenon DEF Sum
    <2>3. sales \in SUBSET rows
      OBVIOUS
    <2>4. Totals(m, rows)[c] = Sum(sales, LAMBDA r : r.profit)
      BY <1>12 DEF Totals
    <2> HIDE DEF f, h, sales
    <2>5. SumOf(f, rows) = SumOf(h, sales)
      BY <1>1, <2>1, <2>3, SumPart
    <2> QED BY <2>2, <2>4, <2>5 DEF f
  <1> QED BY <1>3, <1>4, <1>5, <1>6, <1>7, <1>8, <1>9, <1>10, <1>11, <1>12 DEF Columns

\* A table of the rows adds up to them, whatever they are grouped by.
LEMMA TableAddsUp ==
    ASSUME NEW m, NEW rows, IsFiniteSet(rows), \A r \in rows : HasAmounts(r),
           NEW key, NEW table,
           table = [k \in {key[r] : r \in rows} |-> Totals(m, {r \in rows : key[r] = k})],
           NEW c \in Columns
    PROVE  AddsUpTo(table, c, Totals(m, rows)[c])
  <1> DEFINE f == [r \in rows |-> Adds(m, c, r)]
             K == {key[r] : r \in rows}
             G(k) == {r \in rows : key[r] = k}
             t == [k \in K |-> table[k][c]]
             by == [r \in rows |-> key[r]]
  <1>1. f \in [rows -> Int] /\ by \in [rows -> K]
    BY AddsInt
  <1>2. IsFiniteSet(K)
    <2>1. \A k : k \in K <=> \E r \in rows : k = key[r]
      OBVIOUS
    <2> HIDE DEF K
    <2> QED BY <2>1, FiniteImage
  <1>3. DOMAIN table = K /\ \A k \in K : table[k] = Totals(m, G(k))
    OBVIOUS
  <1>4. ASSUME NEW k \in K
        PROVE  t[k] = SumOf(f, {r \in rows : by[r] = k}) /\ t[k] \in Int
    <2> DEFINE h == [r \in G(k) |-> Adds(m, c, r)]
    <2>1. G(k) \in SUBSET rows /\ {r \in rows : by[r] = k} = G(k)
      OBVIOUS
    <2>2. IsFiniteSet(G(k)) /\ \A r \in G(k) : HasAmounts(r)
      BY FS_Subset
    <2>3. h \in [G(k) -> Int] /\ \A r \in G(k) : f[r] = h[r]
      BY AddsInt
    <2> HIDE DEF G
    <2>4. Totals(m, G(k))[c] = SumOf(h, G(k))
      BY <2>2, TotalsAddUp
    <2> HIDE DEF f, h
    <2>5. SumOf(f, G(k)) = SumOf(h, G(k))
      BY <1>1, <2>1, <2>2, <2>3, SumSame
    <2>6. SumOf(f, G(k)) \in Int
      BY <1>1, <2>1, SumFacts
    <2> QED BY <1>3, <2>1, <2>4, <2>5, <2>6
  <1>5. t \in [K -> Int]
    <2> HIDE DEF K
    <2> QED BY <1>4
  <1> HIDE DEF K, f, by, t, G
  <1>6. SumOf(t, K) = SumOf(f, rows)
    BY <1>1, <1>2, <1>4, <1>5, SumGrouped
  <1>7. AddsUpTo(table, c, SumOf(t, K))
    <2> DEFINE column == [k \in DOMAIN table |-> table[k][c]]
    <2>1. IsFiniteSet(DOMAIN table)
      BY <1>2, <1>3
    <2>2. column = t
      BY <1>3 DEF t
    <2>3. AddsUpTo(table, c, SumOf(column, DOMAIN table))
      BY <2>1, ColumnSum, Zenon
    <2> HIDE DEF column
    <2> QED BY <1>3, <2>2, <2>3, Zenon
  <1>8. Totals(m, rows)[c] = SumOf(f, rows)
    BY TotalsAddUp DEF f
  <1> QED BY <1>6, <1>7, <1>8, Zenon

\* The tables of the report.
LEMMA SkuTableAddsUp ==
    ASSUME NEW m, NEW rows, IsFiniteSet(rows), \A r \in rows : HasAmounts(r),
           NEW c \in Columns
    PROVE  AddsUpTo(SkuTable(m, rows), c, Totals(m, rows)[c])
  <1> DEFINE key == [r \in rows |-> Key(m, r)]
             table == [k \in {key[r] : r \in rows} |-> Totals(m, {r \in rows : key[r] = k})]
  <1>1. SkuTable(m, rows) = table
    <2>1. /\ {key[r] : r \in rows} = {Key(m, r) : r \in rows}
          /\ \A k : {r \in rows : key[r] = k} = {r \in rows : Key(m, r) = k}
      OBVIOUS
    <2>2. SkuTable(m, rows)
            = [k \in {Key(m, r) : r \in rows} |-> Totals(m, {r \in rows : Key(m, r) = k})]
      BY Zenon DEF SkuTable, GroupBy
    <2> HIDE DEF key
    <2> QED BY <2>1, <2>2
  <1>2. AddsUpTo(table, c, Totals(m, rows)[c])
    <2> HIDE DEF key
    <2> QED BY TableAddsUp, Zenon
  <1> HIDE DEF table
  <1> QED BY <1>1, <1>2

LEMMA SkcTableAddsUp ==
    ASSUME NEW m, NEW rows, IsFiniteSet(rows), \A r \in rows : HasAmounts(r),
           NEW c \in Columns
    PROVE  AddsUpTo(SkcTable(m, rows), c, Totals(m, rows)[c])
  <1> DEFINE key == [r \in rows |-> SkcKey(m, r)]
             table == [k \in {key[r] : r \in rows} |-> Totals(m, {r \in rows : key[r] = k})]
  <1>1. SkcTable(m, rows) = table
    <2>1. /\ {key[r] : r \in rows} = {SkcKey(m, r) : r \in rows}
          /\ \A k : {r \in rows : key[r] = k} = {r \in rows : SkcKey(m, r) = k}
      OBVIOUS
    <2>2. SkcTable(m, rows)
            = [k \in {SkcKey(m, r) : r \in rows} |-> Totals(m, {r \in rows : SkcKey(m, r) = k})]
      BY Zenon DEF SkcTable, GroupBy
    <2> HIDE DEF key
    <2> QED BY <2>1, <2>2
  <1>2. AddsUpTo(table, c, Totals(m, rows)[c])
    <2> HIDE DEF key
    <2> QED BY TableAddsUp, Zenon
  <1> HIDE DEF table
  <1> QED BY <1>1, <1>2

LEMMA DailyTrendAddsUp ==
    ASSUME NEW m, NEW rows, IsFiniteSet(rows), \A r \in rows : HasAmounts(r),
           NEW c \in Columns
    PROVE  AddsUpTo(DailyTrend(m, rows), c, Totals(m, rows)[c])
  <1> DEFINE key == [r \in rows |-> Day(r)]
             table == [k \in {key[r] : r \in rows} |-> Totals(m, {r \in rows : key[r] = k})]
  <1>1. DailyTrend(m, rows) = table
    <2>1. /\ {key[r] : r \in rows} = {Day(r) : r \in rows}
          /\ \A k : {r \in rows : key[r] = k} = {r \in rows : Day(r) = k}
      OBVIOUS
    <2>2. DailyTrend(m, rows)
            = [k \in {Day(r) : r \in rows} |-> Totals(m, {r \in rows : Day(r) = k})]
      BY Zenon DEF DailyTrend, GroupBy
    <2> HIDE DEF key
    <2> QED BY <2>1, <2>2
  <1>2. AddsUpTo(table, c, Totals(m, rows)[c])
    <2> HIDE DEF key
    <2> QED BY TableAddsUp, Zenon
  <1> HIDE DEF table
  <1> QED BY <1>1, <1>2

LEMMA OrderTableAddsUp ==
    ASSUME NEW m, NEW rows, IsFiniteSet(rows), \A r \in rows : HasAmounts(r),
           NEW c \in Columns
    PROVE  AddsUpTo(OrderTable(m, rows), c, Totals(m, rows)[c])
  <1> DEFINE key == [r \in rows |-> r.order]
             table == [k \in {key[r] : r \in rows} |-> Totals(m, {r \in rows : key[r] = k})]
  <1>1. OrderTable(m, rows) = table
    <2>1. /\ {key[r] : r \in rows} = {r.order : r \in rows}
          /\ \A k : {r \in rows : key[r] = k} = {r \in rows : r.order = k}
      OBVIOUS
    <2>2. OrderTable(m, rows)
            = [k \in {r.order : r \in rows} |-> Totals(m, {r \in rows : r.order = k})]
      BY Zenon DEF OrderTable, GroupBy
    <2> HIDE DEF key
    <2> QED BY <2>1, <2>2
  <1>2. AddsUpTo(table, c, Totals(m, rows)[c])
    <2> HIDE DEF key
    <2> QED BY TableAddsUp, Zenon
  <1> HIDE DEF table
  <1> QED BY <1>1, <1>2

\* The rows of the report have amounts.
LEMMA ViewHasAmounts ==
    ASSUME ReportInv, NEW m \in Mappings, NEW mode \in Modes, NEW method \in Methods
    PROVE  /\ IsFiniteSet(View(m, mode, method))
           /\ \A q \in View(m, mode, method) : HasAmounts(q)
  <1> DEFINE V == View(m, mode, method)
             In(r) == InMode(r, items, m, mode, method)
  <1>1. V = {In(r) : r \in items}
    BY ViewIs
  <1>2. IsFiniteSet(V)
    <2> DEFINE f == [r \in items |-> In(r)]
    <2>1. \A q : q \in V <=> \E r \in items : q = f[r]
      BY <1>1
    <2> HIDE DEF V, f
    <2> QED BY <2>1, ItemsFinite, FiniteImage
  <1>3. ASSUME NEW r \in items, NEW q, q = In(r) PROVE HasAmounts(q)
    <2>1. r \in Rows
      BY ItemsAreRows
    <2>2. CASE q = r
      BY <2>1, <2>2 DEF HasAmounts, Rows, Amounts
    <2>3. CASE q = Estimate(r, Fee(r, m, method)) /\ Fee(r, m, method) \in Int
      <3>1. /\ q.amounts.gross \in Int /\ q.amounts.charge = Fee(r, m, method)
            /\ q.afterSales = 0 /\ q.pnlCost = r.ruleCost /\ q.profit \in Int
            /\ r.ruleCost \in Int
        BY <2>1, <2>3, EstimateIs DEF Rows
      <3> QED BY <2>3, <3>1 DEF HasAmounts
    <2>4. CASE q = [r EXCEPT !.policy = "pending_pickup_estimate_missing"]
      <3>1. /\ q.amounts = r.amounts /\ q.afterSales = r.afterSales /\ q.pnlCost = r.pnlCost
            /\ q.profit = r.profit
        BY <2>1, <2>4, MissingIs
      <3> QED BY <2>1, <3>1 DEF HasAmounts, Rows, Amounts
    <2> QED BY <1>3, <2>2, <2>3, <2>4, InModeIs
  <1> HIDE DEF In, V
  <1>4. \A q \in V : HasAmounts(q)
    BY <1>1, <1>3
  <1> QED BY <1>2, <1>4 DEF V

\* Each of the tables, each of the columns.
LEMMA TablesInv ==
    ASSUME ReportInv
    PROVE  TablesAddUp
  <1> SUFFICES ASSUME NEW m \in Mappings
               PROVE  /\ \A c \in FilterColumns :
                            AddsUpTo(Filters(m), c, Totals(m, items)[c])
                      /\ \A mode \in Modes, method \in Methods :
                           LET rows == View(m, mode, method)
                               tables == <<SkuTable(m, rows), SkcTable(m, rows),
                                           DailyTrend(m, rows), OrderTable(m, rows)>>
                           IN \A t \in DOMAIN tables, c \in Columns :
                                 AddsUpTo(tables[t], c, Totals(m, rows)[c])
    BY Zenon DEF TablesAddUp, AddsUpTo
  <1>1. ASSUME NEW c \in FilterColumns
        PROVE  AddsUpTo(Filters(m), c, Totals(m, items)[c])
    <2>1. Filters(m) = SkuTable(m, items)
      BY Zenon DEF Filters, SkuTable
    <2>2. \A r \in items : HasAmounts(r)
      BY ItemsAreRows DEF HasAmounts, Rows, Amounts
    <2>3. c \in Columns
      BY DEF FilterColumns, Columns
    <2>4. AddsUpTo(SkuTable(m, items), c, Totals(m, items)[c])
      BY <2>2, <2>3, ItemsFinite, SkuTableAddsUp
    <2> QED BY <2>1, <2>4
  <1>2. ASSUME NEW mode \in Modes, NEW method \in Methods
        PROVE  LET rows == View(m, mode, method)
                   tables == <<SkuTable(m, rows), SkcTable(m, rows),
                               DailyTrend(m, rows), OrderTable(m, rows)>>
               IN \A t \in DOMAIN tables, c \in Columns :
                     AddsUpTo(tables[t], c, Totals(m, rows)[c])
    <2> DEFINE rows == View(m, mode, method)
               tables == <<SkuTable(m, rows), SkcTable(m, rows),
                           DailyTrend(m, rows), OrderTable(m, rows)>>
    <2> SUFFICES ASSUME NEW t \in DOMAIN tables, NEW c \in Columns
                 PROVE  AddsUpTo(tables[t], c, Totals(m, rows)[c])
      OBVIOUS
    <2>1. IsFiniteSet(rows) /\ \A q \in rows : HasAmounts(q)
      BY ViewHasAmounts
    <2> HIDE DEF rows
    <2>2. /\ AddsUpTo(SkuTable(m, rows), c, Totals(m, rows)[c])
          /\ AddsUpTo(SkcTable(m, rows), c, Totals(m, rows)[c])
          /\ AddsUpTo(DailyTrend(m, rows), c, Totals(m, rows)[c])
          /\ AddsUpTo(OrderTable(m, rows), c, Totals(m, rows)[c])
      BY <2>1, SkuTableAddsUp, SkcTableAddsUp, DailyTrendAddsUp, OrderTableAddsUp
    <2>3. tables[t] \in {SkuTable(m, rows), SkcTable(m, rows),
                         DailyTrend(m, rows), OrderTable(m, rows)}
      OBVIOUS
    <2> HIDE DEF tables
    <2> QED BY <2>2, <2>3
  <1> QED BY <1>1, <1>2

\* Each table of the report adds up to the same totals, and the SKUs a
\* selection is made from to the file (/api/data, /api/filters).
THEOREM TablesAlwaysAddUp == Spec => []TablesAddUp
  BY TablesInv, ReportInvariant, PTL

-----------------------------------------------------------------------------
(* The analysis of the shipping fees.                                      *)
\* The lines of an order that is a sale are sales, and carry its shipping fee.
LEMMA SaleIsWhole ==
    ASSUME ReportInv, NEW o \in OrdersOf(EffectiveItems)
    PROVE  /\ LinesOf(EffectiveItems, o) = LinesOf(items, o)
           /\ Cardinality(LinesOf(items, o)) = Len(goods[o])
           /\ Sum(LinesOf(items, o), LAMBDA r : r.amounts.shipping) = Shipping
  <1> DEFINE lines == LinesOf(items, o)
             D == DOMAIN goods[o]
  <1>1. PICK s \in items : s.order = o /\ IsSale(s)
    BY DEF OrdersOf, EffectiveItems
  <1>2. \A r \in lines : r \in items /\ r.order = o
    BY DEF LinesOf
  <1>3. \A r \in lines : IsSale(r)
    <2>1. \A r \in lines : r.policy = s.policy
      BY <1>1, <1>2, OrderHasOnePolicy
    <2> QED BY <1>1, <2>1 DEF IsSale, IsReturn, IsExcluded
  <1>4. LinesOf(EffectiveItems, o) = lines
    BY <1>3 DEF LinesOf, EffectiveItems
  <1>5. o \in OrdersOf(items)
    BY <1>1 DEF OrdersOf
  <1>6. /\ o \in Orders /\ goods[o] \in Goods
        /\ \E b : /\ OneToOne(b, D, lines)
                  /\ \A k \in D : \E c \in Nat : b[k] = RowCosting(o, k, c)
    BY <1>5, RowsOfOrder
  <1>7. PICK b : /\ OneToOne(b, D, lines)
                 /\ \A k \in D : \E c \in Nat : b[k] = RowCosting(o, k, c)
    BY <1>6
  <1>8. IsFiniteSet(D) /\ IsFiniteSet(lines) /\ Cardinality(D) = Len(goods[o])
    BY <1>6, GoodsTypes, ItemsFinite, FS_Subset DEF LinesOf
  <1>9. Cardinality(lines) = Cardinality(D)
    <2> HIDE DEF lines, D
    <2>1. ExistsBijection(D, lines)
      BY <1>7 DEF OneToOne, ExistsBijection
    <2> QED BY <1>8, <2>1, FS_Bijection
  <1>10. b \in [D -> lines]
    BY <1>7 DEF OneToOne, Bijection, Injection
  <1>11. \A k \in D : b[k].amounts.shipping = Share(goods[o], k, Shipping)
    <2> TAKE k \in D
    <2>1. PICK c \in Nat : b[k] = RowCosting(o, k, c)
      BY <1>7
    <2>2. IsSale(b[k])
      <3> HIDE DEF lines, D
      <3> QED BY <1>3, <1>10
    <2>3. b[k].policy = Policy(o, k) /\ Policy(o, k) \in Policies
      BY <2>1 DEF RowCosting, Policy, Policies
    <2>4. Policy(o, k) \in {"standard", "after_sales_cost"}
      BY <2>2, <2>3 DEF IsSale, IsReturn, IsExcluded, RevenueExcluded, Policies
    <2>5. b[k].amounts = Original(o, k)
      BY <2>1, <2>4 DEF RowCosting
    <2>6. Original(o, k).shipping = Share(goods[o], k, Shipping)
      BY DEF Original
    <2> QED BY <2>5, <2>6
  <1> DEFINE f == [k \in D |-> Share(goods[o], k, Shipping)]
             h == [r \in lines |-> r.amounts.shipping]
  <1>12. Shipping \in Int
    BY ReportAmountsAssumption
  <1>13. f \in [D -> Int]
    BY <1>6, <1>12, ShareInt
  <1>14. h \in [lines -> Int]
    <2>1. \A r \in lines : r \in Rows
      BY <1>2, ItemsAreRows
    <2> HIDE DEF lines
    <2> QED BY <2>1 DEF Rows, Amounts
  <1>15. \A k \in D : f[k] = h[b[k]]
    <2> HIDE DEF D, lines
    <2> QED BY <1>10, <1>11
  <1>16. SumsTo(f, D, Shipping)
    BY <1>6, SharesAddUp DEF SumsTo
  <1> HIDE DEF f, h, D, lines
  <1>17. SumsTo(h, lines, Shipping)
    BY <1>7, <1>8, <1>13, <1>14, <1>15, <1>16, SumOverLines, Zenon
  <1>18. Sum(lines, LAMBDA r : r.amounts.shipping) = SumOf(h, lines)
    BY <1>8, ShippingSum, Zenon DEF Sum, h
  <1>19. Sum(lines, LAMBDA r : r.amounts.shipping) = Shipping
    BY <1>17, <1>18 DEF SumsTo
  <1> QED BY <1>4, <1>8, <1>9, <1>19 DEF lines

\* An amount rounded to a cent is within half a cent of it.
LEMMA RoundIsNear ==
    ASSUME NEW a \in Int
    PROVE  RoundToCent(a) \in Int /\ 2 * (RoundToCent(a) - a) \in -Cent..Cent
  <1> DEFINE cents == a \div Cent
             rest == a % Cent
  <1>1. Cent \in Nat /\ Cent > 0
    BY PagesAssumption
  <1>2. cents \in Int /\ rest \in 0..(Cent - 1) /\ a = Cent * cents + rest
    BY <1>1
  <1> HIDE DEF cents, rest
  <1>3. Cent * (cents + 1) = Cent * cents + Cent /\ Cent * cents \in Int
    BY <1>1, <1>2
  <1>4. \/ RoundToCent(a) = Cent * cents /\ 2 * rest <= Cent
        \/ RoundToCent(a) = Cent * (cents + 1) /\ 2 * rest >= Cent
    <2>1. RoundToCent(a) = Cent * (IF 2 * rest < Cent \/ (2 * rest = Cent /\ cents % 2 = 0)
                                   THEN cents ELSE cents + 1)
      BY Zenon DEF RoundToCent, cents, rest
    <2>2. CASE 2 * rest < Cent \/ (2 * rest = Cent /\ cents % 2 = 0)
      <3>1. RoundToCent(a) = Cent * cents
        BY <2>1, <2>2, Zenon
      <3> QED BY <1>1, <1>2, <2>2, <3>1
    <2>3. CASE ~(2 * rest < Cent \/ (2 * rest = Cent /\ cents % 2 = 0))
      <3>1. RoundToCent(a) = Cent * (cents + 1)
        BY <2>1, <2>3, Zenon
      <3> QED BY <1>1, <1>2, <2>3, <3>1
    <2> QED BY <2>2, <2>3
  <1> QED BY <1>1, <1>2, <1>3, <1>4

\* So the fee an order is listed with is near the one the buyer paid.
NearShipping(o, fee) ==
    2 * (fee - Shipping) \in -(Cent * Len(goods[o]))..(Cent * Len(goods[o]))
LEMMA RoundedFee ==
    ASSUME ReportInv, NEW o \in OrdersOf(EffectiveItems)
    PROVE  NearShipping(o, Sum(LinesOf(items, o), LAMBDA r : RoundToCent(r.amounts.shipping)))
  <1> DEFINE lines == LinesOf(items, o)
             f == [r \in lines |-> r.amounts.shipping]
             h == [r \in lines |-> RoundToCent(r.amounts.shipping)]
  <1>1. lines \in SUBSET items /\ IsFiniteSet(lines)
    BY ItemsFinite, FS_Subset DEF LinesOf
  <1>2. f \in [lines -> Int]
    <2>1. \A r \in lines : r \in Rows
      BY <1>1, ItemsAreRows
    <2> HIDE DEF lines
    <2> QED BY <2>1 DEF Rows, Amounts
  <1>3. \A r \in lines : f[r] \in Int /\ h[r] = RoundToCent(f[r])
    <2> HIDE DEF lines
    <2> QED BY <1>2
  <1>4. h \in [lines -> Int] /\ \A r \in lines : 2 * (h[r] - f[r]) \in -Cent..Cent
    <2> HIDE DEF lines, f
    <2>1. \A r \in lines : RoundToCent(f[r]) \in Int /\ 2 * (RoundToCent(f[r]) - f[r]) \in -Cent..Cent
      BY <1>3, RoundIsNear
    <2>2. h = [r \in lines |-> h[r]]
      OBVIOUS
    <2> HIDE DEF h
    <2> QED BY <1>3, <2>1, <2>2
  <1>5. Sum(lines, LAMBDA r : r.amounts.shipping) = SumOf(f, lines)
    <2> HIDE DEF lines
    <2> QED BY <1>1, ShippingSum, Zenon DEF Sum
  <1>6. Sum(lines, LAMBDA r : RoundToCent(r.amounts.shipping)) = SumOf(h, lines)
    <2> HIDE DEF lines
    <2> QED BY <1>1, RoundedShippingSum, Zenon DEF Sum
  <1>7. Sum(lines, LAMBDA r : r.amounts.shipping) = Shipping /\ Cardinality(lines) = Len(goods[o])
    BY SaleIsWhole
  <1>8. Cent \in Int
    BY PagesAssumption
  <1> HIDE DEF lines, f, h
  <1>9. 2 * (SumOf(h, lines) - SumOf(f, lines))
          \in -(Cent * Cardinality(lines))..(Cent * Cardinality(lines))
    BY <1>1, <1>2, <1>4, <1>8, SumNear
  <1>10. NearShipping(o, SumOf(h, lines))
    BY <1>5, <1>7, <1>9 DEF NearShipping
  <1> QED BY <1>6, <1>10, Zenon DEF lines

\* The lines of a set of rows are those of its orders.
LEMMA LinesOfOrders ==
    ASSUME NEW rows, IsFiniteSet(rows), NEW table, DOMAIN table = OrdersOf(rows),
           NEW c, \A o \in OrdersOf(rows) : table[o][c] = Cardinality(LinesOf(rows, o))
    PROVE  AddsUpTo(table, c, Cardinality(rows))
  <1> DEFINE O == OrdersOf(rows)
             one == [r \in rows |-> 1]
             of == [r \in rows |-> r.order]
             t == [o \in O |-> table[o][c]]
  <1>1. one \in [rows -> Int] /\ of \in [rows -> O]
        /\ \A r \in rows : one[r] = 1 /\ of[r] = r.order
    BY DEF OrdersOf
  <1>2. IsFiniteSet(O)
    <2>1. \A o : o \in O <=> \E r \in rows : o = of[r]
      BY <1>1 DEF OrdersOf
    <2> HIDE DEF O, of
    <2> QED BY <2>1, FiniteImage
  <1>3. ASSUME NEW o \in O
        PROVE  t[o] \in Int /\ t[o] = SumOf(one, {r \in rows : of[r] = o})
    <2> DEFINE L == LinesOf(rows, o)
               ones == [r \in L |-> 1]
    <2>1. {r \in rows : of[r] = o} = L /\ L \in SUBSET rows
      BY <1>1 DEF LinesOf
    <2>2. IsFiniteSet(L) /\ Cardinality(L) \in Nat
      BY <2>1, FS_Subset, FS_CardinalityType
    <2>3. ones \in [L -> Int] /\ \A r \in L : ones[r] = 1
      OBVIOUS
    <2>4. t[o] = Cardinality(L)
      OBVIOUS
    <2> HIDE DEF one, ones, L, t, of
    <2>5. SumOf(ones, L) = 1 * Cardinality(L)
      BY <2>2, <2>3, SumConstant
    <2>6. SumOf(one, L) = SumOf(ones, L)
      BY <1>1, <2>1, <2>2, <2>3, SumSame
    <2> QED BY <2>1, <2>2, <2>4, <2>5, <2>6
  <1>4. t \in [O -> Int]
    <2> HIDE DEF O
    <2> QED BY <1>3
  <1>5. AddsUpTo(table, c, SumOf(t, O))
    <2>1. IsFiniteSet(DOMAIN table)
      BY <1>2
    <2>2. AddsUpTo(table, c, SumOf([o \in DOMAIN table |-> table[o][c]], DOMAIN table))
      BY <2>1, ColumnSum, Zenon
    <2> QED BY <2>2
  <1> HIDE DEF one, of, O, t
  <1>6. SumOf(t, O) = SumOf(one, rows)
    BY <1>1, <1>2, <1>3, <1>4, SumGrouped
  <1>7. SumOf(one, rows) = 1 * Cardinality(rows)
    BY <1>1, SumConstant
  <1>8. Cardinality(rows) \in Nat
    BY FS_CardinalityType
  <1>9. SumOf(t, O) = Cardinality(rows)
    BY <1>6, <1>7, <1>8
  <1> QED BY <1>5, <1>9

\* What a row of the table of shipping fees shows.
LEMMA ShippingRow ==
    ASSUME NEW m, NEW dimension, NEW from, NEW to, NEW trend
    PROVE  LET table == ShippingTable(m, dimension, from, to, trend)
               period == InPeriod(EffectiveItems, from, to)
           IN /\ DOMAIN table = GroupKeys(m, dimension, period)
              /\ \A k \in DOMAIN table :
                    /\ table[k].periodRate = Rate(Group(m, dimension, period, k))
                    /\ table[k].unachievedOrders =
                          Cardinality(OrdersOf({r \in Group(m, dimension, period, k) : ~Hit(r)}))
  BY DEF ShippingTable

\* The list of orders of a SKU, against its row of the table.
LEMMA UnachievedInv ==
    ASSUME ReportInv
    PROVE  UnachievedOrdersAgree
  <1> SUFFICES ASSUME NEW p \in Periods, NEW trend \in Trends,
                      NEW k \in DOMAIN ShippingTable(mapping, "warehouse_sku", p[1], p[2], trend)
               PROVE  LET table == ShippingTable(mapping, "warehouse_sku", p[1], p[2], trend)
                          listed == UnachievedOrders(mapping, k, p[1], p[2])
                      IN /\ table[k].unachievedOrders = Cardinality(DOMAIN listed)
                         /\ AddsUpTo(listed, "targetMissItems",
                                     table[k].periodRate[2] - table[k].periodRate[1])
                         /\ \A o \in DOMAIN listed :
                               /\ Cardinality(listed[o].lines) = Len(goods[o])
                               /\ NearShipping(o, listed[o].shippingFee)
    BY ZenonT(60) DEF UnachievedOrdersAgree, AddsUpTo, NearShipping
  <1> DEFINE table == ShippingTable(mapping, "warehouse_sku", p[1], p[2], trend)
             listed == UnachievedOrders(mapping, k, p[1], p[2])
             period == InPeriod(EffectiveItems, p[1], p[2])
             shown == Group(mapping, "warehouse_sku", period, k)
             hit == {r \in shown : Hit(r)}
             missed == {r \in period : Key(mapping, r) = k /\ ~Hit(r)}
  <1>1. \A r : GroupKey(mapping, "warehouse_sku", r) = Key(mapping, r)
    BY DEF GroupKey
  <1>2. missed = {r \in shown : ~Hit(r)}
    BY <1>1 DEF Group
  <1>3. period \in SUBSET items /\ shown \in SUBSET period /\ missed \in SUBSET shown
    BY <1>2 DEF InPeriod, EffectiveItems, Group
  <1>4. IsFiniteSet(period) /\ IsFiniteSet(shown) /\ IsFiniteSet(missed) /\ IsFiniteSet(hit)
    BY <1>3, ItemsFinite, FS_Subset
  <1>5. shown # {}
    <2>1. k \in GroupKeys(mapping, "warehouse_sku", period)
      BY ShippingRow
    <2> QED BY <2>1 DEF GroupKeys, Group
  <1>6. /\ table[k].periodRate = Rate(shown)
        /\ table[k].unachievedOrders = Cardinality(OrdersOf({r \in shown : ~Hit(r)}))
    BY ShippingRow
  <1>7. /\ DOMAIN listed = OrdersOf(missed)
        /\ \A o \in OrdersOf(missed) :
              /\ listed[o].lines = LinesOf(period, o)
              /\ listed[o].targetMissItems = Cardinality(LinesOf(missed, o))
              /\ listed[o].shippingFee =
                    Sum(LinesOf(period, o), LAMBDA r : RoundToCent(r.amounts.shipping))
    BY DEF UnachievedOrders
  <1> HIDE DEF table, listed, period, shown, missed, hit
  <1>8. table[k].unachievedOrders = Cardinality(DOMAIN listed)
    BY <1>2, <1>6, <1>7
  <1>9. table[k].periodRate[2] - table[k].periodRate[1] = Cardinality(missed)
    <2>1. table[k].periodRate = <<Cardinality(hit), Cardinality(shown)>>
      BY <1>5, <1>6 DEF Rate, hit
    <2>2. Cardinality(hit \cup missed)
            = Cardinality(hit) + Cardinality(missed) - Cardinality(hit \cap missed)
      BY <1>4, FS_Union
    <2>3. hit \cup missed = shown /\ hit \cap missed = {}
      BY <1>2 DEF hit
    <2>4. Cardinality({}) = 0
      BY FS_EmptySet
    <2>5. Cardinality(hit) \in Nat /\ Cardinality(missed) \in Nat
      BY <1>4, FS_CardinalityType
    <2>6. Cardinality(shown) = Cardinality(hit) + Cardinality(missed) - 0
      BY <2>2, <2>3, <2>4, Zenon
    <2> QED BY <2>1, <2>5, <2>6
  <1>10. AddsUpTo(listed, "targetMissItems", Cardinality(missed))
    BY <1>4, <1>7, LinesOfOrders
  <1>11. ASSUME NEW o \in DOMAIN listed
         PROVE  /\ Cardinality(listed[o].lines) = Len(goods[o])
                /\ NearShipping(o, listed[o].shippingFee)
    <2>1. PICK r \in missed : r.order = o
      BY <1>7 DEF OrdersOf
    <2>2. r \in EffectiveItems /\ Created[o] \in p[1]..p[2]
      BY <1>3, <2>1 DEF period, InPeriod, Day
    <2>3. o \in OrdersOf(EffectiveItems)
      BY <2>1, <2>2 DEF OrdersOf
    <2>4. LinesOf(period, o) = LinesOf(EffectiveItems, o)
      BY <2>2 DEF LinesOf, period, InPeriod, Day
    <2> QED BY <1>7, <2>3, <2>4, SaleIsWhole, RoundedFee
  <1> QED BY <1>8, <1>9, <1>10, <1>11 DEF table, listed

\* The list of orders the page opens for a warehouse SKU has as many orders
\* as its row of the table counts and as many lines without a shipping fee,
\* and shows each order whole; the shipping fee it shows is within half a cent
\* for each line of the one the buyer paid, whose lines it rounds to cents and
\* adds (shipping_fee_unachieved_order_payload).
THEOREM UnachievedAlwaysAgree == Spec => []UnachievedOrdersAgree
  BY UnachievedInv, ReportInvariant, PTL

\* The rate of the last day with lines, of those up to a day.
LastRate(rows, d) ==
    LET days == {Day(r) : r \in rows} \cap 0..d
    IN IF days = {} THEN NoRate ELSE Rate(InPeriod(rows, Max(days), Max(days)))

\* The greatest and the least of a set.
LEMMA MaxIs ==
    ASSUME NEW S \in SUBSET Int, NEW x \in S, \A y \in S : y <= x
    PROVE  Max(S) = x
  <1>1. \A y \in S : x >= y
    OBVIOUS
  <1>2. Max(S) \in S /\ \A y \in S : Max(S) >= y
    BY <1>1, Zenon DEF Max
  <1>3. Max(S) >= x /\ Max(S) <= x /\ Max(S) \in Int
    BY <1>2
  <1> QED BY <1>3

LEMMA MinIs ==
    ASSUME NEW S \in SUBSET Int, NEW x \in S, \A y \in S : x <= y
    PROVE  Min(S) = x
  <1>1. Min(S) \in S /\ \A y \in S : Min(S) <= y
    BY Zenon DEF Min
  <1>2. Min(S) >= x /\ Min(S) <= x /\ Min(S) \in Int
    BY <1>1
  <1> QED BY <1>2

\* It is the rate of the day, or that of the day before.
LEMMA LastRateStep ==
    ASSUME NEW rows, \A r \in rows : Day(r) \in Nat, NEW d \in Nat
    PROVE  LastRate(rows, d) =
             IF InPeriod(rows, d, d) # {} THEN Rate(InPeriod(rows, d, d))
             ELSE LastRate(rows, d - 1)
  <1> DEFINE days == {Day(r) : r \in rows} \cap 0..d
  <1>1. CASE InPeriod(rows, d, d) # {}
    <2>1. PICK r \in rows : Day(r) \in d..d
      BY <1>1 DEF InPeriod
    <2>2. Day(r) = d
      BY <2>1
    <2>3. d \in days /\ days \in SUBSET Int /\ \A y \in days : y <= d
      BY <2>1, <2>2
    <2>4. Max(days) = d
      <3> HIDE DEF days
      <3> QED BY <2>3, MaxIs
    <2> QED BY <1>1, <2>3, <2>4 DEF LastRate
  <1>2. CASE InPeriod(rows, d, d) = {}
    <2>1. \A r \in rows : Day(r) # d
      BY <1>2 DEF InPeriod
    <2>2. days = {Day(r) : r \in rows} \cap 0..(d - 1)
      BY <2>1
    <2> HIDE DEF days
    <2> QED BY <1>2, <2>2, Zenon DEF LastRate, days
  <1> QED BY <1>1, <1>2

\* The series a request computes day by day is that, for any first day.
LEMMA SeriesIs ==
    ASSUME NEW rows, \A r \in rows : Day(r) \in Nat, NEW from \in Nat, NEW to \in Nat,
           NEW d \in from..to
    PROVE  Series(rows, from, to)[d] = LastRate(rows, d)
  <1> DEFINE before == {Day(r) : r \in rows} \cap 0..(from - 1)
             T == (from - 1)..to
             Next1(h) == [e \in T |->
                IF e = from - 1
                THEN IF before = {} THEN NoRate
                     ELSE Rate(InPeriod(rows, Max(before), Max(before)))
                ELSE IF InPeriod(rows, e, e) # {} THEN Rate(InPeriod(rows, e, e)) ELSE h[e - 1]]
             F(h) == h = Next1(h)
             known == CHOOSE h : F(h)
             last == [e \in T |-> LastRate(rows, e)]
  <1>1. Series(rows, from, to) = [e \in from..to |-> known[e]]
    BY Zenon DEF Series
  <1>2. LastRate(rows, from - 1) = IF before = {} THEN NoRate
                                   ELSE Rate(InPeriod(rows, Max(before), Max(before)))
    BY Zenon DEF LastRate
  <1>3. \A e \in T : e # from - 1 => e \in Nat /\ e - 1 \in T
    OBVIOUS
  <1>4. ASSUME NEW h
        PROVE  \A e \in T : Next1(h)[e] =
                  IF e = from - 1 THEN LastRate(rows, from - 1)
                  ELSE IF InPeriod(rows, e, e) # {} THEN Rate(InPeriod(rows, e, e)) ELSE h[e - 1]
    BY <1>2
  <1>5. \A h : DOMAIN Next1(h) = T
    OBVIOUS
  <1> HIDE DEF before, Next1
  <1>6. F(last)
    <2>1. \A e \in T : last[e] = Next1(last)[e]
      <3> TAKE e \in T
      <3>1. last[e] = LastRate(rows, e)
        OBVIOUS
      <3>2. CASE e = from - 1
        BY <1>4, <3>1, <3>2
      <3>3. CASE e # from - 1
        <4>1. e \in Nat /\ last[e - 1] = LastRate(rows, e - 1)
          BY <1>3, <3>3
        <4> HIDE DEF last, T
        <4>2. LastRate(rows, e) = IF InPeriod(rows, e, e) # {} THEN Rate(InPeriod(rows, e, e))
                                  ELSE LastRate(rows, e - 1)
          BY <4>1, LastRateStep
        <4> QED BY <1>4, <3>1, <3>3, <4>1, <4>2
      <3> QED BY <3>2, <3>3
    <2>2. last = [e \in T |-> Next1(last)[e]] /\ Next1(last) = [e \in T |-> Next1(last)[e]]
      <3>1. \A h : Next1(h) = [e \in T |-> Next1(h)[e]]
        BY DEF Next1
      <3> HIDE DEF T
      <3> QED BY <2>1, <3>1
    <2> QED BY <2>2
  <1>7. F(known)
    <2> HIDE DEF F
    <2> QED BY <1>6
  <1>8. known[d] = LastRate(rows, d)
    <2> DEFINE Bad == {n \in Nat : from - 1 + n \in T
                                   /\ known[from - 1 + n] # LastRate(rows, from - 1 + n)}
    <2>1. \A e \in T : known[e] = Next1(known)[e]
      <3>1. known = Next1(known)
        BY <1>7
      <3> HIDE DEF known, T
      <3> QED BY <3>1
    <2> HIDE DEF known, F
    <2>2. Bad = {}
      <3> SUFFICES ASSUME Bad # {} PROVE FALSE
        OBVIOUS
      <3>1. PICK n \in Bad : \A j \in Bad : n <= j
        BY LeastNatural
      <3> DEFINE e == from - 1 + n
      <3>2. e \in T /\ known[e] # LastRate(rows, e) /\ n \in Nat
        BY <3>1
      <3>3. e # from - 1
        <4> HIDE DEF T
        <4> QED BY <1>4, <2>1, <3>2
      <3>4. e \in Nat /\ e - 1 \in T /\ n - 1 \in Nat /\ e - 1 = from - 1 + (n - 1)
        BY <1>3, <3>2, <3>3
      <3>5. n - 1 \notin Bad
        <4>1. ~(n <= n - 1)
          BY <3>2
        <4> HIDE DEF Bad
        <4> QED BY <3>1, <4>1
      <3>6. known[e - 1] = LastRate(rows, e - 1)
        <4> HIDE DEF e, T
        <4> QED BY <3>4, <3>5
      <3> HIDE DEF e, T, Bad
      <3>7. LastRate(rows, e) = IF InPeriod(rows, e, e) # {} THEN Rate(InPeriod(rows, e, e))
                                ELSE LastRate(rows, e - 1)
        BY <3>4, LastRateStep
      <3> QED BY <1>4, <2>1, <3>2, <3>3, <3>6, <3>7
    <2>3. d - (from - 1) \in Nat /\ from - 1 + (d - (from - 1)) = d /\ d \in T
      OBVIOUS
    <2> HIDE DEF T
    <2> QED BY <2>2, <2>3
  <1> HIDE DEF known
  <1> QED BY <1>1, <1>8

\* Finitely many days have a last one.
LEMMA GreatestNatural ==
    ASSUME NEW S, IsFiniteSet(S), S \in SUBSET Nat, S # {}
    PROVE  \E x \in S : \A y \in S : y <= x
  <1> DEFINE Good == {T \in SUBSET S : T # {} => \E x \in T : \A y \in T : y <= x}
  <1>1. {} \in Good
    OBVIOUS
  <1>2. ASSUME NEW T \in SUBSET S, NEW x \in T, T \ {x} \in Good PROVE T \in Good
    <2>1. CASE T \ {x} = {}
      <3>1. \A y \in T : y = x
        BY <2>1
      <3> QED BY <1>2, <3>1
    <2>2. CASE T \ {x} # {}
      <3>1. PICK z \in T \ {x} : \A y \in T \ {x} : y <= z
        BY <1>2, <2>2
      <3>2. x \in Nat /\ z \in Nat /\ \A y \in T : y \in Nat
        BY <1>2
      <3>3. CASE x <= z
        <4>1. \A y \in T : y <= z
          BY <3>1, <3>3
        <4> QED BY <4>1
      <3>4. CASE z <= x
        <4>1. \A y \in T : y <= x
          BY <3>1, <3>2, <3>4
        <4> QED BY <4>1
      <3> QED BY <3>2, <3>3, <3>4
    <2> QED BY <2>1, <2>2
  <1>3. \A T \in SUBSET S : T \in Good
    <2>1. \A T \in SUBSET S : (\E x \in T : T \ {x} \in Good) \/ T = {} => T \in Good
      BY <1>1, <1>2
    <2> HIDE DEF Good
    <2> QED BY <1>1, <2>1, SubsetInduction
  <1> QED BY <1>3 DEF Good

\* The days the report has orders of.
LEMMA DaysAre ==
    ASSUME Orders # {}
    PROVE  /\ Min(Days) \in Nat /\ Max(Days) \in Nat
           /\ Days = Min(Days)..Max(Days)
  <1> DEFINE S == {Created[o] : o \in Orders}
  <1>1. S \in SUBSET Nat /\ S # {}
    BY PagesAssumption
  <1>2. IsFiniteSet(S)
    <2>1. \A y : y \in S <=> \E o \in Orders : y = Created[o]
      OBVIOUS
    <2> HIDE DEF S
    <2> QED BY <2>1, FiniteImage, OrdersAssumption
  <1>3. PICK lo \in S : \A y \in S : lo <= y
    <2> HIDE DEF S
    <2> QED BY <1>1, LeastNatural
  <1>4. PICK hi \in S : \A y \in S : y <= hi
    <2> HIDE DEF S
    <2> QED BY <1>1, <1>2, GreatestNatural
  <1>5. Min(S) = lo /\ Max(S) = hi
    <2>1. S \in SUBSET Int
      BY <1>1
    <2> HIDE DEF S
    <2> QED BY <1>3, <1>4, <2>1, MinIs, MaxIs
  <1>6. Days = lo..hi
    BY <1>5 DEF Days
  <1>7. lo \in Nat /\ hi \in Nat /\ lo <= hi
    BY <1>1, <1>3, <1>4
  <1>8. Min(Days) = lo /\ Max(Days) = hi
    <2>1. /\ Days \in SUBSET Int /\ lo \in Days /\ hi \in Days
          /\ \A y \in Days : lo <= y /\ y <= hi
      BY <1>6, <1>7
    <2> QED BY <2>1, MinIs, MaxIs
  <1> QED BY <1>6, <1>7, <1>8

\* The rates of a row of the table of shipping fees.
LEMMA ShippingSeries ==
    ASSUME NEW m, NEW dimension, NEW from, NEW to, NEW trend,
           NEW k \in DOMAIN ShippingTable(m, dimension, from, to, trend)
    PROVE  ShippingTable(m, dimension, from, to, trend)[k].series
             = Series(Group(m, dimension, EffectiveItems, k), from, to)
  BY DEF ShippingTable

LEMMA ShippingRates ==
    ASSUME NEW m, NEW dimension, NEW from, NEW to, NEW trend,
           NEW k \in DOMAIN ShippingTable(m, dimension, from, to, trend)
    PROVE  /\ ShippingTable(m, dimension, from, to, trend)[k].currentRate
                = WindowRate(Group(m, dimension, EffectiveItems, k),
                             to - trend.rolling + 1, to, trend.least)
           /\ ShippingTable(m, dimension, from, to, trend)[k].periodRate
                = Rate(Group(m, dimension, InPeriod(EffectiveItems, from, to), k))
  BY DEF ShippingTable

\* The same group, for two periods.
LEMMA PeriodInv ==
    ASSUME ReportInv
    PROVE  PeriodChangesNoRate
  <1> DEFINE Answer(dimension, trend, from, to) ==
               ShippingTable(mapping, dimension, from, to, trend)
  <1> SUFFICES ASSUME NEW dimension \in Dimensions, NEW trend \in Trends, NEW p \in Periods,
                      NEW k \in DOMAIN Answer(dimension, trend, p[1], p[2])
               PROVE  LET shown == Answer(dimension, trend, p[1], p[2])
                          whole == Answer(dimension, trend, Min(Days), Max(Days))
                          window == Answer(dimension, trend, p[2] - trend.rolling + 1, p[2])
                      IN /\ \A d \in p[1]..p[2] : shown[k].series[d] = whole[k].series[d]
                         /\ shown[k].currentRate # NoRate =>
                               /\ k \in DOMAIN window
                               /\ shown[k].currentRate = window[k].periodRate
    BY DEF PeriodChangesNoRate
  <1> DEFINE shown == Answer(dimension, trend, p[1], p[2])
             whole == Answer(dimension, trend, Min(Days), Max(Days))
             window == Answer(dimension, trend, p[2] - trend.rolling + 1, p[2])
             Period(from, to) == InPeriod(EffectiveItems, from, to)
             group == Group(mapping, dimension, EffectiveItems, k)
  <1>1. k \in GroupKeys(mapping, dimension, Period(p[1], p[2]))
    BY ShippingRow
  <1>2. PICK r \in Period(p[1], p[2]) : k = GroupKey(mapping, dimension, r)
    BY <1>1 DEF GroupKeys
  <1>3. \A q \in items : q.order \in Orders /\ Day(q) \in Nat
    BY ItemsAreRows, PagesAssumption DEF Rows, Day
  <1>4. r \in items /\ r.order \in Orders
    BY <1>2, <1>3 DEF InPeriod, EffectiveItems
  <1>5. /\ Min(Days) \in Nat /\ Max(Days) \in Nat
        /\ Days = Min(Days)..Max(Days)
    BY <1>4, DaysAre
  <1>6. p[1] \in Days /\ p[2] \in Days
    BY DEF Periods
  <1>7. /\ p[1] \in Nat /\ p[2] \in Nat
        /\ \A d \in p[1]..p[2] : d \in Min(Days)..Max(Days)
    BY <1>5, <1>6
  <1>8. r \in Period(Min(Days), Max(Days))
    BY <1>2, <1>7 DEF InPeriod
  <1>9. k \in DOMAIN whole
    <2>1. DOMAIN whole = GroupKeys(mapping, dimension, Period(Min(Days), Max(Days)))
      BY ShippingRow
    <2> QED BY <1>2, <1>8, <2>1 DEF GroupKeys
  <1>10. \A q \in group : Day(q) \in Nat
    BY <1>3 DEF Group, EffectiveItems
  <1>11. /\ shown[k].series = Series(group, p[1], p[2])
         /\ whole[k].series = Series(group, Min(Days), Max(Days))
    <2>1. ASSUME NEW from, NEW to, k \in DOMAIN Answer(dimension, trend, from, to)
          PROVE  Answer(dimension, trend, from, to)[k].series = Series(group, from, to)
      BY <2>1, ShippingSeries
    <2> HIDE DEF Answer, group
    <2> QED BY <1>9, <2>1
  <1>12. ASSUME NEW d \in p[1]..p[2]
         PROVE  shown[k].series[d] = whole[k].series[d]
    <2> HIDE DEF group, shown, whole, Period
    <2>1. Series(group, p[1], p[2])[d] = LastRate(group, d)
      BY <1>7, <1>10, SeriesIs
    <2>2. d \in Min(Days)..Max(Days)
      BY <1>7
    <2>3. Series(group, Min(Days), Max(Days))[d] = LastRate(group, d)
      BY <1>5, <1>10, <2>2, SeriesIs
    <2> QED BY <1>11, <2>1, <2>3
  <1>13. ASSUME shown[k].currentRate # NoRate
         PROVE  k \in DOMAIN window /\ shown[k].currentRate = window[k].periodRate
    <2> DEFINE from == p[2] - trend.rolling + 1
               days == Period(from, p[2])
    <2>1. shown[k].currentRate = WindowRate(group, from, p[2], trend.least)
      BY ShippingRates
    <2>2. InPeriod(group, from, p[2]) = Group(mapping, dimension, days, k)
      BY DEF InPeriod, Group
    <2>3. shown[k].currentRate = Rate(Group(mapping, dimension, days, k))
      <3> HIDE DEF group, days, shown, from
      <3> QED BY <1>13, <2>1, <2>2 DEF WindowRate
    <2>4. Group(mapping, dimension, days, k) # {}
      <3> HIDE DEF days, shown
      <3> QED BY <1>13, <2>3 DEF Rate
    <2>5. DOMAIN window = GroupKeys(mapping, dimension, days)
      BY ShippingRow
    <2>6. k \in GroupKeys(mapping, dimension, days)
      BY <2>4 DEF Group, GroupKeys
    <2>7. ASSUME k \in DOMAIN window
          PROVE  window[k].periodRate = Rate(Group(mapping, dimension, days, k))
      BY <2>7, ShippingRates
    <2> QED BY <2>3, <2>5, <2>6, <2>7
  <1> HIDE DEF shown, whole, window
  <1> QED BY <1>12, <1>13 DEF shown, whole, window

\* The period only chooses what is shown: a day shows the same rate in every
\* period it is part of, and a current rate is the rate of the period that is
\* its window (api_shipping_fee_data).
THEOREM PeriodNeverMatters == Spec => []PeriodChangesNoRate
  BY PeriodInv, ReportInvariant, PTL

-----------------------------------------------------------------------------
(* The pages of the orders.                                                *)
\* A sequence of the elements of a set in the order of the table.
InOrder(table, column, ascending, s) ==
    \A i, j \in DOMAIN s : i < j => Before(table, column, ascending, s[i], s[j])

\* Values that can be compared, ties by number.
LEMMA BeforeIsOrder ==
    ASSUME NEW T \in SUBSET Nat, NEW table, NEW column, \A o \in T : table[o][column] \in Int,
           NEW ascending
    PROVE  /\ \A a, b \in T : a # b => \/ Before(table, column, ascending, a, b)
                                       \/ Before(table, column, ascending, b, a)
           /\ \A a, b, c \in T : /\ Before(table, column, ascending, a, b)
                                 /\ Before(table, column, ascending, b, c)
                                 => Before(table, column, ascending, a, c)
  <1> DEFINE v == [o \in T |-> table[o][column]]
  <1>1. v \in [T -> Int]
    OBVIOUS
  <1>3. \A a, b \in T : Before(table, column, ascending, a, b)
                         <=> \/ v[a] = v[b] /\ a < b
                             \/ ascending /\ v[a] < v[b]
                             \/ ~ascending /\ v[b] < v[a]
    BY DEF Before
  <1> HIDE DEF v
  <1>4. \A a \in T : v[a] \in Int /\ a \in Nat
    BY <1>1
  <1>5. CASE ascending
    <2>1. \A a, b \in T : Before(table, column, ascending, a, b)
                           <=> (v[a] = v[b] /\ a < b) \/ v[a] < v[b]
      BY <1>3, <1>5, Zenon
    <2> QED BY <1>4, <2>1
  <1>6. CASE ~ascending
    <2>1. \A a, b \in T : Before(table, column, ascending, a, b)
                           <=> (v[a] = v[b] /\ a < b) \/ v[b] < v[a]
      BY <1>3, <1>6, Zenon
    <2> QED BY <1>4, <2>1
  <1> QED BY <1>5, <1>6

\* So a set of orders has a last one.
LEMMA LastInOrder ==
    ASSUME NEW S, IsFiniteSet(S), S \in SUBSET Nat, NEW table, NEW column,
           \A o \in S : table[o][column] \in Int, NEW ascending
    PROVE  \A T \in SUBSET S : T # {} =>
              \E x \in T : \A y \in T \ {x} : Before(table, column, ascending, y, x)
  <1> DEFINE IsLast(x, T) == \A y \in T \ {x} : Before(table, column, ascending, y, x)
             Good == {T \in SUBSET S : T # {} => \E x \in T : IsLast(x, T)}
  <1>1. {} \in Good
    OBVIOUS
  <1>2. ASSUME NEW T \in SUBSET S, NEW x \in T, T \ {x} \in Good PROVE T \in Good
    <2>1. CASE T = {x}
      BY <2>1
    <2>2. CASE T # {x}
      <3>1. PICK z \in T \ {x} : IsLast(z, T \ {x})
        BY <1>2, <2>2
      <3>2. CASE Before(table, column, ascending, x, z)
        <4>1. IsLast(z, T)
          BY <3>1, <3>2
        <4> QED BY <4>1
      <3>3. CASE Before(table, column, ascending, z, x)
        <4>1. IsLast(x, T)
          <5> SUFFICES ASSUME NEW y \in T \ {x} PROVE Before(table, column, ascending, y, x)
            OBVIOUS
          <5>1. CASE y = z
            BY <3>3, <5>1
          <5>2. CASE y # z
            <6>1. Before(table, column, ascending, y, z)
              BY <3>1, <5>2
            <6>2. y \in S /\ z \in S /\ x \in S
              OBVIOUS
            <6> QED BY <3>3, <6>1, <6>2, BeforeIsOrder
          <5> QED BY <5>1, <5>2
        <4> QED BY <4>1
      <3>4. z \in S /\ x \in S /\ z # x
        OBVIOUS
      <3> QED BY <3>2, <3>3, <3>4, BeforeIsOrder
    <2> QED BY <2>1, <2>2
  <1>3. \A T \in SUBSET S : T \in Good
    <2>1. \A T \in SUBSET S : (\E x \in T : T \ {x} \in Good) \/ T = {} => T \in Good
      BY <1>1, <1>2
    <2> HIDE DEF Good
    <2> QED BY <1>1, <2>1, SubsetInduction
  <1> QED BY <1>3 DEF Good

\* Any set of orders can be put in order.
LEMMA OrderExists ==
    ASSUME NEW S, IsFiniteSet(S), S \in SUBSET Nat, NEW table, NEW column,
           \A o \in S : table[o][column] \in Int, NEW ascending
    PROVE  \E s \in SetToSeqs(S) : InOrder(table, column, ascending, s)
  <1>L. \A T \in SUBSET S : T # {} =>
           \E x \in T : \A y \in T \ {x} : Before(table, column, ascending, y, x)
    BY LastInOrder
  <1> DEFINE Ordered(T) == \E s \in SetToSeqs(T) : InOrder(table, column, ascending, s)
             Good == {T \in SUBSET S : Ordered(T)}
  <1>0. \A T \in SUBSET S : IsFiniteSet(T) /\ Cardinality(T) \in Nat
    BY FS_Subset, FS_CardinalityType
  <1>1. {} \in Good
    <2>1. Cardinality({}) = 0
      BY FS_EmptySet
    <2> DEFINE s == [i \in 1..0 |-> 0]
    <2>2. s \in SetToSeqs({}) /\ InOrder(table, column, ascending, s)
      BY <2>1 DEF SetToSeqs, InOrder
    <2> QED BY <2>2
  <1>2. ASSUME NEW T \in SUBSET S, \A x \in T : T \ {x} \in Good PROVE T \in Good
    <2>1. CASE T = {}
      BY <1>1, <2>1
    <2>2. CASE T # {}
      <3>1. PICK x \in T : \A y \in T \ {x} : Before(table, column, ascending, y, x)
        BY <2>2, <1>L
      <3>2. PICK s \in SetToSeqs(T \ {x}) : InOrder(table, column, ascending, s)
        BY <1>2, <3>1
      <3> DEFINE n == Cardinality(T)
                 t == [i \in 1..n |-> IF i = n THEN x ELSE s[i]]
      <3>3. n \in Nat \ {0} /\ Cardinality(T \ {x}) = n - 1
        <4>1. IsFiniteSet(T) /\ n \in Nat /\ (Cardinality(T) = 0 <=> T = {})
          BY <1>0, FS_EmptySet
        <4> QED BY <2>2, <4>1, FS_RemoveElement
      <3>4. /\ s \in [1..(n - 1) -> T \ {x}]
            /\ \A i, j \in 1..(n - 1) : i # j => s[i] # s[j]
        BY <3>3 DEF SetToSeqs
      <3>5. \A i \in 1..n : i # n => i \in 1..(n - 1)
        BY <3>3
      <3> HIDE DEF n
      <3>6. t \in [1..n -> T]
        BY <3>4, <3>5
      <3>7. \A i, j \in 1..n : i # j => t[i] # t[j]
        BY <3>4, <3>5
      <3>8. \A i, j \in 1..n : i < j => i # n
        BY <3>3 DEF n
      <3>9. \A i, j \in 1..n : i < j => Before(table, column, ascending, t[i], t[j])
        <4> SUFFICES ASSUME NEW i \in 1..n, NEW j \in 1..n, i < j
                     PROVE  Before(table, column, ascending, t[i], t[j])
          OBVIOUS
        <4>1. t[i] = s[i] /\ s[i] \in T \ {x} /\ i \in 1..(n - 1)
          BY <3>4, <3>5, <3>8
        <4>2. CASE j = n
          BY <3>1, <4>1, <4>2
        <4>3. CASE j # n
          <5>1. t[j] = s[j] /\ j \in DOMAIN s /\ i \in DOMAIN s
            BY <3>4, <3>5, <4>1, <4>3
          <5> HIDE DEF t
          <5> QED BY <3>2, <4>1, <5>1 DEF InOrder
        <4> QED BY <4>2, <4>3
      <3>10. t \in SetToSeqs(T)
        BY <3>6, <3>7 DEF SetToSeqs, n
      <3>11. InOrder(table, column, ascending, t)
        BY <3>9 DEF InOrder
      <3> HIDE DEF t
      <3> QED BY <3>10, <3>11
    <2> QED BY <2>1, <2>2
  <1>3. \A T \in SUBSET S : T \in Good
    <2> HIDE DEF Good
    <2> QED BY <1>2, SmallerSubsets
  <1> QED BY <1>3

\* The rows that were found, each once.
LEMMA SortedIs ==
    ASSUME NEW S, IsFiniteSet(S), S \in SUBSET Nat, NEW table, NEW column,
           \A o \in S : table[o][column] \in Int, NEW ascending
    PROVE  LET s == Sorted(table, S, column, ascending)
           IN /\ s \in Seq(S) /\ Len(s) = Cardinality(S)
              /\ ToSet(s) = S
  <1> DEFINE s == Sorted(table, S, column, ascending)
             n == Cardinality(S)
  <1>1. s \in SetToSeqs(S)
    <2>1. PICK t \in SetToSeqs(S) : InOrder(table, column, ascending, t)
      BY OrderExists
    <2> QED BY <2>1, Zenon DEF Sorted, InOrder
  <1> HIDE DEF s
  <1>2. n \in Nat
    BY FS_CardinalityType
  <1>3. s \in [1..n -> S] /\ \A i, j \in 1..n : i # j => s[i] # s[j]
    BY <1>1 DEF SetToSeqs
  <1> HIDE DEF n
  <1>4. s \in Seq(S) /\ Len(s) = n
    BY <1>2, <1>3
  <1>5. s \in Surjection(1..n, S)
    <2>1. s \in Injection(1..n, S)
      BY <1>3 DEF Injection, IsInjective
    <2>2. Cardinality(1..n) = n
      BY <1>2, FS_Interval
    <2> QED BY <2>1, <2>2, FS_Injection DEF n
  <1>6. ToSet(s) = S
    <2>1. DOMAIN s = 1..n /\ \A i \in 1..n : s[i] \in S
      BY <1>3
    <2>2. \A x \in S : \E i \in 1..n : s[i] = x
      BY <1>5 DEF Surjection
    <2> QED BY <2>1, <2>2 DEF ToSet
  <1> QED BY <1>4, <1>6 DEF s, n

\* How many pages of a size hold n rows, and where they begin.
LEMMA PageCount ==
    ASSUME NEW n \in Nat, NEW size \in Nat \ {0}
    PROVE  LET P == Max({1, (n + size - 1) \div size})
           IN /\ P \in Nat \ {0} /\ n <= P * size
              /\ \A p \in 1..P : /\ (p - 1) * size \in Nat /\ p * size \in Nat
                                 /\ (p - 1) * size <= n /\ p * size = (p - 1) * size + size
                                 /\ p # P => p * size <= n
                                 /\ n # 0 => (p - 1) * size < n
  <1> DEFINE q == (n + size - 1) \div size
             P == Max({1, q})
  <1>1. q \in Nat /\ size * q <= n + size - 1 /\ n + size - 1 < size * q + size
    OBVIOUS
  <1> HIDE DEF q
  <1>2. P = IF q >= 1 THEN q ELSE 1
    <2>1. CASE q >= 1
      <3>1. {1, q} \in SUBSET Int /\ q \in {1, q} /\ \A y \in {1, q} : y <= q
        BY <1>1, <2>1
      <3> QED BY <2>1, <3>1, MaxIs
    <2>2. CASE ~(q >= 1)
      <3>1. {1, q} \in SUBSET Int /\ 1 \in {1, q} /\ \A y \in {1, q} : y <= 1
        BY <1>1, <2>2
      <3> QED BY <2>2, <3>1, MaxIs
    <2> QED BY <2>1, <2>2
  <1> HIDE DEF P
  <1>3. P \in Nat \ {0}
    BY <1>1, <1>2
  <1>4. n <= P * size
    <2>1. CASE q >= 1
      BY <1>1, <1>2, <2>1
    <2>2. CASE ~(q >= 1)
      <3>1. q = 0 /\ P = 1
        BY <1>1, <1>2, <2>2
      <3>2. size * q = 0
        BY <3>1
      <3> QED BY <1>1, <3>1, <3>2
    <2> QED BY <2>1, <2>2
  <1>5. (P - 1) * size <= n /\ (n # 0 => (P - 1) * size < n)
    <2>1. CASE q >= 1
      <3>1. (P - 1) * size = size * q - size
        BY <1>1, <1>2, <2>1
      <3> QED BY <1>1, <3>1
    <2>2. CASE ~(q >= 1)
      <3>1. (P - 1) * size = 0
        BY <1>2, <2>2
      <3> QED BY <3>1
    <2> QED BY <2>1, <2>2
  <1>6. ASSUME NEW p \in 1..P
        PROVE  /\ (p - 1) * size \in Nat /\ p * size \in Nat
               /\ (p - 1) * size <= n /\ p * size = (p - 1) * size + size
               /\ p # P => p * size <= n
               /\ n # 0 => (p - 1) * size < n
    <2>1. p \in Nat /\ p - 1 \in Nat /\ P - p \in Nat
      BY <1>3
    <2>2. \A x \in Nat : x * size \in Nat
      OBVIOUS
    <2>3. p * size = (p - 1) * size + size
      BY <2>1
    <2>4. (P - 1) * size = (p - 1) * size + (P - p) * size
      BY <1>3, <2>1
    <2>5. (P - p) * size \in Nat /\ (p - 1) * size \in Nat /\ p * size \in Nat
      BY <2>1, <2>2
    <2>6. p # P => (P - p) * size >= size
      <3>1. p # P => P - p - 1 \in Nat /\ (P - p) * size = (P - p - 1) * size + size
        BY <1>3, <2>1
      <3> QED BY <2>2, <3>1
    <2> QED BY <1>5, <2>3, <2>4, <2>5, <2>6
  <1> QED BY <1>3, <1>4, <1>6 DEF P, q

\* A sequence that was cut into pieces, put together again.
CutInto(s, cut, P, pieces) == pieces = [p \in 1..P |-> SubSeq(s, cut[p - 1] + 1, cut[p])]
PutTogether(pieces, s) == FlattenSeq(pieces) = s
LEMMA FlattenCuts ==
    ASSUME NEW S, NEW s \in Seq(S), NEW P \in Nat \ {0}, NEW cut \in [0..P -> 0..Len(s)],
           cut[0] = 0, cut[P] = Len(s), \A p \in 1..P : cut[p - 1] <= cut[p],
           NEW pieces, CutInto(s, cut, P, pieces)
    PROVE  PutTogether(pieces, s)
  <1> DEFINE Next1(h) == [i \in 1..P |-> IF i = 1 THEN pieces[i] ELSE h[i - 1] \o pieces[i]]
             F(h) == h = Next1(h)
             flat == CHOOSE h : F(h)
             upTo == [p \in 1..P |-> SubSeq(s, 1, cut[p])]
  <1>0. Len(s) \in Nat /\ \A p \in 1..P : /\ p - 1 \in 0..P /\ p \in 0..P /\ p \in Nat
                                          /\ p # 1 => p - 1 \in 1..P /\ ~(p <= p - 1)
    OBVIOUS
  <1>C. \A p \in 1..P : /\ cut[p - 1] \in Nat /\ cut[p] \in Nat
                        /\ cut[p - 1] <= cut[p] /\ cut[p] <= Len(s)
    <2>1. \A p \in 0..P : cut[p] \in Nat /\ cut[p] <= Len(s)
      BY <1>0
    <2> QED BY <1>0, <2>1
  <1>D. /\ DOMAIN pieces = 1..P /\ pieces = [p \in 1..P |-> pieces[p]]
        /\ \A p \in 1..P : pieces[p] = SubSeq(s, cut[p - 1] + 1, cut[p])
    BY DEF CutInto
  <1>1. pieces \in Seq(Seq(S)) /\ Len(pieces) = P
    <2>1. ASSUME NEW a \in Nat, NEW b \in Nat, a <= b, b <= Len(s)
          PROVE  SubSeq(s, a + 1, b) \in Seq(S)
      <3>1. \A i \in (a + 1)..b : i \in 1..Len(s)
        BY <1>0, <2>1
      <3>2. \A i \in 1..Len(s) : s[i] \in S
        OBVIOUS
      <3>3. \A i \in (a + 1)..b : s[i] \in S
        BY <3>1, <3>2, Zenon
      <3>4. a + 1 \in Int /\ b \in Int
        OBVIOUS
      <3> QED BY <3>3, <3>4, SubSeqProperties, Zenon
    <2>2. \A p \in 1..P : pieces[p] \in Seq(S)
      <3> TAKE p \in 1..P
      <3>1. SubSeq(s, cut[p - 1] + 1, cut[p]) \in Seq(S)
        BY <1>C, <2>1, Zenon
      <3> QED BY <1>D, <3>1, Zenon
    <2> DEFINE Q == Seq(S)
    <2>4. \A p \in 1..P : pieces[p] \in Q
      BY <2>2
    <2> HIDE DEF Q
    <2>5. pieces \in [1..P -> Q]
      BY <1>D, <2>4
    <2>6. pieces \in Seq(Q) /\ Len(pieces) = P
      BY <2>5
    <2> QED BY <2>6 DEF Q
  <1>2. FlattenSeq(pieces) = flat[P]
    <2>1. Len(pieces) = P /\ P # 0
      BY <1>1
    <2> QED BY <2>1, Zenon DEF FlattenSeq
  <1>3. \A p \in 1..P : /\ p = 1 => upTo[p] = pieces[p]
                        /\ p # 1 => upTo[p] = upTo[p - 1] \o pieces[p]
    <2>1. ASSUME NEW a \in Nat, NEW b \in Nat, a <= b, b <= Len(s)
          PROVE  SubSeq(s, 1, a) \o SubSeq(s, a + 1, b) = SubSeq(s, 1, b)
      <3>1. 1 \in 1..(Len(s) + 1) /\ a \in (1 - 1)..Len(s) /\ b \in a..Len(s)
        BY <1>0, <2>1
      <3> QED BY <3>1, ConcatAdjacentSubSeq, Zenon
    <2>2. \A p \in 1..P : upTo[p] = SubSeq(s, 1, cut[p])
      OBVIOUS
    <2> HIDE DEF upTo
    <2> TAKE p \in 1..P
    <2>3. CASE p = 1
      <3>1. p - 1 = 0 /\ cut[p - 1] + 1 = 1
        BY <2>3
      <3> QED BY <1>D, <2>2, <2>3, <3>1
    <2>4. CASE p # 1
      <3>1. p - 1 \in 1..P
        BY <1>0, <2>4
      <3>2. SubSeq(s, 1, cut[p - 1]) \o SubSeq(s, cut[p - 1] + 1, cut[p]) = SubSeq(s, 1, cut[p])
        BY <1>C, <2>1, Zenon
      <3>3. upTo[p - 1] = SubSeq(s, 1, cut[p - 1])
        BY <2>2, <3>1, Zenon
      <3> QED BY <1>D, <2>2, <2>4, <3>2, <3>3, Zenon
    <2> QED BY <2>3, <2>4
  <1>4. \A h : /\ DOMAIN Next1(h) = 1..P
               /\ \A p \in 1..P : Next1(h)[p] = IF p = 1 THEN pieces[p]
                                                ELSE h[p - 1] \o pieces[p]
               /\ Next1(h) = [p \in 1..P |-> Next1(h)[p]]
    OBVIOUS
  <1>E. \A h : \A p \in 1..P : /\ p = 1 => Next1(h)[p] = pieces[p]
                              /\ p # 1 => Next1(h)[p] = h[p - 1] \o pieces[p]
    <2> HIDE DEF Next1
    <2> QED BY <1>4, Zenon
  <1>F. \A h : Next1(h)[1] = pieces[1]
    <2>1. 1 \in 1..P
      BY <1>0
    <2> HIDE DEF Next1
    <2> QED BY <1>4, <2>1
  <1>5. upTo = [p \in 1..P |-> upTo[p]]
    OBVIOUS
  <1>6. upTo[P] = s
    BY SubSeqFull
  <1> HIDE DEF Next1, upTo
  <1>7. F(upTo)
    <2>1. \A p \in 1..P : upTo[p] = Next1(upTo)[p]
      <3> TAKE p \in 1..P
      <3>1. CASE p = 1
        <4>1. upTo[p] = pieces[p]
          BY <1>3, <3>1
        <4>2. Next1(upTo)[p] = pieces[p]
          BY <1>F, <3>1
        <4> QED BY <4>1, <4>2
      <3>2. CASE p # 1
        BY <1>3, <1>E, <3>2, Zenon
      <3> QED BY <3>1, <3>2
    <2> QED BY ZenonT(60), <1>4, <1>5, <2>1
  <1>8. F(flat)
    <2> HIDE DEF F
    <2> QED BY <1>7
  <1>9. \A p \in 1..P : flat[p] = Next1(flat)[p]
    <2>1. flat = Next1(flat)
      BY <1>8
    <2> HIDE DEF flat
    <2> QED BY <2>1
  <1> HIDE DEF flat, F
  <1> DEFINE Bad == {p \in 1..P : flat[p] # upTo[p]}
  <1>10. Bad = {}
    <2> SUFFICES ASSUME Bad # {} PROVE FALSE
      OBVIOUS
    <2>1. PICK p \in Bad : \A y \in Bad : p <= y
      <3>1. Bad \in SUBSET Nat
        OBVIOUS
      <3> HIDE DEF Bad
      <3> QED BY <3>1, LeastNatural
    <2>2. p \in 1..P /\ flat[p] # upTo[p]
      BY <2>1
    <2>3. CASE p = 1
      <3>1. flat[p] = pieces[p] /\ upTo[p] = pieces[p]
        <4>1. upTo[p] = pieces[p]
          BY <1>3, <2>2, <2>3
        <4>2. Next1(flat)[p] = pieces[p]
          BY <1>F, <2>3
        <4> QED BY <1>9, <2>2, <4>1, <4>2
      <3> QED BY <2>2, <3>1, Zenon
    <2>4. CASE p # 1
      <3>1. p - 1 \in 1..P /\ ~(p <= p - 1)
        BY <1>0, <2>2, <2>4
      <3>2. p - 1 \notin Bad
        <4> HIDE DEF Bad
        <4> QED BY <2>1, <3>1
      <3>3. flat[p - 1] = upTo[p - 1]
        BY <3>1, <3>2
      <3>4. flat[p] = upTo[p - 1] \o pieces[p]
        <4>1. flat[p] = flat[p - 1] \o pieces[p]
          BY <1>9, <1>E, <2>2, <2>4, Zenon
        <4> QED BY <3>3, <4>1, Zenon
      <3> QED BY <1>3, <2>2, <2>4, <3>4, Zenon
    <2> QED BY <2>3, <2>4
  <1>11. P \in 1..P
    OBVIOUS
  <1> QED BY <1>2, <1>6, <1>10, <1>11 DEF PutTogether

\* What a page shows.
PagesFor(n, size, P) == Max({1, (n + size - 1) \div size}) = P
Shows(q, s, n, size, P, page) ==
    q = [page |-> page, pages |-> P, total |-> n,
         rows |-> SubSeq(s, (page - 1) * size + 1, Min({page * size, n}))]
LEMMA PageIs ==
    ASSUME NEW table, NEW found, NEW column, NEW ascending, NEW size \in Nat \ {0},
           NEW wanted \in Nat, NEW P \in Nat \ {0}, NEW page \in 1..P,
           wanted >= 1, (wanted <= P /\ page = wanted) \/ (P <= wanted /\ page = P),
           NEW n \in Nat, NEW s, s = Sorted(table, found, column, ascending), Len(s) = n,
           PagesFor(n, size, P)
    PROVE  Shows(OrderPage(table, found, column, ascending, size, wanted), s, n, size, P, page)
  <1>1. Max({1, wanted}) = wanted
    <2>1. {1, wanted} \in SUBSET Int /\ wanted \in {1, wanted} /\ \A y \in {1, wanted} : y <= wanted
      OBVIOUS
    <2> QED BY <2>1, MaxIs
  <1>2. Min({wanted, P}) = page
    <2>1. {wanted, P} \in SUBSET Int /\ page \in {wanted, P} /\ \A y \in {wanted, P} : page <= y
      OBVIOUS
    <2> QED BY <2>1, MinIs
  <1> QED BY <1>1, <1>2, Zenon DEF OrderPage, PagesFor, Shows

\* The orders of the table, and what it sorts them by.
LEMMA OrderTableIs ==
    ASSUME NEW m, NEW rows, IsFiniteSet(rows), \A r \in rows : HasAmounts(r)
    PROVE  /\ DOMAIN OrderTable(m, rows) = OrdersOf(rows)
           /\ \A o \in OrdersOf(rows), c \in Columns : OrderTable(m, rows)[o][c] \in Int
  <1>1. OrderTable(m, rows)
          = [o \in {r.order : r \in rows} |-> Totals(m, {r \in rows : r.order = o})]
    BY Zenon DEF OrderTable, GroupBy
  <1>2. DOMAIN OrderTable(m, rows) = OrdersOf(rows)
    BY <1>1 DEF OrdersOf
  <1>3. ASSUME NEW o \in OrdersOf(rows), NEW c \in Columns
        PROVE  OrderTable(m, rows)[o][c] \in Int
    <2> DEFINE L == {r \in rows : r.order = o}
               f == [r \in L |-> Adds(m, c, r)]
    <2>1. IsFiniteSet(L) /\ \A r \in L : HasAmounts(r)
      BY FS_Subset
    <2>2. f \in [L -> Int]
      BY AddsInt
    <2>3. OrderTable(m, rows)[o] = Totals(m, L)
      BY <1>1, <1>2
    <2> HIDE DEF L
    <2>4. Totals(m, L)[c] = SumOf(f, L)
      BY <2>1, TotalsAddUp
    <2> HIDE DEF f
    <2>5. SumOf(f, L) \in Int
      BY <2>1, <2>2, SumFacts
    <2> QED BY <2>3, <2>4, <2>5
  <1> QED BY <1>2, <1>3

\* The pages of a table, for any of its columns.
PagesHold(table, found, column, ascending, size) ==
    LET Page(wanted) == OrderPage(table, found, column, ascending, size, wanted)
        pages == [p \in 1..Page(1).pages |-> Page(p).rows]
        shown == FlattenSeq(pages)
    IN /\ ToSet(shown) = found /\ Len(shown) = Cardinality(found)
       /\ \A p \in DOMAIN pages : found # {} => pages[p] # <<>>
       /\ Page(Len(pages) + 1) = Page(Len(pages))
LEMMA PagesOfTable ==
    ASSUME NEW table, NEW found, IsFiniteSet(found), found \in SUBSET Nat, NEW column,
           \A o \in found : table[o][column] \in Int, NEW ascending, NEW size \in Nat \ {0}
    PROVE  PagesHold(table, found, column, ascending, size)
  <1> DEFINE Page(wanted) == OrderPage(table, found, column, ascending, size, wanted)
             pages == [p \in 1..Page(1).pages |-> Page(p).rows]
             s == Sorted(table, found, column, ascending)
             n == Cardinality(found)
             P == Max({1, (n + size - 1) \div size})
             cut == [p \in 0..P |-> IF p * size <= n THEN p * size ELSE n]
  <1>1. s \in Seq(found) /\ Len(s) = n /\ ToSet(s) = found
    BY SortedIs
  <1>2. n \in Nat
    BY FS_CardinalityType
  <1> HIDE DEF s, n
  <1>3. /\ P \in Nat \ {0} /\ n <= P * size
        /\ \A p \in 1..P : /\ (p - 1) * size \in Nat /\ p * size \in Nat
                           /\ (p - 1) * size <= n /\ p * size = (p - 1) * size + size
                           /\ p # P => p * size <= n
                           /\ n # 0 => (p - 1) * size < n
    BY <1>2, PageCount
  <1>4. PagesFor(n, size, P)
    BY DEF PagesFor
  <1> HIDE DEF P
  <1>5. \A p \in 1..P : /\ p \in Nat /\ p - 1 \in 0..P /\ p \in 0..P
    BY <1>3
  <1>6. \A p \in 1..P : /\ cut[p - 1] = (p - 1) * size
                        /\ cut[p] = IF p * size <= n THEN p * size ELSE n
    BY <1>3, <1>5
  <1>7. cut \in [0..P -> 0..n] /\ cut[0] = 0 /\ cut[P] = n
    <2>1. \A p \in 0..P : p = 0 \/ p \in 1..P
      OBVIOUS
    <2>2. 0 * size = 0 /\ 0 <= n /\ 0 \in 0..P /\ P \in 1..P
      BY <1>2, <1>3
    <2>3. cut[0] = 0
      BY <2>2
    <2>4. cut[P] = n
      BY <1>2, <1>3, <1>6, <2>2
    <2>5. \A p \in 1..P : cut[p] \in 0..n
      BY <1>2, <1>3, <1>6
    <2>6. DOMAIN cut = 0..P /\ cut = [p \in 0..P |-> cut[p]]
      OBVIOUS
    <2> HIDE DEF cut
    <2>7. \A p \in 0..P : cut[p] \in 0..n
      BY <1>2, <2>1, <2>3, <2>5
    <2> QED BY <2>3, <2>4, <2>6, <2>7
  <1>8. \A p \in 1..P : Min({p * size, n}) = cut[p]
    <2> TAKE p \in 1..P
    <2>1. p * size \in Nat
      BY <1>3
    <2>2. CASE p * size <= n
      <3>1. /\ {p * size, n} \in SUBSET Int /\ p * size \in {p * size, n}
            /\ \A y \in {p * size, n} : p * size <= y
        BY <1>2, <2>1, <2>2
      <3>2. Min({p * size, n}) = p * size
        BY <3>1, MinIs
      <3> QED BY <1>6, <2>2, <3>2
    <2>3. CASE ~(p * size <= n)
      <3>1. /\ {p * size, n} \in SUBSET Int /\ n \in {p * size, n}
            /\ \A y \in {p * size, n} : n <= y
        BY <1>2, <2>1, <2>3
      <3>2. Min({p * size, n}) = n
        BY <3>1, MinIs
      <3> QED BY <1>6, <2>3, <3>2
    <2> QED BY <2>2, <2>3
  <1> HIDE DEF cut
  <1>9. ASSUME NEW wanted \in Nat, wanted >= 1, NEW page \in 1..P,
               (wanted <= P /\ page = wanted) \/ (P <= wanted /\ page = P)
        PROVE  /\ Page(wanted).pages = P
               /\ Page(wanted).rows = SubSeq(s, cut[page - 1] + 1, cut[page])
               /\ Page(wanted) = [page |-> page, pages |-> P, total |-> n,
                                  rows |-> SubSeq(s, cut[page - 1] + 1, cut[page])]
    <2>1. /\ Page(wanted).pages = P
          /\ Page(wanted).rows = SubSeq(s, (page - 1) * size + 1, Min({page * size, n}))
          /\ Page(wanted) = [page |-> page, pages |-> P, total |-> n,
                             rows |-> SubSeq(s, (page - 1) * size + 1, Min({page * size, n}))]
      <3>1. s = Sorted(table, found, column, ascending) /\ Len(s) = n
        BY <1>1 DEF s
      <3>2. Shows(Page(wanted), s, n, size, P, page)
        BY <1>2, <1>3, <1>4, <1>9, <3>1, PageIs
      <3> DEFINE rows == SubSeq(s, (page - 1) * size + 1, Min({page * size, n}))
      <3> HIDE DEF Page, rows
      <3>3. Page(wanted) = [page |-> page, pages |-> P, total |-> n, rows |-> rows]
        BY <3>2, Zenon DEF Shows, rows
      <3>4. Page(wanted).pages = P /\ Page(wanted).rows = rows
        BY <3>3
      <3> QED BY <3>3, <3>4, Zenon DEF rows
    <2> HIDE DEF Page
    <2> QED BY <1>6, <1>8, <2>1
  <1> HIDE DEF Page
  <1>10. Page(1).pages = P
    <2>1. 1 \in 1..P /\ 1 <= P
      BY <1>3
    <2> QED BY <1>9, <2>1
  <1>11. \A p \in 1..P : Page(p).rows = SubSeq(s, cut[p - 1] + 1, cut[p])
    <2> TAKE p \in 1..P
    <2>1. p \in Nat /\ p >= 1 /\ p <= P
      BY <1>3
    <2> QED BY <1>9, <2>1
  <1>12. pages = [p \in 1..P |-> SubSeq(s, cut[p - 1] + 1, cut[p])] /\ CutInto(s, cut, P, pages)
    BY <1>10, <1>11 DEF CutInto
  <1>13. \A p \in 1..P : cut[p - 1] <= cut[p]
    BY <1>2, <1>3, <1>6
  <1> HIDE DEF pages
  <1>14. FlattenSeq(pages) = s
    <2>1. cut \in [0..P -> 0..Len(s)] /\ cut[P] = Len(s)
      BY <1>1, <1>7
    <2>2. PutTogether(pages, s)
      BY <1>1, <1>3, <1>7, <1>12, <1>13, <2>1, FlattenCuts
    <2> QED BY <2>2 DEF PutTogether
  <1>15. DOMAIN pages = 1..P /\ Len(pages) = P
    BY <1>3, <1>12
  <1>16. ASSUME NEW p \in 1..P, found # {} PROVE pages[p] # <<>>
    <2>1. n # 0
      BY <1>16, FS_EmptySet DEF n
    <2>2. cut[p - 1] \in Nat /\ cut[p] \in Nat /\ cut[p - 1] < cut[p] /\ cut[p] <= n
      BY <1>2, <1>3, <1>6, <2>1
    <2> DEFINE a == cut[p - 1]
               b == cut[p]
    <2>3. pages[p] = SubSeq(s, a + 1, b)
      BY <1>12
    <2> HIDE DEF a, b
    <2>4. a \in Nat /\ b \in Nat /\ a < b /\ b <= n
      BY <2>2 DEF a, b
    <2>5. Len(SubSeq(s, a + 1, b)) = b - a
      BY SMTT(30), <1>1, <1>2, <2>4
    <2>6. b - a # 0 /\ Len(<<>>) = 0
      BY <2>4
    <2> QED BY <2>3, <2>5, <2>6, Zenon
  <1>17. Page(Len(pages) + 1) = Page(Len(pages))
    <2>1. /\ P \in Nat /\ P + 1 \in Nat /\ P >= 1 /\ P + 1 >= 1 /\ P \in 1..P
          /\ P <= P /\ ~(P + 1 <= P)
      BY <1>3
    <2> DEFINE last == [page |-> P, pages |-> P, total |-> n,
                        rows |-> SubSeq(s, cut[P - 1] + 1, cut[P])]
    <2>2. Page(P) = last
      BY <1>9, <2>1
    <2>3. Page(P + 1) = last
      <3>1. P <= P + 1
        BY <2>1
      <3> QED BY <1>9, <2>1, <3>1
    <2> QED BY <1>15, <2>2, <2>3, Zenon
  <1>18. ToSet(FlattenSeq(pages)) = found /\ Len(FlattenSeq(pages)) = Cardinality(found)
    BY <1>1, <1>14 DEF n
  <1> QED BY <1>15, <1>16, <1>17, <1>18 DEF pages, Page, PagesHold

\* The pages of the order table of the report.
LEMMA PagesInv ==
    ASSUME ReportInv
    PROVE  PagesHoldEachOrderOnce
  <1> DEFINE rows == View(mapping, "estimated", "zero")
             table == OrderTable(mapping, rows)
  <1>1. mapping \in Mappings /\ "estimated" \in Modes /\ "zero" \in Methods
    BY DEF Mappings, Modes, Methods
  <1>2. IsFiniteSet(rows) /\ \A q \in rows : HasAmounts(q)
    BY <1>1, ViewHasAmounts
  <1>3. OrdersOf(rows) \in SUBSET Orders
    <2> SUFFICES ASSUME NEW q \in rows PROVE q.order \in Orders
      BY DEF OrdersOf
    <2>1. PICK r \in items : q = InMode(r, items, mapping, "estimated", "zero")
      BY <1>1, ViewIs
    <2>2. q.order = r.order
      BY <1>1, <2>1, InModeKeeps
    <2> QED BY <2>1, <2>2, ItemsAreRows DEF Rows
  <1> HIDE DEF rows
  <1>4. DOMAIN table = OrdersOf(rows) 
        /\ \A o \in OrdersOf(rows), c \in SortColumns : table[o][c] \in Int
    BY <1>2, OrderTableIs, SortColumnsAssumption
  <1> HIDE DEF table
  <1>5. ASSUME NEW found \in SUBSET DOMAIN table, NEW column \in SortColumns,
               NEW ascending \in BOOLEAN, NEW size \in PageSizes
        PROVE  PagesHold(table, found, column, ascending, size)
    <2>1. found \in SUBSET Orders /\ \A o \in found : table[o][column] \in Int
      BY <1>3, <1>4
    <2>2. found \in SUBSET Nat /\ IsFiniteSet(found)
      BY <2>1, OrdersAssumption, FS_Subset
    <2>3. size \in Nat \ {0}
      BY PagesAssumption
    <2> QED BY <2>1, <2>2, <2>3, PagesOfTable
  <1> QED BY <1>5, Zenon DEF PagesHoldEachOrderOnce, PagesHold, table, rows

\* The pages of the order table hold each order that was found once, none of
\* them is empty, and asking for a page past the end shows the last
\* (paginate_pnl_orders).
THEOREM PagesAlwaysHoldOrders == Spec => []PagesHoldEachOrderOnce
  BY PagesInv, ReportInvariant, PTL
=============================================================================
