---------------------------- MODULE ProfitReport ----------------------------
(***************************************************************************)
(* The profit-and-loss report: scripts/export_orders_profit.py computes    *)
(* one row for each line of each order and writes them to a file, and      *)
(* pnl_web.py answers its requests from the file and from the mapping of   *)
(* platform SKUs to warehouse SKUs of the moment, either as they are or    *)
(* with the fulfilment fees of orders waiting for their pickup estimated.  *)
(*                                                                         *)
(* The pages synchronise and then export; between two exports the mapping  *)
(* changes.  A request only reads: its answers are operators on the state  *)
(* (ReportPages has those of its pages).  Amounts are whole numbers of a   *)
(* unit small enough for the shares of the lines.                          *)
(***************************************************************************)
EXTENDS Integers, Sequences, FiniteSetsExt

CONSTANTS
    Orders,
    Goods,         \* the lists of goods an order may have
    Shipping,      \* sellerShippingFee of an order
    Charges,       \* totalPerformanceServiceCharge of an order, 0 before it is known
    WarehouseSkus, \* what a platform SKU may be mapped to, a SKU or several
    Cost           \* purchase, ocean freight and operation fee of a warehouse SKU

Skus == UNION {{g[k].sku : k \in DOMAIN g} : g \in Goods}
Modes == {"actual", "estimated"}
Methods == {"sku_avg", "zero"}
Unmapped == "unmapped"

Total(g, field) == MapThenSumSet(LAMBDA k : g[k][field], DOMAIN g)
ASSUME GoodsAssumption ==
    \A g \in Goods, a \in Charges \cup {Shipping} :
        /\ g # <<>> /\ g \in Seq([sku : Skus, weight : Nat, income : Nat])
        /\ \A k \in DOMAIN g :
              IF Total(g, "weight") > 0 THEN (a * g[k].weight) % Total(g, "weight") = 0
              ELSE IF Total(g, "income") > 0 THEN (a * g[k].income) % Total(g, "income") = 0
              ELSE a % Len(g) = 0
ASSUME ReportAmountsAssumption ==
    Shipping \in Nat /\ Charges \subseteq Nat /\ Cost \in [WarehouseSkus -> Nat]

VARIABLES
    goods,      \* orderGoodsInfoList of an order
    status,     \* what the synchronisations last stored of it: excluded (1 2 6),
                \* pending_pickup (7), after_sales (8 9) or normal (any other)
    charge, returned,
    mapping,    \* the warehouse SKU of a platform SKU in XLWMS
    items       \* the rows of the file

vars == <<goods, status, charge, returned, mapping, items>>

-----------------------------------------------------------------------------
(* The export (build_dataframes).                                          *)
\* An order's amount goes to its lines by weight, or by income, or equally.
\* Mutant: by weight as soon as the line itself has one.
ShareByOwnWeight(g, k, amount) ==
    IF g[k].weight > 0 THEN (amount * g[k].weight) \div Total(g, "weight")
    ELSE IF Total(g, "income") > 0 THEN (amount * g[k].income) \div Total(g, "income")
    ELSE amount \div Len(g)
Share(g, k, amount) ==
    IF Total(g, "weight") > 0 THEN (amount * g[k].weight) \div Total(g, "weight")
    ELSE IF Total(g, "income") > 0 THEN (amount * g[k].income) \div Total(g, "income")
    ELSE amount \div Len(g)

WarehouseCost(sku) == IF mapping[sku] = Unmapped THEN 0 ELSE Cost[mapping[sku]]

\* Mutant: the fulfilment fee that is looked at is the line's.
PolicyOfLine(o, k) ==
    IF o \in returned THEN "return_profit_zeroed"
    ELSE IF status[o] = "pending_pickup" /\ Share(goods[o], k, charge[o]) <= 0
         THEN "pending_pickup_without_fulfillment_fee"
    ELSE IF status[o] = "excluded" THEN "revenue_excluded_status"
    ELSE IF status[o] = "after_sales" THEN "after_sales_cost"
    ELSE "standard"
Policy(o, k) ==
    IF o \in returned THEN "return_profit_zeroed"
    ELSE IF status[o] = "pending_pickup" /\ charge[o] <= 0
         THEN "pending_pickup_without_fulfillment_fee"
    ELSE IF status[o] = "excluded" THEN "revenue_excluded_status"
    ELSE IF status[o] = "after_sales" THEN "after_sales_cost"
    ELSE "standard"

Original(o, k) ==
    LET g == goods[o] IN
       [base |-> g[k].income, shipping |-> Share(g, k, Shipping),
        charge |-> Share(g, k, charge[o]),
        gross |-> g[k].income + Share(g, k, Shipping)]
Zero == [base |-> 0, shipping |-> 0, charge |-> 0, gross |-> 0]

\* The row of a line: the amounts that count, the original ones beside them.
RowCosting(o, k, cost) ==
    LET policy == Policy(o, k)
        counts == policy \in {"standard", "after_sales_cost"}
        original == Original(o, k)
        amounts == IF counts THEN original ELSE Zero
        pnlCost == IF counts \/ policy = "return_profit_zeroed" THEN cost ELSE 0
        afterSales == IF policy = "after_sales_cost" THEN original.gross ELSE 0
    IN [order |-> o, line |-> k, sku |-> goods[o][k].sku, policy |-> policy,
        original |-> original, amounts |-> amounts, ruleCost |-> cost,
        pnlCost |-> pnlCost, afterSales |-> afterSales,
        profit |-> IF counts THEN amounts.gross - amounts.charge - pnlCost - afterSales ELSE 0]

ExportedRow(o, k) == RowCosting(o, k, WarehouseCost(goods[o][k].sku))
ExportedRows == UNION {{ExportedRow(o, k) : k \in DOMAIN goods[o]} : o \in Orders}

-----------------------------------------------------------------------------
(* The requests of the report.  m is the mapping they read: the current    *)
(* one, or none at all when it cannot be read (load_pnl_relation_maps).    *)
Mappings == {mapping, [s \in Skus |-> Unmapped]}
Warehouse(m, r) == m[r.sku]
\* warehouse_sku_key: every SKU that is not mapped has a key of its own.
Key(m, r) == IF Warehouse(m, r) = Unmapped THEN <<"missing", r.sku>>
             ELSE <<"mapped", Warehouse(m, r)>>

\* build_sku_fulfillment_fee_averages: rows that were charged and are mapped.
Charged(rows, m, w) == {r \in rows : Warehouse(m, r) = w /\ r.amounts.charge > 0}
HasAverage(rows, m, w) == w # Unmapped /\ Charged(rows, m, w) # {}
Average(rows, m, w) ==
    MapThenSumSet(LAMBDA r : r.amounts.charge, Charged(rows, m, w))
        \div Cardinality(Charged(rows, m, w))

\* apply_pnl_mode, with averages over the rows in all.
IsPending(r) == r.policy = "pending_pickup_without_fulfillment_fee"
IsEstimable(r, all, m, method) == method = "zero" \/ HasAverage(all, m, Warehouse(m, r))
\* Mutant: the product cost stays out of an estimated line.
EstimateFeeOnly(r, fee) ==
    [r EXCEPT !.policy = "pending_pickup_estimated",
              !.amounts = [r.original EXCEPT !.charge = fee],
              !.afterSales = 0,
              !.pnlCost = r.ruleCost,
              !.profit = r.original.gross - fee]
Estimate(r, fee) ==
    [r EXCEPT !.policy = "pending_pickup_estimated",
              !.amounts = [r.original EXCEPT !.charge = fee],
              !.afterSales = 0,
              !.pnlCost = r.ruleCost,
              !.profit = r.original.gross - fee - r.ruleCost]
\* Mutant: every line without a fulfilment fee is estimated.
InModeByCharge(r, all, m, mode, method) ==
    IF mode = "actual" \/ r.amounts.charge > 0 THEN r
    ELSE IF IsEstimable(r, all, m, method)
         THEN Estimate(r, IF method = "zero" THEN 0 ELSE Average(all, m, Warehouse(m, r)))
    ELSE [r EXCEPT !.policy = "pending_pickup_estimate_missing"]
InMode(r, all, m, mode, method) ==
    IF mode = "actual" \/ ~IsPending(r) THEN r
    ELSE IF IsEstimable(r, all, m, method)
         THEN Estimate(r, IF method = "zero" THEN 0 ELSE Average(all, m, Warehouse(m, r)))
    ELSE [r EXCEPT !.policy = "pending_pickup_estimate_missing"]
ApplyMode(rows, all, m, mode, method) == {InMode(r, all, m, mode, method) : r \in rows}

\* filter_items: the orders of a period and some warehouse SKUs; then
\* apply_pnl_mode, with the averages of the whole file.
Selected(m, period, keys) == {r \in items : r.order \in period /\ Key(m, r) \in keys}
\* Mutant: the averages of the selection.
ReportAveragingSelection(m, period, keys, mode, method) ==
    ApplyMode(Selected(m, period, keys), Selected(m, period, keys), m, mode, method)
Report(m, period, keys, mode, method) ==
    ApplyMode(Selected(m, period, keys), items, m, mode, method)

RevenueExcluded == {"revenue_excluded_status", "pending_pickup_without_fulfillment_fee",
                    "pending_pickup_estimate_missing"}
IsReturn(r) == r.policy = "return_profit_zeroed"
IsExcluded(r) == r.policy \in RevenueExcluded
IsSale(r) == ~IsReturn(r) /\ ~IsExcluded(r)
OrdersOf(rows) == {r.order : r \in rows}

Summarize(rows) ==
    [orders |-> Cardinality(OrdersOf(rows)),
     salesOrders |-> Cardinality(OrdersOf({r \in rows : IsSale(r)})),
     returnOrders |-> Cardinality(OrdersOf({r \in rows : IsReturn(r)})),
     revenueExcludedOrders |-> Cardinality(OrdersOf({r \in rows : IsExcluded(r)})),
     profit |-> MapThenSumSet(LAMBDA r : r.profit, rows)]

-----------------------------------------------------------------------------
Init ==
    /\ goods \in [Orders -> Goods]
    /\ status = [o \in Orders |-> "pending_pickup"] /\ charge = [o \in Orders |-> 0]
    /\ returned = {}
    /\ mapping = [s \in Skus |-> Unmapped]
    /\ items = {}

\* An operator edits the product recipes of XLWMS, from which the mapping is
\* resolved anew by every export and request.
Remap(s) ==
    /\ \E w \in (WarehouseSkus \cup {Unmapped}) \ {mapping[s]} :
          mapping' = [mapping EXCEPT ![s] = w]
    /\ UNCHANGED <<goods, status, charge, returned, items>>

\* refresh_pnl_export.  One export runs at a time; it reads what is stored.
Export == items' = ExportedRows'

Refresh == UNCHANGED <<goods, status, charge, returned, mapping>> /\ Export

\* sync_order_backed_page_data and sync_return_page_data: a later state of an
\* order, or a return of it, is stored, and then exported.  A synchronisation
\* that brings more, or whose export is refused because one is running, shows
\* at the next export, like several of these steps.
Later(s) == CASE s = "pending_pickup" -> {"excluded", "normal"}
              [] s = "normal" -> {"after_sales"}
              [] OTHER -> {}
SyncOrders(o) ==
    /\ \/ \E s \in Later(status[o]) : status' = [status EXCEPT ![o] = s] /\ UNCHANGED charge
       \/ /\ charge[o] = 0 /\ \E c \in Charges : charge' = [charge EXCEPT ![o] = c]
          /\ UNCHANGED status
    /\ UNCHANGED <<goods, returned, mapping>>
    /\ Export

SyncReturns(o) ==
    /\ status[o] # "pending_pickup" /\ returned' = returned \cup {o}
    /\ UNCHANGED <<goods, status, charge, mapping>>
    /\ Export

Next ==
    \/ \E o \in Orders : SyncOrders(o) \/ SyncReturns(o)
    \/ \E s \in Skus : Remap(s)
    \/ Refresh

Spec == Init /\ [][Next]_vars

-----------------------------------------------------------------------------
Keys == ({"mapped"} \X WarehouseSkus) \cup ({"missing"} \X Skus)
View(m, mode, method) == Report(m, Orders, Keys, mode, method)

\* In every mode the amounts of a line give its profit - and those of any
\* selection the profit of its summary -, but for the product cost of a
\* returned order, which is shown and not deducted (the policies of the export
\* and of apply_pnl_mode).
ProfitAddsUp ==
    \A m \in Mappings, mode \in Modes, method \in Methods : \A r \in View(m, mode, method) :
        r.profit = r.amounts.gross - r.amounts.charge - r.afterSales
                      - (IF IsReturn(r) THEN 0 ELSE r.pnlCost)

\* The lines of an order carry its shipping fee and its fulfilment fee once,
\* however its weights and incomes are spread.
AllocationIsComplete ==
    \A o \in OrdersOf(items) :
        LET rows == {r \in items : r.order = o}
            paid == {r \in rows : IsSale(r)}
        IN /\ MapThenSumSet(LAMBDA r : r.original.shipping, rows) = Shipping
           /\ MapThenSumSet(LAMBDA r : r.original.charge, rows) \in Charges \cup {0}
           /\ paid # {} =>
                 MapThenSumSet(LAMBDA r : r.amounts.gross, paid) =
                    Shipping + Total(goods[o], "income")

\* Actual: an order is a sale, a return or excluded, and only one of them.
\* Estimated: it is counted as a sale and as excluded exactly when only some
\* of its lines can be estimated.
OrdersCountedOnce ==
    \A m \in Mappings, mode \in Modes, method \in Methods :
        LET rows == View(m, mode, method)
            summary == Summarize(rows)
            mixed == {o \in OrdersOf(rows) :
                         /\ \E r \in items : r.order = o /\ IsPending(r)
                                             /\ IsEstimable(r, items, m, method)
                         /\ \E r \in items : r.order = o /\ IsPending(r)
                                             /\ ~IsEstimable(r, items, m, method)}
        IN summary.salesOrders + summary.returnOrders + summary.revenueExcludedOrders
              = summary.orders + (IF mode = "actual" THEN 0 ELSE Cardinality(mixed))

\* The difference the page shows between estimated and actual profit is the
\* profit of the estimated lines: nothing else changes with the mode.
DeltaIsEstimatedProfit ==
    \A m \in Mappings, method \in Methods :
        LET actual == View(m, "actual", method)
            estimated == View(m, "estimated", method)
        IN /\ Summarize(estimated).profit - Summarize(actual).profit =
                 MapThenSumSet(LAMBDA r : r.original.gross - r.amounts.charge - r.ruleCost,
                               {r \in estimated : r.policy = "pending_pickup_estimated"})
           /\ \A r \in actual \ estimated : IsPending(r)

\* A line shows the same amounts whatever period and warehouse SKUs are
\* selected: the estimate does not depend on what else is shown.
SelectionChangesNoLine ==
    \A m \in Mappings, mode \in Modes, method \in Methods,
       period \in SUBSET Orders, keys \in SUBSET Keys :
        Report(m, period, keys, mode, method) =
            {r \in View(m, mode, method) : r.order \in period /\ Key(m, r) \in keys}
=============================================================================
