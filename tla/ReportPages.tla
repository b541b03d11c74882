----------------------------- MODULE ReportPages -----------------------------
(***************************************************************************)
(* The pages of the report (pnl_web.py): the tables of /api/data, the      *)
(* pages of its orders, and the analysis of the shipping fees that were    *)
(* collected.  All of them are answers, computed from the rows of the file *)
(* and the mapping of ProfitReport; m is the mapping a request read.       *)
(***************************************************************************)
EXTENDS ProfitReport, SequencesExt

CONSTANTS
    Created,   \* day an order was created
    SkcOf,     \* SKC of a platform SKU, or Unknown
    Unknown,
    Cent,      \* a cent, in the unit of the amounts
    PageSizes, \* of the order table
    SortColumns,
    Trends     \* what a trend may be asked with: days of its window, of them
               \* at least with data, and how many days back it is compared

ASSUME OrdersAssumption == Orders \subseteq Nat /\ IsFiniteSet(Orders)
ASSUME PagesAssumption ==
    /\ Created \in [Orders -> Nat] /\ Cent \in Nat \ {0} /\ PageSizes \subseteq Nat \ {0}
    /\ \A t \in Trends : t.rolling \in Nat \ {0} /\ t.least \in 1..t.rolling /\ t.back \in Nat

Day(r) == Created[r.order]
LinesOf(rows, o) == {r \in rows : r.order = o}

-----------------------------------------------------------------------------
(* /api/data.                                                              *)
IsEstimated(r) == r.policy = "pending_pickup_estimated"
Sum(rows, Of(_)) == MapThenSumSet(Of, rows)

\* The columns a group of rows is given in every table.
Totals(m, rows) ==
    LET sales == {r \in rows : IsSale(r)} IN
    [lines |-> Cardinality(rows),
     salesLines |-> Cardinality(sales),
     estimatedLines |-> Cardinality({r \in rows : IsEstimated(r)}),
     missingMappingLines |-> Cardinality({r \in rows : Warehouse(m, r) = Unmapped}),
     grossRevenue |-> Sum(rows, LAMBDA r : r.amounts.gross),
     performanceFee |-> Sum(rows, LAMBDA r : r.amounts.charge),
     productCost |-> Sum(rows, LAMBDA r : r.pnlCost),
     afterSalesCost |-> Sum(rows, LAMBDA r : r.afterSales),
     profit |-> Sum(rows, LAMBDA r : r.profit),
     salesProfit |-> Sum(sales, LAMBDA r : r.profit)]
Columns == {"lines", "salesLines", "estimatedLines", "missingMappingLines", "grossRevenue",
            "performanceFee", "productCost", "afterSalesCost", "profit", "salesProfit"}
ASSUME SortColumnsAssumption == SortColumns \subseteq Columns

GroupBy(m, rows, KeyOf(_)) ==
    [k \in {KeyOf(r) : r \in rows} |-> Totals(m, {r \in rows : KeyOf(r) = k})]

SkcKey(m, r) == IF m # mapping \/ SkcOf[r.sku] = Unknown THEN <<"missing", r.sku>>
                ELSE <<"skc", SkcOf[r.sku]>>

\* Mutant: the SKUs that are not mapped are no group of the table.
SkuTableOfMapped(m, rows) ==
    GroupBy(m, {r \in rows : Warehouse(m, r) # Unmapped}, LAMBDA r : Key(m, r))
SkuTable(m, rows) == GroupBy(m, rows, LAMBDA r : Key(m, r))
SkcTable(m, rows) == GroupBy(m, rows, LAMBDA r : SkcKey(m, r))
DailyTrend(m, rows) == GroupBy(m, rows, Day)
OrderTable(m, rows) == GroupBy(m, rows, LAMBDA r : r.order)

\* api_filters: the SKUs a selection may name, each with what it made in the
\* whole file.
Filters(m) == GroupBy(m, items, LAMBDA r : Key(m, r))
FilterColumns == {"lines", "profit", "grossRevenue", "missingMappingLines"}

\* paginate_pnl_orders: the rows that match a search, sorted, ties by number;
\* a page past the end is the last one.
Before(table, column, ascending, a, b) ==
    \/ table[a][column] = table[b][column] /\ a < b
    \/ ascending /\ table[a][column] < table[b][column]
    \/ ~ascending /\ table[b][column] < table[a][column]
Sorted(table, found, column, ascending) ==
    CHOOSE s \in SetToSeqs(found) : \A i, j \in DOMAIN s :
        i < j => Before(table, column, ascending, s[i], s[j])
\* Mutant: a page past the end is empty.
OrderPagePastTheEnd(table, found, column, ascending, size, wanted) ==
    LET sorted == Sorted(table, found, column, ascending)
        pages == Max({1, (Len(sorted) + size - 1) \div size})
        page == Max({1, wanted})
    IN [page |-> page, pages |-> pages, total |-> Len(sorted),
        rows |-> SubSeq(sorted, (page - 1) * size + 1, Min({page * size, Len(sorted)}))]
OrderPage(table, found, column, ascending, size, wanted) ==
    LET sorted == Sorted(table, found, column, ascending)
        pages == Max({1, (Len(sorted) + size - 1) \div size})
        page == Min({Max({1, wanted}), pages})
    IN [page |-> page, pages |-> pages, total |-> Len(sorted),
        rows |-> SubSeq(sorted, (page - 1) * size + 1, Min({page * size, Len(sorted)}))]

-----------------------------------------------------------------------------
(* The shipping fees: the lines that are sales in the file.                *)
EffectiveItems == {r \in items : IsSale(r)}
Hit(r) == r.amounts.shipping > 0
InPeriod(rows, from, to) == {r \in rows : Day(r) \in from..to}

Dimensions == {"all", "warehouse_sku", "shein_sku", "skc"}
GroupKey(m, dimension, r) ==
    CASE dimension = "all" -> <<"all", "all">>
      [] dimension = "warehouse_sku" -> Key(m, r)
      [] dimension = "shein_sku" -> <<"shein", r.sku>>
      [] dimension = "skc" -> SkcKey(m, r)
GroupKeys(m, dimension, rows) == {GroupKey(m, dimension, r) : r \in rows}
Group(m, dimension, rows, k) == {r \in rows : GroupKey(m, dimension, r) = k}

\* A rate is the lines that hit and all lines, or none at all.
NoRate == <<>>
Rate(rows) ==
    IF rows = {} THEN NoRate ELSE <<Cardinality({r \in rows : Hit(r)}), Cardinality(rows)>>

\* shipping_fee_window_summary: no rate before there are days enough.
WindowRate(rows, from, to, least) ==
    LET first == Min({Day(r) : r \in rows})
        days == IF to >= first THEN to - Max({from, first}) + 1 ELSE 0
    IN IF rows = {} \/ days < least THEN NoRate ELSE Rate(InPeriod(rows, from, to))

\* A day without lines shows the rate of the last day that has some, were it
\* before the period.
\* Mutant: nothing is known when the period starts.
SeriesFromNothing(rows, from, to) ==
    LET known[d \in (from - 1)..to] ==
        IF d = from - 1 THEN NoRate
        ELSE IF InPeriod(rows, d, d) # {} THEN Rate(InPeriod(rows, d, d)) ELSE known[d - 1]
    IN [d \in from..to |-> known[d]]
Series(rows, from, to) ==
    LET before == {Day(r) : r \in rows} \cap 0..(from - 1)
        known[d \in (from - 1)..to] ==
            IF d = from - 1
            THEN IF before = {} THEN NoRate ELSE Rate(InPeriod(rows, Max(before), Max(before)))
            ELSE IF InPeriod(rows, d, d) # {} THEN Rate(InPeriod(rows, d, d)) ELSE known[d - 1]
    IN [d \in from..to |-> known[d]]

\* api_shipping_fee_data: a row for each group that has lines in the period.
\* The list is not cut to topN groups.
ShippingTable(m, dimension, from, to, trend) ==
    LET rows == EffectiveItems
        period == InPeriod(rows, from, to)
        shifted == to - trend.back
    IN [k \in GroupKeys(m, dimension, period) |->
          LET group == Group(m, dimension, rows, k)
              shown == Group(m, dimension, period, k)
          IN [periodRate |-> Rate(shown),
              periodOrders |-> Cardinality(OrdersOf(shown)),
              unachievedOrders |-> Cardinality(OrdersOf({r \in shown : ~Hit(r)})),
              currentRate |-> WindowRate(group, to - trend.rolling + 1, to, trend.least),
              shiftedRate |-> WindowRate(group, shifted - trend.rolling + 1, shifted,
                                         trend.least),
              series |-> Series(group, from, to)]]

\* round(amount, 2), a tie to the even cent.
RoundToCent(a) ==
    LET cents == a \div Cent
        rest == a % Cent
    IN Cent * (IF 2 * rest < Cent \/ (2 * rest = Cent /\ cents % 2 = 0)
               THEN cents ELSE cents + 1)

\* shipping_fee_unachieved_order_payload: the orders of the period that have
\* a line of the warehouse SKU without a shipping fee, with all their lines.
\* An order's amounts are the sums of those its lines show, rounded.
\* Mutant: the orders none of whose lines has one.
UnachievedOrdersWithoutHit(m, key, from, to) ==
    LET period == InPeriod(EffectiveItems, from, to)
        orders == {o \in OrdersOf(period) : /\ \A r \in LinesOf(period, o) : ~Hit(r)
                                            /\ \E r \in LinesOf(period, o) : Key(m, r) = key}
    IN [o \in orders |->
          [lines |-> LinesOf(period, o),
           targetMissItems |-> Cardinality({r \in LinesOf(period, o) : Key(m, r) = key}),
           shippingFee |-> Sum(LinesOf(period, o), LAMBDA r : RoundToCent(r.amounts.shipping)),
           revenue |-> Sum(LinesOf(period, o), LAMBDA r : RoundToCent(r.amounts.gross))]]
UnachievedOrders(m, key, from, to) ==
    LET period == InPeriod(EffectiveItems, from, to)
        missed == {r \in period : Key(m, r) = key /\ ~Hit(r)}
    IN [o \in OrdersOf(missed) |->
          [lines |-> LinesOf(period, o),
           targetMissItems |-> Cardinality(LinesOf(missed, o)),
           shippingFee |-> Sum(LinesOf(period, o), LAMBDA r : RoundToCent(r.amounts.shipping)),
           revenue |-> Sum(LinesOf(period, o), LAMBDA r : RoundToCent(r.amounts.gross))]]

-----------------------------------------------------------------------------
Days == Min({Created[o] : o \in Orders})..Max({Created[o] : o \in Orders})
Periods == {p \in Days \X Days : p[1] <= p[2]}

\* The same rows are behind everything /api/data answers: each of its tables
\* adds up to the same totals, and a day and an order are in one row of theirs.
\* The SKUs a selection is made from add up to the file.
TablesAddUp ==
    \A m \in Mappings :
      /\ \A c \in FilterColumns :
            MapThenSumSet(LAMBDA k : Filters(m)[k][c], DOMAIN Filters(m)) = Totals(m, items)[c]
      /\ \A mode \in Modes, method \in Methods :
        LET rows == View(m, mode, method)
            totals == Totals(m, rows)
            tables == <<SkuTable(m, rows), SkcTable(m, rows), DailyTrend(m, rows),
                        OrderTable(m, rows)>>
        IN \A t \in DOMAIN tables, c \in Columns :
              MapThenSumSet(LAMBDA k : tables[t][k][c], DOMAIN tables[t]) = totals[c]

\* The pages of the orders hold every order that was searched for once, and
\* none of them is empty, whatever they are sorted by and however they are cut;
\* asking for one more shows the last.
PagesHoldEachOrderOnce ==
    LET table == OrderTable(mapping, View(mapping, "estimated", "zero")) IN
    \A found \in SUBSET DOMAIN table, column \in SortColumns, ascending \in BOOLEAN,
       size \in PageSizes :
        LET Page(wanted) == OrderPage(table, found, column, ascending, size, wanted)
            pages == [p \in 1..Page(1).pages |-> Page(p).rows]
            shown == FlattenSeq(pages)
        IN /\ ToSet(shown) = found /\ Len(shown) = Cardinality(found)
           /\ \A p \in DOMAIN pages : found # {} => pages[p] # <<>>
           /\ Page(Len(pages) + 1) = Page(Len(pages))

\* The list of orders the page opens for a warehouse SKU holds as many orders
\* as its table counts, and as many lines without a shipping fee.  The orders
\* are listed whole; the shipping fee an order is listed with need not be the
\* one the buyer paid, since the cents of its lines are added, but is off by at
\* most half a cent for each line.
UnachievedOrdersAgree ==
    \A p \in Periods, trend \in Trends :
        LET table == ShippingTable(mapping, "warehouse_sku", p[1], p[2], trend) IN
        \A k \in DOMAIN table :
            LET listed == UnachievedOrders(mapping, k, p[1], p[2]) IN
            /\ table[k].unachievedOrders = Cardinality(DOMAIN listed)
            /\ table[k].periodRate[2] - table[k].periodRate[1] =
                  MapThenSumSet(LAMBDA o : listed[o].targetMissItems, DOMAIN listed)
            /\ \A o \in DOMAIN listed :
                  /\ Cardinality(listed[o].lines) = Len(goods[o])
                  /\ 2 * (listed[o].shippingFee - Shipping)
                        \in -(Cent * Len(goods[o]))..(Cent * Len(goods[o]))

\* The period only chooses what is shown.  A day shows the same rate in every
\* period it is part of - that of the longest -, and the current rate, where
\* there is one, is the rate of a request for just the days of its window.
PeriodChangesNoRate ==
    \A dimension \in Dimensions, trend \in Trends, p \in Periods :
        LET Answer(from, to) == ShippingTable(mapping, dimension, from, to, trend)
            shown == Answer(p[1], p[2])
            whole == Answer(Min(Days), Max(Days))
            window == Answer(p[2] - trend.rolling + 1, p[2])
        IN \A k \in DOMAIN shown :
            /\ \A d \in p[1]..p[2] : shown[k].series[d] = whole[k].series[d]
            /\ shown[k].currentRate # NoRate =>
                  k \in DOMAIN window /\ shown[k].currentRate = window[k].periodRate
=============================================================================
