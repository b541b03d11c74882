---------------------------- MODULE MCProfitReport ----------------------------
(* Small instances of ProfitReport and ReportPages. *)
EXTENDS ReportPages, TLC

Line(sku, weight, income) == [sku |-> sku, weight |-> weight, income |-> income]
GoodsLists == {<<Line("s1", 1, 5), Line("s2", 0, 7)>>,     \* by weight
               <<Line("s1", 0, 1), Line("s1", 0, 2)>>,     \* by income
               <<Line("s1", 0, 0), Line("s1", 0, 0)>>}     \* equally
Costs == "w1" :> 4
CreatedOn == 1 :> 2 @@ 2 :> 4
Skcs == "s1" :> "c1" @@ "s2" :> "unknown"
TrendOptions == {[rolling |-> 2, least |-> 2, back |-> 1]}
=============================================================================
