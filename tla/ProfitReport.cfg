SPECIFICATION Spec
CONSTANTS
    Orders = {1, 2}
    Goods <- GoodsLists
    Shipping = 6
    Charges = {12}
    WarehouseSkus = {"w1"}
    Cost <- Costs
    Cent = 2
    Created <- CreatedOn
    SkcOf <- Skcs
    Unknown = "unknown"
    PageSizes = {1, 2}
    SortColumns = {"lines", "profit"}
    Trends <- TrendOptions
INVARIANTS
    ProfitAddsUp
    AllocationIsComplete
    OrdersCountedOnce
    DeltaIsEstimatedProfit
    SelectionChangesNoLine
    TablesAddUp
    PagesHoldEachOrderOnce
    UnachievedOrdersAgree
    PeriodChangesNoRate
