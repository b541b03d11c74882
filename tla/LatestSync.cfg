SPECIFICATION Spec
CONSTANTS
    Items = {1, 2, 3}
    Kinds = {"orders", "returns", "products"}
    PageSize = 2
    Overlap = 1
    Fallback = 1
    MaxNow = 3
    MaxEvents = 1
INVARIANTS
    
    
    ProductCursorSkipsNothing
