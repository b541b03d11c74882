CONSTANTS
    Clients = {c1, c2}
    Templates = {"m1", "m2"}
    Categories = {"k1", "k2"}
    Types = {"t1", "t2"}
    Tickets = {"i1"}
    TemplateOf <- TemplatesOfCategories
    CategoryOf <- CategoriesOfTypes
    Default <- DefaultRows
SPECIFICATION Spec
INVARIANT EntryOfTicketsTemplate
INVARIANT EntryFollowsMode
INVARIANT SeededOnce
PROPERTY DeletedStaysDeleted
SYMMETRY ClientSymmetry
