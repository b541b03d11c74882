--------------------------- MODULE MCInventoryCosts ---------------------------
EXTENDS InventoryCosts, TLC

TemplatesOfCategories == "k1" :> "m1" @@ "k2" :> "m2"
CategoriesOfTypes == "t1" :> "k1" @@ "t2" :> "k2"
DefaultRows == {"m1", "k1", "t1"}
ClientSymmetry == Permutations(Clients)
=============================================================================
