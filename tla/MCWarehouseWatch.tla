-------------------------- MODULE MCWarehouseWatch --------------------------
EXTENDS WarehouseWatch, TLC

\* Numbers of outbound orders carry no order.
Symmetry == Permutations(Ids)
=============================================================================
