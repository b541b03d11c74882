-------------------------- MODULE MCOrderFullSync --------------------------
(* Small instances of OrderFullSync: three orders in one window, two of     *)
(* them allocated in the same second.                                      *)
EXTENDS OrderFullSync, TLC

TimeOfOrders == 1 :> 0 @@ 2 :> 1 @@ 3 :> 1
=============================================================================
