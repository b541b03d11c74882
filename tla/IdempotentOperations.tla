------------------------ MODULE IdempotentOperations ------------------------
(***************************************************************************)
(* What the operation ledger promises: an operation that must not be       *)
(* repeated is claimed once, performed at most once, and settled once.  A  *)
(* completed operation was performed; one that failed may have been        *)
(* performed too, and one whose claimant died stays pending.               *)
(***************************************************************************)
EXTENDS Naturals

CONSTANT Operations

VARIABLES
    status,     \* "none", "pending", "completed", "failed"
    performed   \* how often each operation was performed

Init ==
    /\ status = [o \in Operations |-> "none"]
    /\ performed = [o \in Operations |-> 0]

Claim(o) ==
    /\ status[o] = "none"
    /\ status' = [status EXCEPT ![o] = "pending"]
    /\ UNCHANGED performed

Perform(o) ==
    /\ status[o] = "pending" /\ performed[o] = 0
    /\ performed' = [performed EXCEPT ![o] = 1]
    /\ UNCHANGED status

Settle(o) ==
    /\ status[o] = "pending"
    /\ \/ performed[o] = 1 /\ status' = [status EXCEPT ![o] = "completed"]
       \/ status' = [status EXCEPT ![o] = "failed"]
    /\ UNCHANGED performed

Next == \E o \in Operations : Claim(o) \/ Perform(o) \/ Settle(o)

Spec == Init /\ [][Next]_<<status, performed>>
=============================================================================
