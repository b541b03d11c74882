-------------------------- MODULE MCLabelPurchase --------------------------
(* The channels of the instances of LabelPurchase that TLC checks, and the *)
(* symmetries of the instances.  The codes of two channels name their      *)
(* carrier; the third is known by its short name, and stands for itself    *)
(* when its code is all there is to go by.                                 *)
EXTENDS LabelPurchase, TLC

CONSTANTS gofo_d2d, gofo_line, standard, gofo, ups

MCChannels == {gofo_d2d, gofo_line, standard}
MCCarriers == {gofo, ups, standard}
MCQuotedCarrier == gofo_d2d :> gofo @@ gofo_line :> gofo @@ standard :> ups
MCCodeCarrier == gofo_d2d :> gofo @@ gofo_line :> gofo @@ standard :> standard

Symmetry ==
    Permutations(Handlers) \cup Permutations(ManualKeys)
    \cup Permutations(OperatorQuotes) \cup Permutations(AutoQuotes)
    \cup Permutations({gofo_d2d, gofo_line})
=============================================================================
