--------------------------- MODULE ExclusiveLease ---------------------------
(***************************************************************************)
(* What the scheduling lease promises: at most one process holds it, and   *)
(* it passes from one to the next only through nobody (a release or the    *)
(* death of the holder).                                                   *)
(***************************************************************************)
CONSTANT Schedulers

VARIABLE holders

Init == holders = {}

Claim(s) == holders = {} /\ holders' = {s}

Drop(s) == holders = {s} /\ holders' = {}

Next == \E s \in Schedulers : Claim(s) \/ Drop(s)

Spec == Init /\ [][Next]_holders
=============================================================================
