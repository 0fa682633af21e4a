------------------------- MODULE SettlementPromise --------------------------
(***************************************************************************)
(* What waiting for settlement promises the code that sent a transaction:  *)
(* once the chain has settled the fate of its nonce that fate stands, and  *)
(* the wait reports success only when the requested call is what settled.  *)
(* Giving up says nothing about the transaction.                           *)
(***************************************************************************)
VARIABLES fate, told

Init == fate = "open" /\ told = "waiting"

Settle ==
    /\ fate = "open" /\ fate' \in {"done", "undone"}
    /\ UNCHANGED told

Confirm ==
    /\ told = "waiting" /\ fate = "done"
    /\ told' = "settled"
    /\ UNCHANGED fate

GiveUp ==
    /\ told = "waiting"
    /\ told' = "unknown"
    /\ UNCHANGED fate

Next == Settle \/ Confirm \/ GiveUp
Spec == Init /\ [][Next]_<<fate, told>>
=============================================================================
