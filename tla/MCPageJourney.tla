--------------------------- MODULE MCPageJourney ----------------------------
(* Two wallets of one browser, one task.                                   *)
EXTENDS PageJourney, TLC

CONSTANTS w1, w2

Spec == PageSpec /\ PageFairness
=============================================================================
