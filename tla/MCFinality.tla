----------------------------- MODULE MCFinality -----------------------------
(* The wait and the request take turns, so that a small chain is enough.   *)
EXTENDS Finality

\* The two components meet only in the chain and in `after': the request
\* runs before the wait reads the chain or after it ended.
InTurn == phase \in {"idle", "answered"} \/ step \in {"network", "ended"}
=============================================================================
