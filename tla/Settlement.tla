----------------------------- MODULE Settlement -----------------------------
(***************************************************************************)
(* waitForSettlementEvidence (pilot/settlement.ts): one wait for one sent  *)
(* transaction, over a chain whose unsettled blocks may be replaced.  Each *)
(* step is one awaited read; what a check refuses, a failed read, an abort *)
(* and the deadline end the wait with a code.  A read through a node that  *)
(* lags is a read that fails or is repeated.                               *)
(***************************************************************************)
EXTENDS FinalChain

CONSTANTS NoReceipt

Modes == {"fuji-finalized", "local-receipt"}
WaitSteps == {"network", "waiting", "polling", "canonical", "confirming", "again", "ended"}
Codes == {"none", "settled", "ABORTED", "TIMEOUT", "WRONG_CHAIN", "REVERTED", "REPLACED",
          "INCONSISTENT", "RPC_UNAVAILABLE"}

Receipt == [number : Heights, fork : 0 .. MaxForks, call : Nonce, ok : {"yes", "no"}]

VARIABLES mode, step, receipt, code
waitVars == <<mode, step, receipt, code>>
settlementVars == <<chain, tip, final, fork, mode, step, receipt, code>>

SettlementTypeOK ==
    /\ ChainTypeOK
    /\ mode \in Modes /\ step \in WaitSteps /\ code \in Codes
    /\ receipt \in Receipt \union {NoReceipt}

WaitInit ==
    /\ mode \in Modes /\ step = "network" /\ receipt = NoReceipt /\ code = "none"

Advance(to) == step' = to /\ UNCHANGED <<mode, receipt, code>>
End(with) == step' = "ended" /\ code' = with /\ UNCHANGED <<mode, receipt>>

\* getChainId, before and after the reads.
CheckNetwork ==
    /\ step = "network"
    /\ Advance("waiting") \/ End("WRONG_CHAIN")
    /\ UNCHANGED chainVars

At(h) == [number |-> h, fork |-> chain[h].fork, call |-> chain[h].call, ok |-> chain[h].ok]

\* onReplaced accepts the same call at another fee and nothing else.
MutSameIntent(call) == TRUE
SameIntent(call) == call \in {"asked", "repriced"}

\* waitForTransactionReceipt: the receipt of whatever executed the nonce.
FindReceipt ==
    /\ step = "waiting"
    /\ \E h \in 1 .. tip :
         /\ chain[h].call \in Nonce
         /\ \/ ~SameIntent(chain[h].call) /\ End("REPLACED")
            \/ SameIntent(chain[h].call) /\ chain[h].ok = "no" /\ End("REVERTED")
            \/ /\ SameIntent(chain[h].call) /\ chain[h].ok = "yes"
               /\ receipt' = At(h)
               /\ step' = IF mode = "local-receipt" THEN "canonical" ELSE "polling"
               /\ UNCHANGED <<mode, code>>
    /\ UNCHANGED chainVars

\* The finalized block is read until it reaches the receipt; a shorter one
\* is read again after pollMs.
MutReached == TRUE
Reached == final >= receipt.number

PollFinalized ==
    /\ step = "polling" /\ Reached
    /\ Advance("canonical")
    /\ UNCHANGED chainVars

Canonical == receipt.number <= tip /\ chain[receipt.number].fork = receipt.fork

CheckCanonical ==
    /\ step = "canonical"
    /\ IF Canonical THEN Advance("confirming") ELSE End("INCONSISTENT")
    /\ UNCHANGED chainVars

\* The receipt is read once more and must be the same.
Reread ==
    /\ step = "confirming"
    /\ IF receipt.number <= tip /\ At(receipt.number) = receipt
       THEN Advance("again") ELSE End("INCONSISTENT")
    /\ UNCHANGED chainVars

CheckNetworkAgain ==
    /\ step = "again"
    /\ End("settled") \/ End("WRONG_CHAIN")
    /\ UNCHANGED chainVars

\* Every await is bounded: a transport error, a malformed answer, an abort
\* or the deadline.
MutBounded == step # "ended" /\ ~(step = "polling" /\ ~Reached)
Bounded == step # "ended"

GiveUp ==
    /\ Bounded
    /\ \E with \in {"ABORTED", "TIMEOUT", "INCONSISTENT", "RPC_UNAVAILABLE"} : End(with)
    /\ UNCHANGED chainVars

Read ==
    \/ CheckNetwork \/ FindReceipt \/ PollFinalized
    \/ CheckCanonical \/ Reread \/ CheckNetworkAgain

\* The local chain executes at once and never replaces a block.
ChainStep ==
    /\ Mine \/ Finalise \/ (mode = "fuji-finalized" /\ Reorganise)
    /\ UNCHANGED waitVars

SettlementInit == ChainInit /\ WaitInit
SettlementNext == ChainStep \/ Read \/ GiveUp
SettlementSpec == SettlementInit /\ [][SettlementNext]_settlementVars

(***************************************************************************)
(* The promise: settled means executed in a block the chain keeps.         *)
(***************************************************************************)
Kept == IF mode = "local-receipt" THEN tip ELSE final

Fate == IF Funded(Kept) THEN "done"
        ELSE IF \E h \in 1 .. Kept : chain[h].call \in Nonce THEN "undone" ELSE "open"
Told == IF step # "ended" THEN "waiting" ELSE IF code = "settled" THEN "settled" ELSE "unknown"

Promise == INSTANCE SettlementPromise WITH fate <- Fate, told <- Told

\* Refinement: success is reported only for the requested call (or the same
\* call at another fee), executed without reverting, in a block that can no
\* longer be replaced, whatever the chain replaced during the wait.
SettlementKeepsPromise == Promise!Spec

\* Liveness: a wait ends, however slow the endpoint and however long the
\* transaction stays unsettled (the deadline of remaining and bounded).
WaitEnds == <>(step = "ended")
=============================================================================
