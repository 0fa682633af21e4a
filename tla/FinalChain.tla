----------------------------- MODULE FinalChain -----------------------------
(***************************************************************************)
(* The chain as its readers see it (Avalanche Fuji through one endpoint):  *)
(* a sequence of executed blocks whose first `final' are settled and whose *)
(* rest may still be replaced.  Height and `fork' identify a block, as its *)
(* hash does.  Blocks are external to the repository, taken from what      *)
(* settlement.ts and hosting/read-api.ts ask of them; what their calls do  *)
(* is the contract's (QualificationEscrow.sol), of which no more is kept   *)
(* here than whether a job was funded, delivered, or outrun by a new root. *)
(***************************************************************************)
EXTENDS Integers

CONSTANTS MaxHeight, MaxForks   \* bounds: blocks, reorganisations

ASSUME ChainAssumptions == MaxHeight \in Nat /\ MaxForks \in Nat

\* One wallet nonce: the call the page sent, the same call at a higher fee,
\* and a different call (or a cancellation) that replaces it.  Here the
\* call funds a job.  The other calls deliver that job's report and move
\* the issuer's revocation root.
Nonce == {"asked", "repriced", "other"}
Deliveries == {"first", "second"}
Calls == Nonce \union Deliveries \union {"rotate"}

Heights == 1 .. MaxHeight
Block == [call : Calls \union {"none"}, ok : {"yes", "no"}, fork : 0 .. MaxForks]

VARIABLES chain, tip, final, fork
chainVars == <<chain, tip, final, fork>>

ChainTypeOK ==
    /\ chain \in [Heights -> Block]
    /\ tip \in 0 .. MaxHeight /\ final \in 0 .. tip /\ fork \in 0 .. MaxForks

ChainInit ==
    /\ chain = [h \in Heights |-> [call |-> "none", ok |-> "yes", fork |-> 0]]
    /\ tip = 0 /\ final = 0 /\ fork = 0

\* A nonce is used once and a report is delivered once; as a bound, so is the
\* root moved.
Executable(call) ==
    \A h \in 1 .. tip : /\ call = chain[h].call => call = "none"
                        /\ call \in Nonce => chain[h].call \notin Nonce
                        /\ call \in Deliveries => chain[h].call \notin Deliveries

Mine ==
    /\ tip < MaxHeight
    /\ \E call \in Calls \union {"none"}, ok \in {"yes", "no"} :
         /\ Executable(call) /\ (call \in Nonce \/ ok = "yes")
         /\ chain' = [chain EXCEPT ![tip + 1] = [call |-> call, ok |-> ok, fork |-> fork]]
    /\ tip' = tip + 1
    /\ UNCHANGED <<final, fork>>

Finalise ==
    /\ final < tip
    /\ final' = final + 1
    /\ UNCHANGED <<chain, tip, fork>>

\* Blocks that are not settled are replaced.
Reorganise ==
    /\ fork < MaxForks
    /\ \E h \in final .. tip - 1 : tip' = h
    /\ fork' = fork + 1
    /\ UNCHANGED <<chain, final>>

\* The contract's state at a block.
Executed(calls, h) == \E g \in 1 .. h : chain[g].call \in calls /\ chain[g].ok = "yes"
Funded(h) == Executed({"asked", "repriced"}, h)
Rotated(h) == Executed({"rotate"}, h)
=============================================================================
