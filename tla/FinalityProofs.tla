--------------------------- MODULE FinalityProofs ---------------------------
(***************************************************************************)
(* Proofs about the two readers of the chain, Settlement and PublicRead,   *)
(* and about both together (Finality), for chains of any height and any    *)
(* number of reorganisations.  All rest on one fact: settled blocks stand, *)
(* and on the local chain all blocks do.                                   *)
(***************************************************************************)
EXTENDS Finality, TLAPS

\* At most one of the rivals for a nonce, or of the reports, is executed.
OneOf(rivals) ==
    \A g, h \in 1 .. tip : chain[g].call \in rivals /\ chain[h].call \in rivals => g = h

ChainInv == ChainTypeOK /\ OneOf(Nonce) /\ OneOf(Deliveries)

\* The blocks up to h stand in a step.
Stand(h) == h <= tip' /\ \A g \in 1 .. h : chain'[g] = chain[g]

-----------------------------------------------------------------------------
(* The chain.                                                              *)

LEMMA ChainInitInv == ChainInit => ChainInv
  BY ChainAssumptions, 0 \in 0 .. MaxForks
     DEF ChainInit, ChainInv, ChainTypeOK, OneOf, Heights, Block, Calls, Nonce, Deliveries

LEMMA MineInv ==
    ASSUME ChainInv, Mine
    PROVE  ChainInv' /\ Stand(tip) /\ final' = final
<1>0. ChainTypeOK /\ OneOf(Nonce) /\ OneOf(Deliveries)
  BY DEF ChainInv
<1>1. PICK call \in Calls \union {"none"}, ok \in {"yes", "no"} :
        /\ Executable(call)
        /\ chain' = [chain EXCEPT ![tip + 1] = [call |-> call, ok |-> ok, fork |-> fork]]
  BY DEF Mine
<1>2. tip < MaxHeight /\ tip' = tip + 1 /\ final' = final /\ fork' = fork
  BY DEF Mine
<1>3. tip \in Nat /\ tip + 1 \in Heights /\ final \in Nat /\ final <= tip /\ fork \in Nat
  BY <1>0, <1>2, ChainAssumptions DEF ChainTypeOK, Heights
<1>4. [call |-> call, ok |-> ok, fork |-> fork] \in Block
  BY <1>0 DEF Block, ChainTypeOK
<1>5. /\ chain' \in [Heights -> Block]
      /\ chain'[tip + 1].call = call
      /\ \A g \in 1 .. tip : chain'[g] = chain[g]
  BY <1>0, <1>1, <1>3, <1>4 DEF ChainTypeOK, Heights
<1>6. ChainTypeOK'
  <2>1. tip' \in 0 .. MaxHeight /\ final' \in 0 .. tip'
    BY <1>2, <1>3, ChainAssumptions
  <2>2. fork' \in 0 .. MaxForks
    BY <1>0, <1>2 DEF ChainTypeOK
  <2> QED
    BY <1>5, <2>1, <2>2 DEF ChainTypeOK
<1>7. ASSUME NEW rivals, OneOf(rivals),
             call \in rivals => \A h \in 1 .. tip : chain[h].call \notin rivals
      PROVE  \A g, h \in 1 .. tip' :
                chain'[g].call \in rivals /\ chain'[h].call \in rivals => g = h
  <2> SUFFICES ASSUME NEW g \in 1 .. tip', NEW h \in 1 .. tip',
                      chain'[g].call \in rivals, chain'[h].call \in rivals
               PROVE  g = h
    OBVIOUS
  <2>1. \A x \in 1 .. tip' : x \in 1 .. tip \/ x = tip + 1
    BY <1>2, <1>3
  <2>2. CASE g \in 1 .. tip /\ h \in 1 .. tip
    BY <1>5, <1>7, <2>2 DEF OneOf
  <2>3. CASE g = tip + 1 /\ h \in 1 .. tip
    BY <1>5, <1>7, <2>3
  <2>4. CASE g \in 1 .. tip /\ h = tip + 1
    BY <1>5, <1>7, <2>4
  <2> QED
    BY <2>1, <2>2, <2>3, <2>4
<1>8. call \in Nonce => \A h \in 1 .. tip : chain[h].call \notin Nonce
  BY <1>1 DEF Executable
<1>9. call \in Deliveries => \A h \in 1 .. tip : chain[h].call \notin Deliveries
  BY <1>1 DEF Executable
<1>10. OneOf(Nonce)'
  BY <1>0, <1>7, <1>8 DEF OneOf
<1>11. OneOf(Deliveries)'
  BY <1>0, <1>7, <1>9 DEF OneOf
<1> QED
  BY <1>2, <1>3, <1>5, <1>6, <1>10, <1>11 DEF ChainInv, Stand

LEMMA FinaliseInv ==
    ASSUME ChainInv, Finalise
    PROVE  ChainInv' /\ Stand(tip) /\ final' = final + 1
<1>1. /\ final < tip /\ final' = final + 1
      /\ chain' = chain /\ tip' = tip /\ fork' = fork
  BY DEF Finalise
<1>2. ChainTypeOK /\ OneOf(Nonce) /\ OneOf(Deliveries) /\ tip \in Nat /\ final \in 0 .. tip
  BY ChainAssumptions DEF ChainInv, ChainTypeOK
<1>3. ChainTypeOK'
  BY <1>1, <1>2 DEF ChainTypeOK
<1>4. OneOf(Nonce)' /\ OneOf(Deliveries)'
  BY <1>1, <1>2 DEF OneOf
<1> QED
  BY <1>1, <1>2, <1>3, <1>4 DEF ChainInv, Stand

LEMMA ReorganiseInv ==
    ASSUME ChainInv, Reorganise
    PROVE  ChainInv' /\ Stand(final) /\ final' = final
<1>1. PICK h \in final .. tip - 1 : tip' = h
  BY DEF Reorganise
<1>2. fork < MaxForks /\ fork' = fork + 1 /\ chain' = chain /\ final' = final
  BY DEF Reorganise
<1>3. /\ ChainTypeOK /\ OneOf(Nonce) /\ OneOf(Deliveries)
      /\ tip \in 0 .. MaxHeight /\ final \in 0 .. tip /\ fork \in 0 .. MaxForks
  BY DEF ChainInv, ChainTypeOK
<1>4. tip' \in 0 .. tip /\ final' \in 0 .. tip'
  BY <1>1, <1>2, <1>3, ChainAssumptions
<1>5. fork' \in 0 .. MaxForks /\ tip' \in 0 .. MaxHeight
  BY <1>2, <1>3, <1>4, ChainAssumptions
<1>6. ChainTypeOK'
  BY <1>2, <1>3, <1>4, <1>5 DEF ChainTypeOK
<1>7. 1 .. tip' \subseteq 1 .. tip
  BY <1>3, <1>4, ChainAssumptions
<1>8. OneOf(Nonce)' /\ OneOf(Deliveries)'
  BY <1>2, <1>3, <1>7 DEF OneOf
<1> QED
  BY <1>2, <1>4, <1>6, <1>8 DEF ChainInv, Stand

-----------------------------------------------------------------------------
(* The wait for settlement.                                                *)

\* From the finalized block on, the receipt's block is settled; a receipt
\* read twice is that of a block that stands.
WaitInv ==
    /\ step \in {"polling", "canonical", "confirming", "again"} =>
         receipt \in Receipt /\ SameIntent(receipt.call) /\ receipt.ok = "yes"
    /\ step \in {"canonical", "confirming", "again"} /\ mode = "fuji-finalized" =>
         receipt.number <= final
    /\ step = "again" => receipt.number <= Kept /\ At(receipt.number) = receipt

SettlementInv == ChainInv /\ SettlementTypeOK /\ WaitInv

LEMMA SettlementInitInv == SettlementInit => SettlementInv
<1> SUFFICES ASSUME SettlementInit PROVE SettlementInv
  OBVIOUS
<1>1. ChainInv
  BY ChainInitInv DEF SettlementInit
<1>2. SettlementTypeOK /\ WaitInv
  BY <1>1 DEF SettlementInit, WaitInit, SettlementTypeOK, WaitInv, WaitSteps, Codes, ChainInv
<1> QED
  BY <1>1, <1>2 DEF SettlementInv

\* What the promise calls kept stands in every step of the chain.
LEMMA KeptStands ==
    ASSUME SettlementInv, ChainStep
    PROVE  /\ ChainInv' /\ UNCHANGED waitVars
           /\ Kept \in Nat /\ Kept' \in Nat /\ Kept <= Kept' /\ Kept' <= tip'
           /\ final <= final'
           /\ \A g \in 1 .. Kept : chain'[g] = chain[g]
<1>1. /\ ChainInv /\ mode \in Modes /\ tip \in Nat
      /\ final \in Nat /\ final <= tip
  BY ChainAssumptions DEF SettlementInv, SettlementTypeOK, ChainInv, ChainTypeOK
<1>2. UNCHANGED waitVars /\ mode' = mode
  BY DEF ChainStep, waitVars
<1>3. CASE Mine
  <2>1. ChainInv' /\ Stand(tip) /\ final' = final
    BY <1>1, <1>3, MineInv
  <2>2. tip' \in Nat /\ final' \in Nat /\ final' <= tip'
    BY <2>1, ChainAssumptions DEF ChainInv, ChainTypeOK
  <2> QED
    BY <1>1, <1>2, <2>1, <2>2 DEF Stand, Kept
<1>4. CASE Finalise
  <2>1. ChainInv' /\ Stand(tip) /\ final' = final + 1
    BY <1>1, <1>4, FinaliseInv
  <2>2. tip' \in Nat /\ final' \in Nat /\ final' <= tip'
    BY <2>1, ChainAssumptions DEF ChainInv, ChainTypeOK
  <2> QED
    BY <1>1, <1>2, <2>1, <2>2 DEF Stand, Kept
<1>5. CASE mode = "fuji-finalized" /\ Reorganise
  <2>1. ChainInv' /\ Stand(final) /\ final' = final
    BY <1>1, <1>5, ReorganiseInv
  <2>2. tip' \in Nat /\ final' \in Nat /\ final' <= tip'
    BY <2>1, ChainAssumptions DEF ChainInv, ChainTypeOK
  <2> QED
    BY <1>1, <1>2, <1>5, <2>1, <2>2 DEF Stand, Kept
<1> QED
  BY <1>3, <1>4, <1>5 DEF ChainStep

LEMMA ChainStepInv ==
    ASSUME SettlementInv, ChainStep
    PROVE  SettlementInv'
<1>1. /\ ChainInv' /\ UNCHANGED waitVars
      /\ Kept \in Nat /\ Kept' \in Nat /\ Kept <= Kept' /\ final <= final'
      /\ \A g \in 1 .. Kept : chain'[g] = chain[g]
  BY KeptStands
<1>2. /\ mode' = mode /\ step' = step /\ receipt' = receipt /\ code' = code
  BY <1>1 DEF waitVars
<1>3. SettlementTypeOK /\ WaitInv /\ final \in Nat
  BY ChainAssumptions DEF SettlementInv, SettlementTypeOK, ChainTypeOK
<1>4. SettlementTypeOK'
  BY <1>1, <1>2, <1>3 DEF SettlementTypeOK, ChainInv
<1>5. ASSUME step \in {"polling", "canonical", "confirming", "again"}
      PROVE  receipt \in Receipt /\ SameIntent(receipt.call) /\ receipt.ok = "yes"
  BY <1>3, <1>5 DEF WaitInv
<1>6. ASSUME step \in {"canonical", "confirming", "again"}, mode = "fuji-finalized"
      PROVE  receipt.number <= final'
  <2>1. receipt.number \in Nat /\ receipt.number <= final
    BY <1>3, <1>5, <1>6, ChainAssumptions DEF WaitInv, Receipt, Heights
  <2>2. final' \in Nat
    BY <1>1, ChainAssumptions DEF ChainInv, ChainTypeOK
  <2> QED
    BY <1>1, <1>3, <2>1, <2>2
<1>7. ASSUME step = "again"
      PROVE  receipt.number <= Kept' /\ At(receipt.number)' = receipt
  <2>1. /\ receipt.number \in 1 .. Kept /\ At(receipt.number) = receipt
    BY <1>1, <1>3, <1>5, <1>7, ChainAssumptions DEF WaitInv, Receipt, Heights
  <2>2. receipt.number <= Kept'
    BY <1>1, <2>1
  <2> QED
    BY <1>1, <1>2, <2>1, <2>2 DEF At
<1>8. WaitInv'
  BY <1>2, <1>5, <1>6, <1>7 DEF WaitInv, SameIntent
<1> QED
  BY <1>1, <1>4, <1>8 DEF SettlementInv

LEMMA WaitStepInv ==
    ASSUME SettlementInv, Read \/ GiveUp
    PROVE  SettlementInv' /\ UNCHANGED chainVars
<1>0. /\ ChainInv /\ SettlementTypeOK /\ WaitInv
      /\ UNCHANGED chainVars
  BY DEF SettlementInv, Read, GiveUp, CheckNetwork, FindReceipt, PollFinalized,
         CheckCanonical, Reread, CheckNetworkAgain
<1> SUFFICES SettlementInv'
  BY <1>0
<1>1. chain' = chain /\ tip' = tip /\ final' = final /\ fork' = fork
  BY <1>0 DEF chainVars
<1>2. ChainInv' /\ ChainTypeOK'
  BY <1>0, <1>1 DEF ChainInv, ChainTypeOK, OneOf
<1>3. tip \in Nat /\ final \in Nat /\ final <= tip /\ mode \in Modes
  BY <1>0, ChainAssumptions DEF SettlementTypeOK, ChainTypeOK
<1>4. ASSUME NEW with \in Codes, End(with)
      PROVE  SettlementTypeOK' /\ WaitInv'
  BY <1>0, <1>2, <1>4 DEF End, SettlementTypeOK, WaitInv, WaitSteps
<1>5. ASSUME NEW to \in {"waiting", "canonical", "confirming", "again"}, Advance(to)
      PROVE  SettlementTypeOK' /\ receipt' = receipt /\ mode' = mode /\ step' = to
  BY <1>0, <1>2, <1>5 DEF Advance, SettlementTypeOK, WaitSteps
<1>6. CASE CheckNetwork
  <2>1. CASE Advance("waiting")
    BY <1>2, <1>5, <2>1 DEF SettlementInv, WaitInv
  <2> QED
    BY <1>2, <1>4, <1>6, <2>1 DEF CheckNetwork, Codes, SettlementInv
<1>7. CASE FindReceipt
  <2>1. PICK h \in 1 .. tip :
          /\ chain[h].call \in Nonce
          /\ \/ End("REPLACED")
             \/ End("REVERTED")
             \/ /\ SameIntent(chain[h].call) /\ chain[h].ok = "yes"
                /\ receipt' = At(h)
                /\ step' = IF mode = "local-receipt" THEN "canonical" ELSE "polling"
                /\ mode' = mode /\ code' = code
    BY <1>7 DEF FindReceipt
  <2>2. CASE End("REPLACED") \/ End("REVERTED")
    BY <1>2, <1>4, <2>2 DEF Codes, SettlementInv
  <2>3. CASE /\ SameIntent(chain[h].call) /\ chain[h].ok = "yes"
             /\ receipt' = At(h)
             /\ step' = IF mode = "local-receipt" THEN "canonical" ELSE "polling"
             /\ mode' = mode /\ code' = code
    <3>1. h \in Heights /\ chain[h] \in Block
      BY <1>0, <1>3, ChainAssumptions DEF SettlementTypeOK, ChainTypeOK, Heights
    <3>2. At(h) \in Receipt /\ SameIntent(At(h).call) /\ At(h).ok = "yes"
      BY <2>1, <2>3, <3>1 DEF At, Receipt, Block
    <3>3. SettlementTypeOK'
      BY <1>0, <1>2, <2>3, <3>2 DEF SettlementTypeOK, WaitSteps
    <3>4. WaitInv'
      BY <1>3, <2>3, <3>2 DEF WaitInv, SameIntent, Modes
    <3> QED
      BY <1>2, <3>3, <3>4 DEF SettlementInv
  <2> QED
    BY <2>1, <2>2, <2>3
<1>8. CASE PollFinalized
  <2>1. step = "polling" /\ final >= receipt.number /\ Advance("canonical")
    BY <1>8 DEF PollFinalized, Reached
  <2>2. receipt \in Receipt /\ SameIntent(receipt.call) /\ receipt.ok = "yes"
    BY <1>0, <2>1 DEF WaitInv
  <2>3. receipt.number <= final
    BY <1>3, <2>1, <2>2, ChainAssumptions DEF Receipt, Heights
  <2> QED
    BY <1>1, <1>2, <1>5, <2>1, <2>2, <2>3 DEF SettlementInv, WaitInv, SameIntent
<1>9. CASE CheckCanonical
  <2>1. CASE Advance("confirming")
    BY <1>0, <1>1, <1>2, <1>5, <1>9, <2>1
       DEF CheckCanonical, SettlementInv, WaitInv, SameIntent
  <2> QED
    BY <1>2, <1>4, <1>9, <2>1 DEF CheckCanonical, Codes, SettlementInv
<1>10. CASE Reread
  <2>1. CASE receipt.number <= tip /\ At(receipt.number) = receipt /\ Advance("again")
    <3>1. /\ receipt \in Receipt /\ SameIntent(receipt.call) /\ receipt.ok = "yes"
          /\ mode = "fuji-finalized" => receipt.number <= final
      BY <1>0, <1>10 DEF Reread, WaitInv
    <3>2. receipt.number <= Kept
      BY <1>3, <2>1, <3>1 DEF Kept, Modes
    <3>3. Kept' = Kept /\ At(receipt.number)' = At(receipt.number)
      BY <1>1, <1>5, <2>1 DEF Kept, At
    <3>4. /\ SettlementTypeOK' /\ receipt' = receipt /\ mode' = mode /\ step' = "again"
      BY <1>5, <2>1
    <3>5. WaitInv'
      BY <1>1, <2>1, <3>1, <3>2, <3>3, <3>4 DEF WaitInv, SameIntent
    <3> QED
      BY <1>2, <3>4, <3>5 DEF SettlementInv
  <2> QED
    BY <1>2, <1>4, <1>10, <2>1 DEF Reread, Codes, SettlementInv
<1>11. CASE CheckNetworkAgain
  BY <1>2, <1>4, <1>11 DEF CheckNetworkAgain, Codes, SettlementInv
<1>12. CASE GiveUp
  BY <1>2, <1>4, <1>12 DEF GiveUp, Codes, SettlementInv
<1> QED
  BY <1>6, <1>7, <1>8, <1>9, <1>10, <1>11, <1>12 DEF Read

LEMMA SettlementInvariance == SettlementSpec => []SettlementInv
<1>1. SettlementInit => SettlementInv
  BY SettlementInitInv
<1>2. SettlementInv /\ [SettlementNext]_settlementVars => SettlementInv'
  <2> SUFFICES ASSUME SettlementInv, [SettlementNext]_settlementVars
               PROVE  SettlementInv'
    OBVIOUS
  <2>1. CASE ChainStep
    BY <2>1, ChainStepInv
  <2>2. CASE Read \/ GiveUp
    BY <2>2, WaitStepInv
  <2>3. CASE UNCHANGED settlementVars
    BY <2>3 DEF settlementVars, SettlementInv, SettlementTypeOK, ChainInv, ChainTypeOK,
                OneOf, WaitInv, SameIntent, Kept, At
  <2> QED
    BY <2>1, <2>2, <2>3 DEF SettlementNext
<1> QED
  BY <1>1, <1>2, PTL DEF SettlementSpec

\* A wait is always in one of its states, and the receipt it holds is one.
THEOREM SettlementTyped == SettlementSpec => []SettlementTypeOK
<1>1. SettlementInv => SettlementTypeOK
  BY DEF SettlementInv
<1> QED
  BY <1>1, SettlementInvariance, PTL

\* The fate of the nonce, once kept, stands in every step of the chain.
LEMMA FateStands ==
    ASSUME SettlementInv, ChainStep
    PROVE  Fate' = Fate \/ (Fate = "open" /\ Fate' \in {"done", "undone"})
<1>1. /\ ChainInv' /\ OneOf(Nonce)'
      /\ Kept \in Nat /\ Kept' \in Nat /\ Kept <= Kept' /\ Kept' <= tip' /\ tip' \in Nat
      /\ \A g \in 1 .. Kept : chain'[g] = chain[g]
  BY KeptStands, ChainAssumptions DEF ChainInv, ChainTypeOK
<1>2. CASE Fate = "done"
  <2>1. PICK g \in 1 .. Kept : chain[g].call \in {"asked", "repriced"} /\ chain[g].ok = "yes"
    BY <1>2 DEF Fate, Funded, Executed
  <2>2. /\ g \in 1 .. Kept'
        /\ chain'[g].call \in {"asked", "repriced"} /\ chain'[g].ok = "yes"
    BY <1>1, <2>1
  <2>3. Funded(Kept)'
    BY <2>2 DEF Funded, Executed
  <2> QED
    BY <1>2, <2>3 DEF Fate
<1>3. CASE Fate = "undone"
  <2>1. PICK h \in 1 .. Kept : chain[h].call \in Nonce
    BY <1>3 DEF Fate
  <2>2. ~(chain[h].call \in {"asked", "repriced"} /\ chain[h].ok = "yes")
    BY <1>3, <2>1 DEF Fate, Funded, Executed
  <2>3. /\ h \in 1 .. Kept' /\ h \in 1 .. tip' /\ chain'[h] = chain[h]
    BY <1>1, <2>1
  <2>4. ~Funded(Kept)'
    <3> SUFFICES ASSUME NEW g \in 1 .. Kept',
                        chain'[g].call \in {"asked", "repriced"}, chain'[g].ok = "yes"
                 PROVE  FALSE
      BY DEF Funded, Executed
    <3>1. g \in 1 .. tip' /\ chain'[g].call \in Nonce
      BY <1>1 DEF Nonce
    <3>2. chain'[h].call \in Nonce
      BY <2>1, <2>3
    <3>3. g = h
      BY <1>1, <2>3, <3>1, <3>2 DEF OneOf
    <3> QED
      BY <2>2, <2>3, <3>3
  <2>5. \E g \in 1 .. Kept' : chain'[g].call \in Nonce
    BY <2>1, <2>3
  <2> QED
    BY <1>3, <2>4, <2>5 DEF Fate
<1>4. CASE Fate = "open"
  BY <1>4 DEF Fate
<1> QED
  BY <1>2, <1>3, <1>4 DEF Fate

\* Refinement: a wait reports success only for the requested call, executed
\* without reverting in a block that stands, whatever the chain replaces
\* meanwhile (settlement.ts, waitForSettlementEvidence).
THEOREM WaitKeepsPromise == SettlementSpec => SettlementKeepsPromise
<1>1. SettlementInit => Promise!Init
  BY DEF SettlementInit, ChainInit, WaitInit, Promise!Init, Fate, Told, Kept, Funded, Executed
<1>2. SettlementInv /\ [SettlementNext]_settlementVars => [Promise!Next]_<<Fate, Told>>
  <2> SUFFICES ASSUME SettlementInv, [SettlementNext]_settlementVars
               PROVE  [Promise!Next]_<<Fate, Told>>
    OBVIOUS
  <2>1. CASE ChainStep
    <3>1. Fate' = Fate \/ (Fate = "open" /\ Fate' \in {"done", "undone"})
      BY <2>1, FateStands
    <3>2. Told' = Told
      BY <2>1 DEF ChainStep, waitVars, Told
    <3> QED
      BY <3>1, <3>2 DEF Promise!Next, Promise!Settle
  <2>2. CASE Read \/ GiveUp
    <3>1. UNCHANGED chainVars /\ mode' = mode
      BY <2>2, WaitStepInv DEF Read, GiveUp, CheckNetwork, FindReceipt, PollFinalized,
            CheckCanonical, Reread, CheckNetworkAgain, End, Advance
    <3>2. Fate' = Fate
      BY <3>1 DEF chainVars, Fate, Kept, Funded, Executed
    <3>3. CASE CheckNetworkAgain /\ End("settled")
      <4>1. /\ step = "again" /\ receipt \in Receipt
            /\ SameIntent(receipt.call) /\ receipt.ok = "yes"
            /\ receipt.number <= Kept /\ At(receipt.number) = receipt
        BY <3>3 DEF CheckNetworkAgain, SettlementInv, WaitInv
      <4>2. Kept \in Nat /\ receipt.number \in 1 .. Kept
        BY <4>1, ChainAssumptions
           DEF SettlementInv, SettlementTypeOK, ChainTypeOK, Kept, Receipt, Heights
      <4>3. Funded(Kept)
        BY <4>1, <4>2 DEF Funded, Executed, At, SameIntent
      <4>4. Fate = "done" /\ Told = "waiting" /\ Told' = "settled"
        BY <3>3, <4>1, <4>3 DEF Fate, Told, End
      <4> QED
        BY <3>2, <4>4 DEF Promise!Next, Promise!Confirm
    <3>4. CASE /\ step # "ended"
               /\ step' # "ended" \/ code' # "settled"
      BY <3>2, <3>4 DEF Told, Promise!Next, Promise!GiveUp
    <3> QED
      BY <2>2, <3>3, <3>4
         DEF Read, GiveUp, Bounded, CheckNetwork, FindReceipt, PollFinalized,
             CheckCanonical, Reread, CheckNetworkAgain, End, Advance
  <2>3. CASE UNCHANGED settlementVars
    BY <2>3 DEF settlementVars, Fate, Told, Kept, Funded, Executed
  <2> QED
    BY <2>1, <2>2, <2>3 DEF SettlementNext
<1> QED
  BY <1>1, <1>2, SettlementInvariance, PTL
     DEF SettlementSpec, SettlementKeepsPromise, Promise!Spec

-----------------------------------------------------------------------------
(* The public read request.                                                *)

\* The escrow commits v at h, for a value other than "absent".
Commits(r, v, h) ==
    \/ r = "terms" /\ v = "terms" /\ Funded(h)
    \/ r = "document" /\ v \in Deliveries /\ Executed({v}, h)
    \/ r = "snapshot" /\ v = "original" /\ ~Rotated(h)
    \/ r = "snapshot" /\ v = "rotated" /\ Rotated(h)

Pinned == phase \in {"reading", "downloading", "rechecking"} \/ answer = "ok"
Verified == phase = "rechecking" \/ answer = "ok"

RequestInv ==
    /\ answer # "none" => phase = "answered"
    /\ began <= final
    /\ Pinned => /\ 1 <= pinned.number /\ pinned.number <= final
                 /\ began <= pinned.number
                 /\ pinned.number <= MaxHeight
    /\ Pinned => \A x \in {"job", "other"} :
                   reads[x] \notin {Unread, "absent"} => Commits(route, reads[x], pinned.number)
    /\ phase \in {"idle", "network", "pinning"} => reads = [x \in {"job", "other"} |-> Unread]
    /\ phase = "downloading" => /\ reads["job"] # Unread
                                /\ route # "snapshot" => reads["job"] # "absent"
    /\ Verified => /\ Commits(route, body, pinned.number)
                   /\ route = "snapshot" => body = "original"

PublicReadInv == ChainInv /\ RequestTypeOK /\ RequestInv

LEMMA CommitsWhatIsRead ==
    ASSUME NEW r \in Routes, NEW h, Committed(r, h) # "absent"
    PROVE  Commits(r, Committed(r, h), h)
<1>1. CASE r = "document"
  <2>1. PICK x \in Deliveries : Executed({x}, h)
    BY <1>1 DEF Committed
  <2> DEFINE v == CHOOSE d \in Deliveries : Executed({d}, h)
  <2>2. v \in Deliveries /\ Executed({v}, h)
    BY <2>1
  <2>3. Committed(r, h) = v
    BY <1>1, <2>1 DEF Committed
  <2> HIDE DEF v
  <2> QED
    BY <1>1, <2>2, <2>3 DEF Commits
<1>2. CASE r # "document"
  BY <1>2 DEF Committed, Commits, Routes
<1> QED
  BY <1>1, <1>2

\* Only one report is committed at a block.
LEMMA CommittedIsUnique ==
    ASSUME ChainInv, NEW r \in {"terms", "document"}, NEW v, NEW h \in 0 .. tip, Commits(r, v, h)
    PROVE  Committed(r, h) = v
<1>1. CASE r = "terms"
  BY <1>1 DEF Commits, Committed
<1>2. CASE r = "document"
  <2> DEFINE w == CHOOSE d \in Deliveries : Executed({d}, h)
  <2>1. v \in Deliveries /\ Executed({v}, h)
    BY <1>2 DEF Commits
  <2>2. w \in Deliveries /\ Executed({w}, h) /\ Committed(r, h) = w
    BY <1>2, <2>1 DEF Committed
  <2> HIDE DEF w
  <2>3. tip \in Nat /\ OneOf(Deliveries)
    BY ChainAssumptions DEF ChainInv, ChainTypeOK
  <2>4. PICK f, g \in 1 .. h : chain[f].call = v /\ chain[g].call = w
    BY <2>1, <2>2 DEF Executed
  <2>5. f = g
    BY <2>1, <2>2, <2>3, <2>4 DEF OneOf
  <2> QED
    BY <2>2, <2>4, <2>5
<1> QED
  BY <1>1, <1>2

\* What is committed by a block stays so as long as the block stands.
LEMMA CommitsStands ==
    ASSUME NEW r, NEW v, NEW h \in Nat, \A g \in 1 .. h : chain'[g] = chain[g],
           Commits(r, v, h)
    PROVE  Commits(r, v, h)'
<1>1. ASSUME NEW calls PROVE Executed(calls, h)' <=> Executed(calls, h)
  BY DEF Executed
<1>2. Funded(h)' <=> Funded(h)
  BY <1>1 DEF Funded
<1>3. Rotated(h)' <=> Rotated(h)
  BY <1>1 DEF Rotated
<1>4. Executed({v}, h)' <=> Executed({v}, h)
  BY <1>1
<1> QED
  BY <1>2, <1>3, <1>4 DEF Commits

LEMMA RotationStands ==
    ASSUME NEW h \in Nat, NEW k \in Nat, h <= k, Rotated(h)
    PROVE  Rotated(k)
<1>1. PICK g \in 1 .. h : chain[g].call \in {"rotate"} /\ chain[g].ok = "yes"
  BY DEF Rotated, Executed
<1>2. g \in 1 .. k
  BY <1>1
<1> QED
  BY <1>1, <1>2 DEF Rotated, Executed

LEMMA PublicReadInitInv == PublicReadInit => PublicReadInv
<1> SUFFICES ASSUME PublicReadInit PROVE PublicReadInv
  OBVIOUS
<1>1. ChainInv /\ final = 0
  BY ChainInitInv DEF PublicReadInit, ChainInit
<1>2. MaxHeight \in Nat /\ 0 \in 0 .. MaxHeight /\ 0 \in 0 .. MaxForks
  BY ChainAssumptions
<1>3. RequestTypeOK
  BY <1>2 DEF PublicReadInit, RequestInit, RequestTypeOK, NoPin, Phases, Answers, Unread
<1>4. RequestInv
  BY <1>1 DEF PublicReadInit, RequestInit, RequestInv, Pinned, Verified
<1> QED
  BY <1>1, <1>3, <1>4 DEF PublicReadInv

LEMMA ChainKeepsRequest ==
    ASSUME PublicReadInv, Mine \/ Finalise \/ Reorganise, UNCHANGED requestVars
    PROVE  PublicReadInv'
<1>1. ChainInv /\ RequestTypeOK /\ RequestInv
  BY DEF PublicReadInv
<1>2. /\ route' = route /\ phase' = phase /\ pinned' = pinned /\ reads' = reads
      /\ body' = body /\ answer' = answer /\ began' = began
  BY DEF requestVars
<1>3. /\ final \in Nat /\ tip \in Nat /\ final <= tip
      /\ began \in Nat /\ pinned.number \in Nat
  <2>1. final \in Nat /\ tip \in Nat /\ final <= tip
    BY <1>1, ChainAssumptions DEF ChainInv, ChainTypeOK
  <2>2. began \in 0 .. MaxHeight /\ pinned \in [number : 0 .. MaxHeight, fork : 0 .. MaxForks]
    BY <1>1 DEF RequestTypeOK
  <2>3. began \in Nat /\ pinned.number \in Nat
    BY <2>2, ChainAssumptions
  <2> QED
    BY <2>1, <2>3
<1>4. ChainInv' /\ Stand(final) /\ final <= final'
  <2>1. CASE Mine
    <3>1. ChainInv' /\ Stand(tip) /\ final' = final
      BY <1>1, <2>1, MineInv
    <3>2. tip' \in Nat
      BY <3>1, ChainAssumptions DEF ChainInv, ChainTypeOK
    <3> QED
      BY <1>3, <3>1, <3>2 DEF Stand
  <2>2. CASE Finalise
    <3>1. ChainInv' /\ Stand(tip) /\ final' = final + 1
      BY <1>1, <2>2, FinaliseInv
    <3>2. tip' \in Nat
      BY <3>1, ChainAssumptions DEF ChainInv, ChainTypeOK
    <3> QED
      BY <1>3, <3>1, <3>2 DEF Stand
  <2>3. CASE Reorganise
    <3>1. ChainInv' /\ Stand(final) /\ final' = final
      BY <1>1, <2>3, ReorganiseInv
    <3> QED
      BY <1>3, <3>1
  <2> QED
    BY <2>1, <2>2, <2>3
<1>5. final' \in Nat
  BY <1>4, ChainAssumptions DEF ChainInv, ChainTypeOK
<1>6. RequestTypeOK'
  BY <1>1, <1>2 DEF RequestTypeOK
<1>7. ASSUME NEW v, Pinned, Commits(route, v, pinned.number)
      PROVE  Commits(route, v, pinned.number)'
  <2>1. pinned.number <= final
    BY <1>1, <1>7 DEF RequestInv
  <2>2. \A g \in 1 .. pinned.number : chain'[g] = chain[g]
    BY <1>3, <1>4, <2>1 DEF Stand
  <2>3. PICK r, h : r = route /\ h = pinned.number
    OBVIOUS
  <2>4. h \in Nat /\ (\A g \in 1 .. h : chain'[g] = chain[g]) /\ Commits(r, v, h)
    BY <1>3, <1>7, <2>2, <2>3
  <2>5. Commits(r, v, h)'
    BY <2>4, CommitsStands
  <2> QED
    BY <1>2, <2>3, <2>5 DEF Commits
<1>8. (Pinned' <=> Pinned) /\ (Verified' <=> Verified) /\ (Verified => Pinned)
  BY <1>2 DEF Pinned, Verified
<1>9. Pinned => /\ 1 <= pinned.number /\ pinned.number <= final'
                /\ began <= pinned.number /\ pinned.number <= MaxHeight
  BY <1>1, <1>3, <1>4, <1>5 DEF RequestInv
<1>10. Pinned => \A x \in {"job", "other"} :
         reads[x] \notin {Unread, "absent"} => Commits(route, reads[x], pinned.number)'
  BY <1>1, <1>2, <1>7 DEF RequestInv
<1>11. Verified => Commits(route, body, pinned.number)' /\ (route = "snapshot" => body = "original")
  BY <1>1, <1>2, <1>7, <1>8 DEF RequestInv
<1>12. RequestInv'
  BY <1>1, <1>2, <1>3, <1>4, <1>5, <1>8, <1>9, <1>10, <1>11 DEF RequestInv
<1> QED
  BY <1>4, <1>6, <1>12 DEF PublicReadInv

LEMMA CommittedTyped ==
    ASSUME NEW r \in Routes, NEW h
    PROVE  Committed(r, h) \in Values
<1>1. CASE r = "document" /\ \E d \in Deliveries : Executed({d}, h)
  <2> DEFINE v == CHOOSE d \in Deliveries : Executed({d}, h)
  <2>1. v \in Deliveries
    BY <1>1
  <2>2. Committed(r, h) = v
    BY <1>1 DEF Committed
  <2> HIDE DEF v
  <2> QED
    BY <2>1, <2>2 DEF Values
<1>2. CASE ~(r = "document" /\ \E d \in Deliveries : Executed({d}, h))
  BY <1>2 DEF Committed, Values, Routes
<1> QED
  BY <1>1, <1>2

\* An answer other than the document leaves nothing to show.
LEMMA AnswerInv ==
    ASSUME PublicReadInv, NEW with \in Answers \ {"ok", "none"}, Answer(with), UNCHANGED chainVars,
           answer = "none"
    PROVE  PublicReadInv'
<1>1. /\ ChainInv /\ RequestTypeOK /\ RequestInv
      /\ chain' = chain /\ tip' = tip /\ final' = final /\ fork' = fork
  BY DEF PublicReadInv, chainVars
<1>2. ChainInv'
  BY <1>1 DEF ChainInv, ChainTypeOK, OneOf
<1>3. RequestTypeOK'
  BY <1>1 DEF Answer, RequestTypeOK, Phases
<1>4. ~Pinned' /\ ~Verified'
  BY DEF Answer, Pinned, Verified
<1>5. RequestInv'
  BY <1>1, <1>4 DEF Answer, RequestInv
<1> QED
  BY <1>2, <1>3, <1>5 DEF PublicReadInv

LEMMA RequestStepInv ==
    ASSUME PublicReadInv, RequestStep
    PROVE  PublicReadInv'
<1>1. /\ ChainInv /\ RequestTypeOK /\ RequestInv /\ UNCHANGED chainVars
      /\ chain' = chain /\ tip' = tip /\ final' = final /\ fork' = fork
  BY DEF PublicReadInv, RequestStep, chainVars
<1>2. ChainInv' /\ ChainTypeOK
  BY <1>1 DEF ChainInv, ChainTypeOK, OneOf
<1>3. final \in Nat /\ tip \in Nat /\ final <= tip /\ final <= MaxHeight
  BY <1>2, ChainAssumptions DEF ChainTypeOK
<1>4. ASSUME NEW r, NEW v, NEW h PROVE Commits(r, v, h)' <=> Commits(r, v, h)
  BY <1>1 DEF Commits, Funded, Rotated, Executed
<1>5. ASSUME NEW with \in Answers \ {"ok", "none"}, Answer(with), phase # "answered"
      PROVE  PublicReadInv'
  <2>1. answer = "none"
    BY <1>1, <1>5 DEF RequestInv
  <2> QED
    BY <1>1, <1>5, <2>1, AnswerInv
<1>6. phase # "answered" => answer = "none"
  BY <1>1 DEF RequestInv
<1>7. CASE Request
  <2>1. /\ phase = "idle" /\ phase' = "network" /\ began' = final /\ answer = "none"
        /\ route' = route /\ pinned' = pinned /\ reads' = reads /\ body' = body /\ answer' = answer
    BY <1>6, <1>7 DEF Request
  <2>2. RequestTypeOK'
    <3>1. began' \in 0 .. MaxHeight
      BY <1>3, <2>1, ChainAssumptions
    <3> QED
      BY <1>1, <2>1, <3>1 DEF RequestTypeOK, Phases
  <2>3. ~Pinned' /\ ~Verified' /\ answer' = "none" /\ phase' = "network"
    BY <2>1 DEF Pinned, Verified
  <2>4. reads = [x \in {"job", "other"} |-> Unread]
    BY <1>1, <2>1 DEF RequestInv
  <2>5. RequestInv'
    BY <1>1, <1>3, <2>1, <2>3, <2>4 DEF RequestInv
  <2> QED
    BY <1>2, <2>2, <2>5 DEF PublicReadInv
<1>8. CASE CheckChainId
  <2>1. phase = "network"
    BY <1>8 DEF CheckChainId
  <2>2. CASE Answer("503")
    BY <1>5, <2>1, <2>2 DEF Answers
  <2>3. CASE /\ phase' = "pinning"
             /\ UNCHANGED <<route, pinned, reads, body, answer, began>>
    <3>1. RequestTypeOK'
      BY <1>1, <2>3 DEF RequestTypeOK, Phases
    <3>2. RequestInv'
      BY <1>1, <1>6, <2>1, <2>3 DEF RequestInv, Pinned, Verified
    <3> QED
      BY <1>2, <3>1, <3>2 DEF PublicReadInv
  <2> QED
    BY <1>8, <2>2, <2>3 DEF CheckChainId
<1>9. CASE PinFinalized
  <2>1. phase = "pinning"
    BY <1>9 DEF PinFinalized
  <2>2. CASE Answer("503")
    BY <1>5, <2>1, <2>2 DEF Answers
  <2>3. CASE /\ final > 0
             /\ pinned' = [number |-> final, fork |-> chain[final].fork]
             /\ phase' = "reading"
             /\ UNCHANGED <<route, reads, body, answer, began>>
    <3>1. chain[final].fork \in 0 .. MaxForks /\ final \in 0 .. MaxHeight
      BY <1>2, <1>3, <2>3, ChainAssumptions DEF ChainTypeOK, Heights, Block
    <3>2. RequestTypeOK'
      BY <1>1, <2>3, <3>1 DEF RequestTypeOK, Phases
    <3>3. Pinned' /\ ~Verified' /\ answer' = "none"
      BY <1>6, <2>1, <2>3 DEF Pinned, Verified
    <3>4. /\ 1 <= pinned'.number /\ pinned'.number <= final' /\ began' <= pinned'.number
          /\ pinned'.number <= MaxHeight /\ began' <= final'
      BY <1>1, <1>3, <2>3 DEF RequestInv
    <3>5. \A x \in {"job", "other"} : reads'[x] = Unread
      BY <1>1, <2>1, <2>3 DEF RequestInv
    <3>6. RequestInv'
      BY <2>3, <3>3, <3>4, <3>5 DEF RequestInv
    <3> QED
      BY <1>2, <3>2, <3>6 DEF PublicReadInv
  <2> QED
    BY <1>9, <2>2, <2>3 DEF PinFinalized, Pin
<1>10. ASSUME NEW x \in {"job", "other"}, ReadEscrow(x)
      PROVE  PublicReadInv'
  <2>1. /\ phase = "reading" /\ reads[x] = Unread /\ answer = "none"
        /\ reads' = [reads EXCEPT ![x] = Committed(route, pinned.number)]
        /\ route' = route /\ phase' = phase /\ pinned' = pinned /\ body' = body
        /\ answer' = answer /\ began' = began
    BY <1>6, <1>10 DEF ReadEscrow
  <2>2. Committed(route, pinned.number) \in Values /\ route \in Routes
    BY <1>1, CommittedTyped DEF RequestTypeOK
  <2>3. reads' \in [{"job", "other"} -> Values \union {Unread}]
    BY <1>1, <2>1, <2>2 DEF RequestTypeOK
  <2>4. RequestTypeOK'
    BY <1>1, <2>1, <2>3 DEF RequestTypeOK
  <2>5. /\ 1 <= pinned.number /\ pinned.number <= final
        /\ began <= pinned.number /\ pinned.number <= MaxHeight /\ began <= final
        /\ \A y \in {"job", "other"} :
             reads[y] \notin {Unread, "absent"} => Commits(route, reads[y], pinned.number)
    BY <1>1, <2>1 DEF RequestInv, Pinned
  <2>6. Committed(route, pinned.number) # "absent" =>
          Commits(route, Committed(route, pinned.number), pinned.number)
    BY <2>2, CommitsWhatIsRead
  <2>7. ASSUME NEW y \in {"job", "other"}, reads'[y] \notin {Unread, "absent"}
        PROVE  Commits(route, reads'[y], pinned.number)
    <3>1. reads \in [{"job", "other"} -> Values \union {Unread}]
      BY <1>1 DEF RequestTypeOK
    <3>2. CASE y = x
      BY <2>1, <2>6, <2>7, <3>1, <3>2
    <3>3. CASE y # x
      BY <2>1, <2>5, <2>7, <3>1, <3>3
    <3> QED
      BY <3>2, <3>3
  <2>8. ~Verified' /\ phase' = "reading" /\ answer' = "none"
    BY <2>1 DEF Verified
  <2>9. ASSUME NEW y \in {"job", "other"}, reads'[y] \notin {Unread, "absent"}
        PROVE  Commits(route, reads[y], pinned.number)'
    <3>1. PICK r, v, h : r = route /\ v = reads'[y] /\ h = pinned.number
      OBVIOUS
    <3>2. Commits(r, v, h)'
      BY <1>4, <2>7, <2>9, <3>1
    <3> QED
      BY <2>1, <3>1, <3>2 DEF Commits
  <2>10. RequestInv'
    BY <1>1, <2>1, <2>5, <2>8, <2>9 DEF RequestInv
  <2> QED
    BY <1>2, <2>4, <2>10 DEF PublicReadInv
<1>11. CASE ReadAll
  <2>1. phase = "reading" /\ answer = "none" /\ \A x \in {"job", "other"} : reads[x] # Unread
    BY <1>6, <1>11 DEF ReadAll
  <2>2. CASE Answer("404")
    BY <1>5, <2>1, <2>2 DEF Answers
  <2>3. CASE /\ route = "snapshot" \/ "absent" \notin {reads["job"], reads["other"]}
             /\ phase' = "downloading"
             /\ UNCHANGED <<route, pinned, reads, body, answer, began>>
    <3>1. RequestTypeOK'
      BY <1>1, <2>3 DEF RequestTypeOK, Phases
    <3>2. Pinned /\ Pinned' /\ ~Verified'
      BY <2>1, <2>3 DEF Pinned, Verified
    <3>3. \A x \in {"job", "other"} : reads[x] \notin {Unread, "absent"} =>
             Commits(route, reads[x], pinned.number)'
      BY <1>1, <2>3, <3>2 DEF RequestInv, Commits, Funded, Rotated, Executed
    <3>4. RequestInv'
      BY <1>1, <2>1, <2>3, <3>2, <3>3 DEF RequestInv
    <3> QED
      BY <1>2, <3>1, <3>4 DEF PublicReadInv
  <2> QED
    BY <1>11, <2>2, <2>3 DEF ReadAll
<1>12. CASE Download
  <2>1. phase = "downloading" /\ answer = "none"
    BY <1>6, <1>12 DEF Download
  <2>2. PICK got :
          \/ Answer("502")
          \/ Answer("409")
          \/ /\ got = reads["job"] /\ (route = "snapshot" => got = "original")
             /\ body' = got /\ phase' = "rechecking"
             /\ UNCHANGED <<route, pinned, reads, answer, began>>
    <3>1. PICK got :
            \/ Answer("502") \/ Answer("409")
            \/ /\ IF route = "snapshot" THEN got = "original" /\ Current(got) ELSE Authentic(got)
               /\ body' = got /\ phase' = "rechecking"
               /\ UNCHANGED <<route, pinned, reads, answer, began>>
      BY <1>12, Zenon DEF Download
    <3> QED
      BY <3>1 DEF Current, Authentic
  <2>3. CASE Answer("502") \/ Answer("409")
    <3>1. {"502", "409"} \subseteq Answers \ {"ok", "none"} /\ phase # "answered"
      BY <2>1 DEF Answers
    <3> QED
      BY <1>5, <2>3, <3>1
  <2>4. CASE /\ got = reads["job"] /\ (route = "snapshot" => got = "original")
             /\ body' = got /\ phase' = "rechecking"
             /\ UNCHANGED <<route, pinned, reads, answer, began>>
    <3>1. reads["job"] \in Values \union {Unread} /\ reads["job"] \notin {Unread}
      BY <1>1, <2>1 DEF RequestTypeOK, RequestInv
    <3>2. RequestTypeOK'
      BY <1>1, <2>4, <3>1 DEF RequestTypeOK, Phases
    <3>3. reads["job"] # "absent"
      BY <1>1, <2>1, <2>4 DEF RequestInv
    <3>4. Pinned /\ Pinned'
      BY <2>1, <2>4 DEF Pinned
    <3>5. Commits(route, body', pinned.number)
      BY <1>1, <2>4, <3>1, <3>3, <3>4 DEF RequestInv
    <3>6. \A x \in {"job", "other"} : reads[x] \notin {Unread, "absent"} =>
             Commits(route, reads[x], pinned.number)'
      BY <1>1, <2>4, <3>4 DEF RequestInv, Commits, Funded, Rotated, Executed
    <3>7. Commits(route, body, pinned.number)'
      BY <1>1, <2>4, <3>5 DEF Commits, Funded, Rotated, Executed
    <3>8. RequestInv'
      BY <1>1, <2>1, <2>4, <3>4, <3>6, <3>7 DEF RequestInv
    <3> QED
      BY <1>2, <3>2, <3>8 DEF PublicReadInv
  <2> QED
    BY <2>2, <2>3, <2>4
<1>13. CASE Recheck
  <2>1. phase = "rechecking" /\ answer = "none" /\ (Answer("ok") \/ Answer("503"))
    BY <1>6, <1>13 DEF Recheck
  <2>2. CASE Answer("503")
    BY <1>5, <2>1, <2>2 DEF Answers
  <2>3. CASE Answer("ok")
    <3>1. /\ phase' = "answered" /\ answer' = "ok"
          /\ UNCHANGED <<route, pinned, reads, body, began>>
      BY <2>3 DEF Answer
    <3>2. RequestTypeOK'
      BY <1>1, <3>1 DEF RequestTypeOK, Phases, Answers
    <3>3. Pinned /\ Pinned' /\ Verified /\ Verified'
      BY <2>1, <3>1 DEF Pinned, Verified
    <3>4. \A x \in {"job", "other"} : reads[x] \notin {Unread, "absent"} =>
             Commits(route, reads[x], pinned.number)'
      BY <1>1, <3>1, <3>3 DEF RequestInv, Commits, Funded, Rotated, Executed
    <3>5. Commits(route, body, pinned.number)'
      BY <1>1, <3>1, <3>3 DEF RequestInv, Commits, Funded, Rotated, Executed
    <3>6. RequestInv'
      BY <1>1, <3>1, <3>3, <3>4, <3>5 DEF RequestInv
    <3> QED
      BY <1>2, <3>2, <3>6 DEF PublicReadInv
  <2> QED
    BY <2>1, <2>2, <2>3
<1>14. CASE Close
  BY <1>5, <1>14 DEF Close, Answers
<1> QED
  BY <1>7, <1>8, <1>9, <1>10, <1>11, <1>12, <1>13, <1>14 DEF RequestStep

LEMMA PublicReadInvariance == PublicReadSpec => []PublicReadInv
<1>1. PublicReadInit => PublicReadInv
  BY PublicReadInitInv
<1>2. PublicReadInv /\ [PublicReadNext]_publicReadVars => PublicReadInv'
  <2> SUFFICES ASSUME PublicReadInv, [PublicReadNext]_publicReadVars
               PROVE  PublicReadInv'
    OBVIOUS
  <2>1. CASE RequestStep
    BY <2>1, RequestStepInv
  <2>2. CASE (Mine \/ Finalise \/ Reorganise) /\ UNCHANGED requestVars
    BY <2>2, ChainKeepsRequest
  <2>3. CASE UNCHANGED publicReadVars
    <3>1. /\ chain' = chain /\ tip' = tip /\ final' = final /\ fork' = fork
          /\ route' = route /\ phase' = phase /\ pinned' = pinned /\ reads' = reads
          /\ body' = body /\ answer' = answer /\ began' = began
      BY <2>3 DEF publicReadVars
    <3>2. ChainInv'
      BY <3>1 DEF PublicReadInv, ChainInv, ChainTypeOK, OneOf
    <3>3. RequestTypeOK'
      BY <3>1 DEF PublicReadInv, RequestTypeOK
    <3>4. RequestInv'
      BY <3>1 DEF PublicReadInv, RequestInv, Pinned, Verified, Commits, Funded, Rotated, Executed
    <3> QED
      BY <3>2, <3>3, <3>4 DEF PublicReadInv
  <2> QED
    BY <2>1, <2>2, <2>3 DEF PublicReadNext
<1> QED
  BY <1>1, <1>2, PTL DEF PublicReadSpec

\* A request is always in one of its phases, and what it read is a value the
\* escrow can commit.
THEOREM RequestTyped == PublicReadSpec => []RequestTypeOK
<1>1. PublicReadInv => RequestTypeOK
  BY DEF PublicReadInv
<1> QED
  BY <1>1, PublicReadInvariance, PTL

\* Safety: what the public API serves is committed by the settled chain, for
\* good, and a snapshot is the one in force when the request began
\* (read-api.ts, the pinned block and its second check).
THEOREM ServedSettled == PublicReadSpec => []ServedIsSettled
<1>1. ASSUME PublicReadInv PROVE ServedIsSettled
  <2> SUFFICES ASSUME answer = "ok"
               PROVE  IF route = "snapshot" THEN ~Rotated(began) ELSE Committed(route, final) = body
    BY DEF ServedIsSettled
  <2>1. /\ ChainInv /\ RequestTypeOK /\ RequestInv /\ Pinned /\ Verified
        /\ Commits(route, body, pinned.number)
    BY <1>1 DEF PublicReadInv, Pinned, Verified, RequestInv
  <2>2. /\ began \in Nat /\ pinned.number \in Nat /\ final \in 0 .. tip /\ tip \in Nat
        /\ began <= pinned.number /\ pinned.number <= final /\ route \in Routes
    <3>1. final \in 0 .. tip /\ tip \in Nat
      BY <2>1, ChainAssumptions DEF ChainInv, ChainTypeOK
    <3>2. /\ began \in 0 .. MaxHeight /\ route \in Routes
          /\ pinned \in [number : 0 .. MaxHeight, fork : 0 .. MaxForks]
      BY <2>1 DEF RequestTypeOK
    <3>3. began <= pinned.number /\ pinned.number <= final
      BY <2>1 DEF RequestInv
    <3> QED
      BY <3>1, <3>2, <3>3, ChainAssumptions
  <2>3. CASE route = "snapshot"
    <3>1. ~Rotated(pinned.number)
      BY <2>1, <2>3 DEF RequestInv, Commits
    <3> QED
      BY <2>2, <2>3, <3>1, RotationStands
  <2>4. CASE route # "snapshot"
    <3>1. route \in {"terms", "document"}
      BY <2>2, <2>4 DEF Routes
    <3>2. 1 .. pinned.number \subseteq 1 .. final
      BY <2>2
    <3>3. Commits(route, body, final)
      BY <2>1, <2>4, <3>2 DEF Commits, Funded, Executed
    <3>4. Committed(route, final) = body
      BY <2>1, <2>2, <3>1, <3>3, CommittedIsUnique
    <3> QED
      BY <2>4, <3>4
  <2> QED
    BY <2>3, <2>4
<1> QED
  BY <1>1, PublicReadInvariance, PTL

-----------------------------------------------------------------------------
(* The wait and the request over one chain.                                *)

\* Composition: each component behaves over the shared chain as it does
\* alone, so that what is proved of it alone holds of both together.
THEOREM EachAsAlone == Spec => SettlementSpec /\ PublicReadSpec
<1>1. Init => SettlementInit /\ PublicReadInit
  BY DEF Init, SettlementInit, PublicReadInit
<1>2. [Next]_allVars => [SettlementNext]_settlementVars /\ [PublicReadNext]_publicReadVars
  <2> SUFFICES ASSUME [Next]_allVars
               PROVE  [SettlementNext]_settlementVars /\ [PublicReadNext]_publicReadVars
    OBVIOUS
  <2>1. CASE ChainStep /\ UNCHANGED requestVars
    BY <2>1 DEF ChainStep, SettlementNext, PublicReadNext
  <2>2. CASE (Read \/ GiveUp) /\ UNCHANGED requestVars
    <3>1. UNCHANGED chainVars
      BY <2>2 DEF Read, GiveUp, CheckNetwork, FindReceipt, PollFinalized, CheckCanonical,
                  Reread, CheckNetworkAgain
    <3>2. UNCHANGED publicReadVars
      BY <2>2, <3>1 DEF chainVars, requestVars, publicReadVars
    <3> QED
      BY <2>2, <3>2 DEF SettlementNext
  <2>3. CASE RequestStep /\ UNCHANGED waitVars
    BY <2>3 DEF RequestStep, chainVars, waitVars, settlementVars, PublicReadNext
  <2>4. CASE UNCHANGED allVars
    BY <2>4 DEF allVars, settlementVars, publicReadVars
  <2> QED
    BY <2>1, <2>2, <2>3, <2>4 DEF Next, SettlementNext
<1> QED
  BY <1>1, <1>2, PTL DEF Spec, SettlementSpec, PublicReadSpec

\* A reported job is funded in a block that stands, and what a request
\* begun afterwards pins is at or past that block.
ReadableInv ==
    /\ code = "settled" => step = "ended" /\ Funded(Kept)
    /\ after = "yes" => code = "settled" /\ mode = "fuji-finalized" /\ phase # "idle"
    /\ after = "yes" /\ route = "terms" =>
         /\ Pinned => Funded(pinned.number)
         /\ \A x \in {"job", "other"} : reads[x] # "absent"
         /\ answer # "404"

\* What is funded stays so in a longer chain whose blocks stand.
LEMMA FundedStands ==
    ASSUME NEW h \in Nat, NEW k \in Nat, h <= k, \A g \in 1 .. h : chain'[g] = chain[g],
           Funded(h)
    PROVE  \E g \in 1 .. k : chain'[g].call \in {"asked", "repriced"} /\ chain'[g].ok = "yes"
<1>1. PICK g \in 1 .. h : chain[g].call \in {"asked", "repriced"} /\ chain[g].ok = "yes"
  BY DEF Funded, Executed
<1>2. g \in 1 .. k
  BY <1>1
<1> QED
  BY <1>1, <1>2

LEMMA ChainKeepsReadable ==
    ASSUME SettlementInv, PublicReadInv, ReadableInv,
           ChainStep, UNCHANGED requestVars, UNCHANGED after
    PROVE  ReadableInv'
<1>1. /\ ChainInv' /\ UNCHANGED waitVars
      /\ Kept \in Nat /\ Kept' \in Nat /\ Kept <= Kept' /\ final <= final'
      /\ \A g \in 1 .. Kept : chain'[g] = chain[g]
  BY KeptStands
<1>2. /\ route' = route /\ phase' = phase /\ pinned' = pinned /\ reads' = reads
      /\ answer' = answer /\ after' = after
      /\ mode' = mode /\ step' = step /\ code' = code
  BY <1>1 DEF requestVars, waitVars
<1>3. Pinned' <=> Pinned
  BY <1>2 DEF Pinned
<1>4. code = "settled" => Funded(Kept)'
  BY <1>1, FundedStands DEF ReadableInv, Funded, Executed
<1>5. ASSUME after = "yes", route = "terms", Pinned
      PROVE  Funded(pinned.number)'
  <2>1. Funded(pinned.number) /\ mode = "fuji-finalized"
    BY <1>5 DEF ReadableInv
  <2>2. pinned.number \in Nat /\ pinned.number <= Kept /\ Kept = final
    <3>1. pinned \in [number : 0 .. MaxHeight, fork : 0 .. MaxForks] /\ pinned.number <= final
      BY <1>5 DEF PublicReadInv, RequestInv, RequestTypeOK
    <3>2. Kept = final
      BY <2>1 DEF Kept
    <3> QED
      BY <3>1, <3>2, ChainAssumptions
  <2>3. \A g \in 1 .. pinned.number : chain'[g] = chain[g]
    BY <1>1, <2>2
  <2>4. \E g \in 1 .. pinned.number : chain'[g].call \in {"asked", "repriced"} /\ chain'[g].ok = "yes"
    BY <2>1, <2>2, <2>3, FundedStands
  <2> QED
    BY <1>2, <2>4 DEF Funded, Executed
<1> QED
  BY <1>2, <1>3, <1>4, <1>5 DEF ReadableInv

LEMMA WaitKeepsReadable ==
    ASSUME SettlementInv, PublicReadInv, ReadableInv,
           Read \/ GiveUp, UNCHANGED requestVars, UNCHANGED after
    PROVE  ReadableInv'
<1>1. UNCHANGED chainVars
  BY WaitStepInv
<1>2. /\ chain' = chain /\ tip' = tip /\ final' = final /\ fork' = fork
      /\ route' = route /\ phase' = phase /\ pinned' = pinned /\ reads' = reads
      /\ body' = body /\ answer' = answer /\ began' = began /\ after' = after
  BY <1>1 DEF chainVars, requestVars
<1>3. /\ step # "ended" /\ mode' = mode
      /\ code' = code \/ step' = "ended"
      /\ code' = "settled" => code = "settled" \/ step = "again"
  BY DEF Read, GiveUp, Bounded, CheckNetwork, FindReceipt, PollFinalized,
         CheckCanonical, Reread, CheckNetworkAgain, End, Advance
<1>4. code # "settled" /\ after # "yes"
  BY <1>3 DEF ReadableInv
<1>5. ASSUME code' = "settled" PROVE step' = "ended" /\ Funded(Kept)'
  <2>1. step = "again" /\ step' = "ended"
    BY <1>3, <1>4, <1>5
  <2>2. /\ receipt \in Receipt /\ SameIntent(receipt.call) /\ receipt.ok = "yes"
        /\ receipt.number <= Kept /\ At(receipt.number) = receipt
    BY <2>1 DEF SettlementInv, WaitInv
  <2>3. Kept \in Nat /\ receipt.number \in 1 .. Kept
    BY <2>2, ChainAssumptions
       DEF SettlementInv, SettlementTypeOK, ChainTypeOK, Kept, Receipt, Heights
  <2>4. Funded(Kept)
    BY <2>2, <2>3 DEF Funded, Executed, At, SameIntent
  <2> QED
    BY <1>2, <1>3, <2>1, <2>4 DEF Funded, Executed, Kept
<1> QED
  BY <1>2, <1>4, <1>5 DEF ReadableInv

LEMMA RequestKeepsReadable ==
    ASSUME SettlementInv, PublicReadInv, ReadableInv,
           mode = "fuji-finalized", RequestStep, UNCHANGED waitVars,
           after' = IF phase = "idle" /\ code = "settled" THEN "yes" ELSE after
    PROVE  ReadableInv'
<1>1. RequestTypeOK /\ RequestInv
  BY DEF PublicReadInv
<1>2. /\ chain' = chain /\ tip' = tip /\ final' = final /\ fork' = fork
      /\ mode' = mode /\ step' = step /\ receipt' = receipt /\ code' = code
  BY DEF RequestStep, chainVars, waitVars
<1>3. route' = route /\ phase' # "idle" /\ (phase = "idle" => phase' = "network")
  BY DEF RequestStep, Request, CheckChainId, PinFinalized, ReadEscrow, ReadAll, Download,
         Recheck, Close, Answer
<1>4. \A h : Funded(h)' <=> Funded(h)
  BY <1>2 DEF Funded, Executed
<1>5. ASSUME after' = "yes"
      PROVE  code = "settled" /\ Funded(final)
  BY <1>1, <1>5 DEF ReadableInv, Kept
<1>6. ASSUME after' = "yes", route = "terms"
      PROVE  /\ Pinned' => Funded(pinned.number')
             /\ \A x \in {"job", "other"} : reads'[x] # "absent"
             /\ answer' # "404"
  <2>1. /\ phase = "idle" \/ after = "yes"
        /\ Pinned => Funded(pinned.number)
        /\ \A x \in {"job", "other"} : reads[x] # "absent"
        /\ answer # "404"
    <3>1. CASE after = "yes"
      BY <1>1, <1>6, <3>1 DEF ReadableInv
    <3>2. CASE after # "yes"
      <4>1. phase = "idle"
        BY <1>6, <3>2
      <4>2. answer = "none" /\ reads = [x \in {"job", "other"} |-> Unread]
        BY <1>1, <4>1 DEF RequestInv
      <4> QED
        BY <4>1, <4>2 DEF Pinned, Unread
    <3> QED
      BY <3>1, <3>2
  <2>2. CASE Request
    BY <2>1, <2>2 DEF Request, Pinned
  <2>3. CASE CheckChainId
    BY <2>1, <2>3 DEF CheckChainId, Answer, Pinned
  <2>4. CASE PinFinalized
    BY <1>5, <1>6, <2>1, <2>4 DEF PinFinalized, Pin, Answer, Pinned
  <2>5. ASSUME NEW y \in {"job", "other"}, ReadEscrow(y)
        PROVE  /\ Pinned' => Funded(pinned.number')
               /\ \A x \in {"job", "other"} : reads'[x] # "absent"
               /\ answer' # "404"
    <3>1. /\ phase = "reading" /\ reads' = [reads EXCEPT ![y] = Committed(route, pinned.number)]
          /\ phase' = phase /\ pinned' = pinned /\ answer' = answer
      BY <2>5 DEF ReadEscrow
    <3>2. Committed(route, pinned.number) = "terms"
      BY <1>6, <2>1, <3>1 DEF Pinned, Committed
    <3>3. reads \in [{"job", "other"} -> Values \union {Unread}]
      BY <1>1 DEF RequestTypeOK
    <3>4. \A x \in {"job", "other"} : reads'[x] # "absent"
      BY <2>1, <3>1, <3>2, <3>3
    <3> QED
      BY <2>1, <3>1, <3>4 DEF Pinned
  <2>6. CASE ReadAll
    BY <1>6, <2>1, <2>6 DEF ReadAll, Answer, Pinned
  <2>7. CASE Download
    <3>1. /\ phase = "downloading" /\ pinned' = pinned /\ reads' = reads
          /\ \/ answer' \in {"502", "409"} /\ phase' = "answered"
             \/ answer' = answer /\ phase' = "rechecking"
      BY <2>7 DEF Download, Answer
    <3> QED
      BY <2>1, <3>1 DEF Pinned
  <2>8. CASE Recheck
    BY <2>1, <2>8 DEF Recheck, Answer, Pinned
  <2>9. CASE Close
    BY <2>1, <2>9 DEF Close, Answer, Pinned
  <2> QED
    BY <2>2, <2>3, <2>4, <2>5, <2>6, <2>7, <2>8, <2>9 DEF RequestStep
<1>7. code' = "settled" => step' = "ended" /\ Funded(Kept)'
  BY <1>1, <1>2 DEF ReadableInv, Kept, Funded, Executed
<1>8. after' = "yes" /\ route' = "terms" /\ Pinned' => Funded(pinned.number)'
  <2>1. PICK h : h = pinned.number'
    OBVIOUS
  <2>2. after' = "yes" /\ route' = "terms" /\ Pinned' => Funded(h)'
    BY <1>3, <1>4, <1>6, <2>1
  <2> QED
    BY <2>1, <2>2 DEF Funded, Executed
<1> QED
  BY <1>2, <1>3, <1>5, <1>6, <1>7, <1>8 DEF ReadableInv

\* Safety, across the page and the API: a job whose funding was reported
\* settled is found by every later request for its terms (settlement.ts
\* waits for the finalized block, read-api.ts pins it).
THEOREM SettledJobIsFound == Spec => []SettledIsReadable
<1>1. Init => ReadableInv
  BY DEF Init, SettlementInit, WaitInit, ReadableInv
<1>2. SettlementInv /\ PublicReadInv /\ ReadableInv /\ [Next]_allVars => ReadableInv'
  <2> SUFFICES ASSUME SettlementInv, PublicReadInv, ReadableInv, [Next]_allVars
               PROVE  ReadableInv'
    OBVIOUS
  <2>1. CASE SettlementNext /\ UNCHANGED requestVars /\ UNCHANGED after
    BY <2>1, ChainKeepsReadable, WaitKeepsReadable DEF SettlementNext
  <2>2. CASE /\ mode = "fuji-finalized" /\ RequestStep /\ UNCHANGED waitVars
             /\ after' = IF phase = "idle" /\ code = "settled" THEN "yes" ELSE after
    BY <2>2, RequestKeepsReadable
  <2>3. CASE UNCHANGED allVars
    BY <2>3 DEF allVars, ReadableInv, Pinned, Kept, Funded, Executed
  <2> QED
    BY <2>1, <2>2, <2>3 DEF Next
<1>3. ReadableInv => SettledIsReadable
  BY DEF ReadableInv, SettledIsReadable
<1> QED
  BY <1>1, <1>2, <1>3, EachAsAlone, SettlementInvariance, PublicReadInvariance, PTL DEF Spec
=============================================================================
