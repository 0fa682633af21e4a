------------------------------ MODULE Finality ------------------------------
(***************************************************************************)
(* The page waits for its own transaction while the public API answers a   *)
(* request, both over one chain that replaces unsettled blocks.  They meet *)
(* in the chain only: the API knows nothing of the wait.                   *)
(***************************************************************************)
EXTENDS Settlement, PublicRead

VARIABLE after  \* history: the request began after the wait reported success

allVars == <<chain, tip, final, fork, mode, step, receipt, code,
             route, phase, pinned, reads, body, answer, began, after>>

Init == SettlementInit /\ RequestInit /\ after = "no"

\* The API runs on Fuji, never on the local chain.
Next ==
    \/ SettlementNext /\ UNCHANGED requestVars /\ UNCHANGED after
    \/ /\ mode = "fuji-finalized" /\ RequestStep /\ UNCHANGED waitVars
       /\ after' = IF phase = "idle" /\ code = "settled" THEN "yes" ELSE after

Spec == Init /\ [][Next]_allVars /\ WF_allVars(GiveUp /\ UNCHANGED <<requestVars, after>>)

TypeOK == SettlementTypeOK /\ RequestTypeOK /\ after \in {"no", "yes"}

\* Safety, across both components: once the page was told that its job is
\* funded, a request for the job's terms does not answer that there is no
\* such job.
SettledIsReadable == after = "yes" /\ route = "terms" => answer # "404"
=============================================================================
