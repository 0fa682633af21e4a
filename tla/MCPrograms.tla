----------------------------- MODULE MCPrograms -----------------------------
(***************************************************************************)
(* The storage clients of a page and the programs run by hand or on a      *)
(* developer's machine.  They share no state: a behaviour is of one.       *)
(***************************************************************************)
EXTENDS GatewayStorage, SwarmStorage, LocalServer, Workbench, Deployment, OperatorApproval

CONSTANTS alice, bob, u1, u2, r1, r2, r3, d1, d2, d3, w1, w2, s1, s2, o1, o2

VARIABLE program

programVars == <<gatewayVars, swarmVars, serverVars, workbenchVars, deploymentVars, approvalVars>>

Init ==
    /\ GatewayInit /\ SwarmInit /\ ServerInit /\ WorkbenchInit /\ DeploymentInit /\ ApprovalInit
    /\ program \in {"swarm-gateway", "swarm-id", "pilot", "workbench", "deployment", "approval"}

Only(p, next, others) == program = p /\ next /\ UNCHANGED <<program, others>>

Next ==
    \/ Only("swarm-gateway", GatewayNext,
            <<swarmVars, serverVars, workbenchVars, deploymentVars, approvalVars>>)
    \/ Only("swarm-id", SwarmNext,
            <<gatewayVars, serverVars, workbenchVars, deploymentVars, approvalVars>>)
    \/ Only("pilot", ServerNext,
            <<gatewayVars, swarmVars, workbenchVars, deploymentVars, approvalVars>>)
    \/ Only("workbench", WorkbenchNext,
            <<gatewayVars, swarmVars, serverVars, deploymentVars, approvalVars>>)
    \/ Only("deployment", DeploymentNext,
            <<gatewayVars, swarmVars, serverVars, workbenchVars, approvalVars>>)
    \/ Only("approval", ApprovalNext,
            <<gatewayVars, swarmVars, serverVars, workbenchVars, deploymentVars>>)

Spec == Init /\ [][Next]_<<programVars, program>>

\* What is left to happen after the page closed is only that calls fail.
StillOpen == ~closed \/ Active # {}
=============================================================================
