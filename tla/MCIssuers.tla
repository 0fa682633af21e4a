----------------------------- MODULE MCIssuers ------------------------------
(***************************************************************************)
(* The two allocators of credential indexes, each alone, over two leaves.  *)
(* "hosted": three tickets, t1 presented by two calls with two             *)
(* applications.  "registry": two people run init while two credentials    *)
(* are asked for and the first index, allocated or not yet, is revoked by  *)
(* two people.                                                             *)
(***************************************************************************)
EXTENDS CredentialAllocation, IssuerRegistry

CONSTANTS t1, t2, t3, d1, d2, c1, c3, c4, c5, i1, i2, a1, a2, r1, r2

MCTicketOf == [c \in Calls |-> CASE c \in {c1, c3} -> t1
                                 [] c = c4 -> t2
                                 [] OTHER -> t3]

MCDigestOf == [c \in Calls |-> IF c = c3 THEN d2 ELSE d1]

MCOp == [c \in Commands |-> CASE c \in {i1, i2} -> "init"
                              [] c \in {a1, a2} -> "issue"
                              [] OTHER -> "revoke"]

MCHolder == [c \in Commands |-> c]

MCTarget == [c \in Commands |-> 0]

VARIABLE allocator

MCInit == Init /\ RegistryInit /\ allocator \in {"hosted", "registry"}

InRegistry == allocator = "registry" /\ UNCHANGED <<vars, allocator>>

MCNext ==
    \/ allocator = "hosted" /\ Next /\ UNCHANGED <<registryVars, allocator>>
    \/ InRegistry /\ PowerLoss
    \/ \E c \in Commands : InRegistry /\ Command(c)
    \/ \E c \in Commands : InRegistry /\ Stop(c)

MCSpec == MCInit /\ [][MCNext]_<<vars, registryVars, allocator>>
=============================================================================
