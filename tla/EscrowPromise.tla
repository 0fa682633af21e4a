--------------------------- MODULE EscrowPromise ---------------------------
(***************************************************************************)
(* What the escrow promises about money, whatever its deadlines and        *)
(* proofs: each job's deposit sits in a vault of its own; at most one      *)
(* worker is ever assigned; the vault is emptied once, to the client and   *)
(* the assigned worker only, and never to a worker before one is assigned. *)
(***************************************************************************)
EXTENDS Integers

CONSTANTS JobIds, Owners, Workers, Nobody

VARIABLES
    vault,    \* what each job still holds
    client,   \* who funded each job
    worker,   \* who may be paid by it
    wallet,   \* what each owner holds outside the vaults
    tips      \* tokens sent to the contract outside any job

pvars == <<vault, client, worker, wallet, tips>>

PInit ==
    /\ vault = [j \in JobIds |-> 0]
    /\ client = [j \in JobIds |-> Nobody]
    /\ worker = [j \in JobIds |-> Nobody]
    /\ wallet \in [Owners -> Nat]
    /\ tips = 0

Fund(j, c, n) ==
    /\ client[j] = Nobody
    /\ client' = [client EXCEPT ![j] = c]
    /\ vault' = [vault EXCEPT ![j] = n]
    /\ wallet' = [wallet EXCEPT ![c] = @ - n]
    /\ UNCHANGED <<worker, tips>>

Assign(j, w) ==
    /\ vault[j] > 0
    /\ worker[j] = Nobody
    /\ worker' = [worker EXCEPT ![j] = w]
    /\ UNCHANGED <<vault, client, wallet, tips>>

\* share goes to the worker, the rest to the client.
Release(j, share) ==
    /\ vault[j] > 0
    /\ share > 0 => worker[j] \in Owners
    /\ vault' = [vault EXCEPT ![j] = 0]
    /\ wallet' = [o \in Owners |->
                    wallet[o] + (IF o = worker[j] THEN share ELSE 0)
                              + (IF o = client[j] THEN vault[j] - share
                                                  ELSE 0)]
    /\ UNCHANGED <<client, worker, tips>>

Tip(o, n) ==
    /\ wallet' = [wallet EXCEPT ![o] = @ - n]
    /\ tips' = tips + n
    /\ UNCHANGED <<vault, client, worker>>

PNext ==
    \/ \E j \in JobIds, c \in Owners : \E n \in 1..wallet[c] : Fund(j, c, n)
    \/ \E j \in JobIds, w \in Workers : Assign(j, w)
    \/ \E j \in JobIds : \E share \in 0..vault[j] : Release(j, share)
    \/ \E o \in Owners : \E n \in 1..wallet[o] : Tip(o, n)

PSpec == PInit /\ [][PNext]_pvars

=============================================================================
