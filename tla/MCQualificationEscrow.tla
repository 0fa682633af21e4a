----------------------- MODULE MCQualificationEscrow -----------------------
(***************************************************************************)
(* Small instances of the escrow: three accounts, a holder with a          *)
(* credential that expires early, a revocable one and a rogue issuer.      *)
(* "one": a single job in detail.  "two": two jobs of the smallest         *)
(* amounts sharing the pool, without documents, strays or a second root.   *)
(***************************************************************************)
EXTENDS QualificationEscrow

CONSTANTS alice, wanda, ops, h1, h2, doc

MCFunds == [a \in Accounts |-> IF a = alice THEN 3 ELSE IF a = wanda THEN 1
                                                   ELSE 0]

MCCredentials ==
    {[holder |-> h1, issuer |-> IssuerKey, index |-> 0, class |-> 7,
      expiry |-> 1],
     [holder |-> h2, issuer |-> IssuerKey, index |-> 1, class |-> 7,
      expiry |-> 3],
     [holder |-> h1, issuer |-> h1, index |-> 1, class |-> 7, expiry |-> 3]}

\* h1 once bound a proof to the zero address, h2 one to the contract itself.
MCWallets == [h \in Holders |-> IF h = h1 THEN {wanda, ZeroAddress}
                                          ELSE {alice, EscrowAddress}]

\* Two usable windows and one whose deadlines are out of order.
MCWindows == {<<1, 2, 3>>, <<2, 3, 4>>, <<2, 2, 3>>}

VARIABLE instance

Narrower ==
    /\ rootEpoch' <= 2
    /\ nextJob' # nextJob => jobs'[nextJob'].amount = 1
    /\ jobs' = jobs => balance' = balance
    /\ UNCHANGED <<termsReferences, documentDigests>>

MCInit == Init /\ instance \in {"one", "two"}
Within == UNCHANGED instance /\ IF instance = "one" THEN nextJob' <= 1 ELSE Narrower

MCNext ==
    \/ Tick /\ Within
    \/ \E sender \in Accounts, root \in SUBSET Indexes : SetRoot(sender, root) /\ Within
    \/ \E a \in Accounts, n \in Gifts : Donate(a, n) /\ Within
    \/ AnyCreate /\ Within
    \/ \E id \in JobIds, s \in Proofs : Accept(id, s) /\ Within
    \/ AnySubmit /\ Within
    \/ AnyRelease /\ Within

MCSpec == MCInit /\ [][MCNext]_<<vars, instance>> /\ Exits
=============================================================================
