------------------------ MODULE QualificationEscrow ------------------------
(***************************************************************************)
(* The escrow contract (contracts/src/QualificationEscrow.sol) on one      *)
(* chain: jobs, the pooled token balance, the issuer's revocation root and *)
(* block time.  A transaction is one atomic step; one that reverts leaves  *)
(* the state alone and is the absence of a step, so every require/revert   *)
(* is a conjunct of an action's guard.                                     *)
(*                                                                         *)
(* A revocation root stands for the set of credential indexes it revokes,  *)
(* a nullifier for the pair of the holder's secret and the job's context   *)
(* it hashes, and a proof for the public inputs it was made for: a proof   *)
(* verifies exactly when Provable holds of them (prover/circuit.go).       *)
(***************************************************************************)
EXTENDS Integers, FiniteSets

CONSTANTS
    Accounts,       \* addresses somebody can sign for
    EscrowAddress,  \* the contract's own address: nobody signs for it
    ZeroAddress,    \* the zero address
    Issuer,         \* the account that deployed the contract
    Arbitrator,     \* the account that resolves disputes
    Funds,          \* tokens of each account before the first job
    Amounts,        \* payments a client may offer
    Gifts,          \* sizes of stray transfers to the contract
    Fees,           \* what the token may withhold from a deposit
    Shares,         \* what an arbitrator may award a worker
    Classes,        \* qualification classes
    Indexes,        \* credential indexes, the leaves of the status tree
    Holders,        \* holder secrets
    Credentials,    \* every credential anybody ever signs
    IssuerKey,      \* the public key in issuerX, issuerY
    Wallets,        \* the recipients each holder ever binds to a proof
    Windows,        \* <<accept, submit, review>> deadlines clients ask for
    Documents,      \* nonzero content references and digests
    NoDocument,     \* the zero bytes32
    MaxJobs,        \* bound on jobs
    MaxEpoch,       \* bound on root updates
    MaxTime         \* bound on block time

JobIds == 1..MaxJobs
Times == 0..MaxTime
Addresses == Accounts \cup {EscrowAddress, ZeroAddress}
Hashes == Documents \cup {NoDocument}
Nullifiers == Holders \X JobIds
Status == {"Open", "Accepted", "Submitted", "Paid", "Refunded", "Disputed",
           "Resolved"}

\* What a job record holds; the mapping's default is NoJob.
Job == [client: Addresses, worker: Addresses, amount: Nat,
        qualificationClass: Classes, acceptBefore: Times, submitBefore: Times,
        reviewBefore: Times, status: Status, terms: Hashes,
        deliverable: Hashes]

NoClass == CHOOSE c \in Classes : TRUE

NoJob == [client |-> ZeroAddress, worker |-> ZeroAddress, amount |-> 0,
          qualificationClass |-> NoClass, acceptBefore |-> 0,
          submitBefore |-> 0, reviewBefore |-> 0, status |-> "Open",
          terms |-> NoDocument, deliverable |-> NoDocument]

ASSUME ConstantAssumptions ==
    /\ EscrowAddress \notin Accounts
    /\ ZeroAddress \notin Accounts \cup {EscrowAddress}
    /\ Issuer \in Accounts
    /\ Arbitrator \in Accounts
    /\ Funds \in [Accounts -> Nat]
    /\ Amounts \subseteq Nat
    /\ Fees \subseteq Nat /\ Gifts \subseteq Nat /\ Shares \subseteq Nat
    /\ Classes # {}
    /\ Credentials \subseteq [holder: Holders, issuer: {IssuerKey} \cup Holders,
                              index: Indexes, class: Classes, expiry: Times]
    /\ Wallets \in [Holders -> SUBSET Addresses]
    /\ Windows \subseteq Times \X Times \X Times
    /\ NoDocument \notin Documents
    /\ MaxJobs \in Nat /\ MaxEpoch \in Nat /\ MaxTime \in Nat

VARIABLES
    now,                \* block.timestamp
    revocationRoot,     \* the indexes the current root revokes
    rootEpoch,
    nextJob,
    jobs,
    consumedNullifiers,
    documentDigests,
    termsReferences,
    balance             \* the token's balanceOf

jobVars == <<nextJob, jobs, consumedNullifiers, documentDigests,
             termsReferences>>
rootVars == <<revocationRoot, rootEpoch>>
vars == <<now, rootVars, jobVars, balance>>

-----------------------------------------------------------------------------
(* Proofs of qualification.                                                *)

\* The nine public inputs accept reads: both issuer coordinates as one key,
\* the context as the job it is computed from, the tag left to Wallets.
Statement == [issuer: {IssuerKey} \cup Holders, root: SUBSET Indexes,
              class: Classes, deadline: Times, context: JobIds,
              recipient: Addresses, nullifier: Nullifiers]

\* The circuit's relation: the holder of a credential, signed by the stated
\* issuer and absent from the stated root, binds the job, a recipient and a
\* deadline within the credential's life.
Provable(c, s) ==
    /\ s.issuer = c.issuer
    /\ s.class = c.class
    /\ s.deadline <= c.expiry
    /\ c.index \notin s.root
    /\ s.nullifier = <<c.holder, s.context>>
    /\ s.recipient \in Wallets[c.holder] /\ s.recipient # ZeroAddress

\* The statements verifyProof returns on: nobody else's proof verifies.
Proofs == {s \in Statement : \E c \in Credentials : Provable(c, s)}

-----------------------------------------------------------------------------
(* The token.                                                              *)

\* The safeTransfers of one call: toWorker and toClient tokens of job id
\* leave the pool.  The token refuses the zero address and an overdraft.
Payout(id, toWorker, toClient) ==
    /\ toWorker # 0 => jobs[id].worker # ZeroAddress
    /\ toClient # 0 => jobs[id].client # ZeroAddress
    /\ balance[EscrowAddress] >= toWorker + toClient
    /\ balance' = [a \in DOMAIN balance |->
         balance[a]
           - (IF a = EscrowAddress THEN toWorker + toClient ELSE 0)
           + (IF a = jobs[id].worker THEN toWorker ELSE 0)
           + (IF a = jobs[id].client THEN toClient ELSE 0)]

\* safeTransferFrom: the token may withhold fee of what the sender pays.
Deposit(sender, amount, fee) ==
    /\ balance[sender] >= amount
    /\ balance' = [balance EXCEPT ![sender] = @ - amount,
                                  ![EscrowAddress] = @ + (amount - fee)]

\* Anybody may send tokens to the contract without calling it.
Donate(a, n) ==
    /\ Deposit(a, n, 0)
    /\ UNCHANGED <<now, rootVars, jobVars>>

-----------------------------------------------------------------------------
Init ==
    /\ now = 0
    /\ revocationRoot = {}
    /\ rootEpoch = 1
    /\ nextJob = 0
    /\ jobs = [j \in JobIds |-> NoJob]
    /\ consumedNullifiers = {}
    /\ documentDigests = [j \in JobIds |-> NoDocument]
    /\ termsReferences = [j \in JobIds |-> NoDocument]
    /\ balance = [a \in Accounts \cup {EscrowAddress} |->
                    IF a = EscrowAddress THEN 0 ELSE Funds[a]]

\* The next block's timestamp; several transactions may share a block.
Tick ==
    /\ now < MaxTime
    /\ now' = now + 1
    /\ UNCHANGED <<rootVars, jobVars, balance>>

\* setRoot: any root, also one published before.
SetRoot(sender, root) ==
    /\ sender = Issuer
    /\ rootEpoch < MaxEpoch
    /\ revocationRoot' = root
    /\ rootEpoch' = rootEpoch + 1
    /\ UNCHANGED <<now, jobVars, balance>>

\* window: the accept, submit and review deadlines.
ValidTerms(amount, terms, window) ==
    /\ amount # 0
    /\ terms # NoDocument
    /\ now < window[1] /\ window[1] < window[2] /\ window[2] < window[3]

\* The balance must grow by the amount, whatever the token withholds.
MutExactDeposit(amount, fee) == TRUE
ExactDeposit(amount, fee) == amount - fee = amount

\* _createJob.
FundJob(sender, amount, class, window, terms, fee) ==
    /\ nextJob < MaxJobs
    /\ ValidTerms(amount, terms, window)
    /\ nextJob' = nextJob + 1
    /\ jobs' = [jobs EXCEPT ![nextJob + 1] =
                 [client |-> sender, worker |-> ZeroAddress, amount |-> amount,
                  qualificationClass |-> class, acceptBefore |-> window[1],
                  submitBefore |-> window[2], reviewBefore |-> window[3],
                  status |-> "Open", terms |-> terms,
                  deliverable |-> NoDocument]]
    /\ Deposit(sender, amount, fee)
    /\ ExactDeposit(amount, fee)
    /\ UNCHANGED <<now, rootVars, consumedNullifiers, documentDigests>>

CreateJob(sender, amount, class, window, terms, fee) ==
    /\ FundJob(sender, amount, class, window, terms, fee)
    /\ UNCHANGED termsReferences

CreateJobWithDocument(sender, amount, class, window, terms, fee, ref) ==
    /\ ref # NoDocument
    /\ FundJob(sender, amount, class, window, terms, fee)
    /\ termsReferences' = [termsReferences EXCEPT ![nextJob + 1] = ref]

\* The require lines of accept on the proof's public inputs.
MutCurrentRoot(s) == TRUE
CurrentRoot(s) == s.root = revocationRoot

MadeFor(id, s) ==
    /\ s.class = jobs[id].qualificationClass
    /\ s.context = id

AcceptableStatement(id, s) ==
    /\ now < jobs[id].acceptBefore /\ now <= s.deadline
    /\ s.issuer = IssuerKey
    /\ CurrentRoot(s)
    /\ MadeFor(id, s)
    /\ s.deadline <= jobs[id].acceptBefore
    /\ s.recipient # ZeroAddress
    /\ s.nullifier \notin consumedNullifiers

\* accept: anybody relays, the proof alone names the worker.
Accept(id, s) ==
    /\ jobs[id].client # ZeroAddress
    /\ jobs[id].status = "Open"
    /\ AcceptableStatement(id, s)
    /\ s \in Proofs
    /\ consumedNullifiers' = consumedNullifiers \cup {s.nullifier}
    /\ jobs' = [jobs EXCEPT ![id].worker = s.recipient,
                            ![id].status = "Accepted"]
    /\ UNCHANGED <<now, rootVars, nextJob, documentDigests, termsReferences,
                   balance>>

\* _submit.
Deliver(sender, id, ref) ==
    /\ sender = jobs[id].worker
    /\ jobs[id].status = "Accepted"
    /\ now <= jobs[id].submitBefore
    /\ ref # NoDocument
    /\ jobs' = [jobs EXCEPT ![id].deliverable = ref,
                            ![id].status = "Submitted"]
    /\ UNCHANGED <<now, rootVars, nextJob, consumedNullifiers, termsReferences,
                   balance>>

Submit(sender, id, ref) ==
    /\ Deliver(sender, id, ref)
    /\ UNCHANGED documentDigests

SubmitDocument(sender, id, ref, digest) ==
    /\ digest # NoDocument
    /\ Deliver(sender, id, ref)
    /\ documentDigests' = [documentDigests EXCEPT ![id] = digest]

\* What every call that moves a job to its next status leaves alone.
Transition(id, from, to) ==
    /\ jobs[id].status = from
    /\ jobs' = [jobs EXCEPT ![id].status = to]
    /\ UNCHANGED <<now, rootVars, nextJob, consumedNullifiers, documentDigests,
                   termsReferences>>

ApproveAndPay(sender, id) ==
    /\ sender = jobs[id].client
    /\ Transition(id, "Submitted", "Paid")
    /\ Payout(id, jobs[id].amount, 0)

MutReviewOver(id) == now >= jobs[id].reviewBefore
ReviewOver(id) == now > jobs[id].reviewBefore

ClaimAfterReview(sender, id) ==
    /\ sender = jobs[id].worker
    /\ ReviewOver(id)
    /\ Transition(id, "Submitted", "Paid")
    /\ Payout(id, jobs[id].amount, 0)

ReviewOpen(id) == now <= jobs[id].reviewBefore

Dispute(sender, id) ==
    /\ sender = jobs[id].client
    /\ ReviewOpen(id)
    /\ Transition(id, "Submitted", "Disputed")
    /\ UNCHANGED balance

\* resolveDispute: both transfers of one transaction; client may be worker.
ShareWithin(id, share) == share <= jobs[id].amount

MutClientShare(id, share) == jobs[id].amount
ClientShare(id, share) == jobs[id].amount - share

ResolveDispute(sender, id, share) ==
    /\ sender = Arbitrator
    /\ ShareWithin(id, share)
    /\ Transition(id, "Disputed", "Resolved")
    /\ Payout(id, share, ClientShare(id, share))

\* refund's condition: never accepted in time, or never submitted in time.
MutRefundable(id) ==
    \/ jobs[id].status = "Open" /\ now >= jobs[id].acceptBefore
    \/ jobs[id].status # "Open" /\ now > jobs[id].submitBefore
MutRefundableOpen(id) ==
    jobs[id].status = "Open" /\ now >= jobs[id].acceptBefore
Refundable(id) ==
    \/ jobs[id].status = "Open" /\ now >= jobs[id].acceptBefore
    \/ jobs[id].status = "Accepted" /\ now > jobs[id].submitBefore

Refund(sender, id) ==
    /\ sender = jobs[id].client
    /\ Refundable(id)
    /\ Transition(id, jobs[id].status, "Refunded")
    /\ Payout(id, 0, jobs[id].amount)

-----------------------------------------------------------------------------
AnyCreate ==
    \E sender \in Accounts, amount \in Amounts, class \in Classes,
       window \in Windows, terms \in Documents, fee \in Fees :
        \/ CreateJob(sender, amount, class, window, terms, fee)
        \/ \E ref \in Documents :
             CreateJobWithDocument(sender, amount, class, window, terms, fee,
                                   ref)

AnySubmit ==
    \E sender \in Accounts, id \in JobIds, ref \in Documents :
        \/ Submit(sender, id, ref)
        \/ \E digest \in Documents : SubmitDocument(sender, id, ref, digest)

AnyRelease ==
    \E sender \in Accounts, id \in JobIds :
        \/ ApproveAndPay(sender, id)
        \/ ClaimAfterReview(sender, id)
        \/ Dispute(sender, id)
        \/ Refund(sender, id)
        \/ \E share \in Shares : ResolveDispute(sender, id, share)

Next ==
    \/ Tick
    \/ \E sender \in Accounts, root \in SUBSET Indexes : SetRoot(sender, root)
    \/ \E a \in Accounts, n \in Gifts : Donate(a, n)
    \/ AnyCreate
    \/ \E id \in JobIds, s \in Proofs : Accept(id, s)
    \/ AnySubmit
    \/ AnyRelease

Spec == Init /\ [][Next]_vars

\* Time passes, and every party takes the exit the deadlines leave it:
\* clients refund, workers claim after review, the arbitrator resolves.
\* Nobody is assumed to relay a proof, to deliver, to approve or to dispute.
Exits ==
    /\ WF_vars(Tick)
    /\ \A id \in JobIds :
        /\ WF_vars(\E sender \in Accounts : Refund(sender, id))
        /\ WF_vars(\E sender \in Accounts : ClaimAfterReview(sender, id))
        /\ WF_vars(\E share \in Shares : ResolveDispute(Arbitrator, id, share))

FairSpec == Spec /\ Exits

-----------------------------------------------------------------------------
(* What the page offers for a job at a time (journey.ts).                  *)

Eligibility(id) ==
    LET job == jobs[id] IN
    [accept  |-> job.status = "Open" /\ now < job.acceptBefore,
     submit  |-> job.status = "Accepted" /\ now <= job.submitBefore,
     dispute |-> job.status = "Submitted" /\ now <= job.reviewBefore,
     claim   |-> job.status = "Submitted" /\ now > job.reviewBefore,
     refund  |-> \/ job.status = "Open" /\ now >= job.acceptBefore
                 \/ job.status = "Accepted" /\ now > job.submitBefore]

-----------------------------------------------------------------------------
(* What the escrow owes.                                                   *)

Settled == {"Paid", "Refunded", "Resolved"}

Held(id) == IF jobs[id].status \in Settled THEN 0 ELSE jobs[id].amount

HeldBy == [id \in JobIds |-> Held(id)]

\* The tokens a function of jobs counts, one element per unit: their number
\* is the sum of the function's values.
Units(h) == UNION {{id} \X (1..h[id]) : id \in JobIds}

Locked == Cardinality(Units(HeldBy))

-----------------------------------------------------------------------------
(* Properties.                                                             *)

\* Every variable has its type (structs and mappings of the contract).
TypeOK ==
    /\ now \in Times
    /\ revocationRoot \subseteq Indexes
    /\ rootEpoch \in Nat
    /\ nextJob \in 0..MaxJobs
    /\ jobs \in [JobIds -> Job]
    /\ consumedNullifiers \subseteq Nullifiers
    /\ documentDigests \in [JobIds -> Hashes]
    /\ termsReferences \in [JobIds -> Hashes]
    /\ balance \in [Accounts \cup {EscrowAddress} -> Nat]

\* The pooled balance always covers every job not yet settled, whatever the
\* token withheld from a deposit and in whatever order jobs are released
\* (the exact-balance check of _createJob, one release per job).
Solvency == Locked <= balance[EscrowAddress]

\* A job has one worker exactly when it has one consumed nullifier, and that
\* nullifier's holder bound the worker's address to the proof: a relayer
\* cannot redirect a job, and no job admits two holders (accept).
OneAdmissionPerJob ==
    \A id \in JobIds :
        LET used == {n \in consumedNullifiers : n[2] = id} IN
        IF jobs[id].worker = ZeroAddress
        THEN used = {} /\ jobs[id].status \in {"Open", "Refunded"}
        ELSE /\ jobs[id].status # "Open"
             /\ \E h \in Holders :
                    used = {<<h, id>>} /\ jobs[id].worker \in Wallets[h]

\* A job with a delivery on record is paid, in review or with the arbitrator,
\* and a job without one is not: work handed in before the deadline is never
\* refunded behind the worker's back, nothing undelivered is paid (_submit,
\* refund, approveAndPay, claimAfterReview).
DeliveredIsNeverRefunded ==
    \A id \in JobIds :
        jobs[id].deliverable # NoDocument
            <=> jobs[id].status \in {"Submitted", "Paid", "Disputed",
                                     "Resolved"}

\* The page offers a step exactly when a transaction of that block would not
\* revert, and no block lets two parties compete for one job across a
\* deadline: accepted or refunded, delivered or refunded, disputed or claimed
\* (the comparisons of six functions and of the page's deadlineEligibility).
OfferedExactlyWhenAllowed ==
    \A id \in 1..nextJob :
        LET offer == Eligibility(id)
            hasWallet == jobs[id].worker \in Accounts
        IN /\ ENABLED (\E x \in Accounts, d \in Documents : Submit(x, id, d))
                <=> offer.submit /\ hasWallet
           /\ ENABLED (\E x \in Accounts : Dispute(x, id)) <=> offer.dispute
           /\ ENABLED (\E x \in Accounts : ClaimAfterReview(x, id))
                <=> offer.claim /\ hasWallet
           /\ ENABLED (\E x \in Accounts : Refund(x, id)) <=> offer.refund
           /\ ~(offer.refund /\ (offer.accept \/ offer.submit))
           /\ ~(offer.dispute /\ offer.claim)

\* Its two halves without ENABLED.  Whatever the page offers meets every
\* require of the contract and of the token: the party has an account, and
\* the pool covers the payment (refund, dispute, claimAfterReview, and what
\* may follow: approveAndPay, resolveDispute).
OffersStand ==
    \A id \in 1..nextJob :
        LET job == jobs[id]
            offer == Eligibility(id)
            payable == job.amount <= balance[EscrowAddress]
        IN /\ offer.refund => job.client \in Accounts /\ Refundable(id) /\ payable
           /\ offer.submit => job.worker # ZeroAddress
           /\ offer.dispute => job.client \in Accounts /\ ReviewOpen(id)
           /\ offer.claim => job.worker \in Accounts /\ ReviewOver(id) /\ payable
           /\ job.status \in {"Submitted", "Disputed"} =>
                /\ job.client \in Accounts /\ job.worker \in Accounts
                /\ payable
           /\ ~(offer.refund /\ (offer.accept \/ offer.submit))
           /\ ~(offer.dispute /\ offer.claim)

\* And a job moves only by a step that is offered at that time.
OfferedStep ==
    \A id \in 1..nextJob :
        LET offer == Eligibility(id)
            moves(to) == jobs[id].status # to /\ jobs'[id].status = to
        IN /\ moves("Accepted") => offer.accept
           /\ moves("Submitted") => offer.submit
           /\ moves("Disputed") => offer.dispute
           /\ moves("Refunded") => offer.refund
           /\ moves("Paid") => offer.dispute \/ offer.claim
           /\ moves("Resolved") => jobs[id].status = "Disputed"
           /\ ~moves("Open")

AdmissionStep ==
    \A id \in JobIds :
        jobs[id].status = "Open" /\ jobs'[id].status = "Accepted" =>
            /\ Eligibility(id).accept
            /\ \E c \in Credentials :
                /\ c.issuer = IssuerKey
                /\ c.class = jobs[id].qualificationClass
                /\ now <= c.expiry
                /\ c.index \notin revocationRoot
                /\ jobs'[id].worker \in Wallets[c.holder]
                /\ consumedNullifiers' \ consumedNullifiers
                     = {<<c.holder, id>>}

\* A job leaves Open for Accepted only on a credential that, in that very
\* block, is signed by the issuer, of the job's class, unexpired and not in
\* the current revocation root, and only while the page offers acceptance,
\* however long ago the proof was made (accept and the circuit together).
QualifiedAdmission == [][AdmissionStep]_vars

AgreementStep ==
    \A id \in 1..nextJob :
        LET old == jobs[id]  new == jobs'[id] IN
        /\ [new EXCEPT !.worker = old.worker, !.status = old.status,
                       !.deliverable = old.deliverable] = old
        /\ termsReferences'[id] = termsReferences[id]
        /\ old.worker # ZeroAddress => new.worker = old.worker
        /\ old.deliverable # NoDocument =>
               /\ new.deliverable = old.deliverable
               /\ documentDigests'[id] = documentDigests[id]
        /\ old.status \in Settled => new.status = old.status
        /\ revocationRoot' # revocationRoot => new = old

\* What the parties agreed to stays as agreed: once funded, a job's client,
\* payment, deadlines and scope never change; its worker and its delivery
\* are written once; a settled job never moves again; and a revocation never
\* touches a job (every function but the one that writes the field).
AgreementIsFinal == [][AgreementStep]_vars

\* Every funded job is eventually settled although nobody is obliged to
\* accept, deliver, approve or dispute: the deadlines always leave one party
\* an exit (refund, claimAfterReview, resolveDispute).
EventuallySettled ==
    \A id \in JobIds :
        jobs[id].client # ZeroAddress ~> jobs[id].status \in Settled

\* The pooled balance implements one vault per job.
Promise == INSTANCE EscrowPromise WITH
    Owners <- Accounts,
    Workers <- Addresses \ {ZeroAddress},
    Nobody <- ZeroAddress,
    vault <- HeldBy,
    client <- [id \in JobIds |-> jobs[id].client],
    worker <- [id \in JobIds |-> jobs[id].worker],
    wallet <- [a \in Accounts |-> balance[a]],
    tips <- balance[EscrowAddress] - Locked

\* The contract implements EscrowPromise: each deposit is released once, in
\* full, to the client and the assigned worker only.
KeepsPromise == Promise!PSpec

=============================================================================
