--------------------- MODULE QualificationEscrowProofs ---------------------
(***************************************************************************)
(* Proofs about the escrow for every number of jobs, accounts, holders and *)
(* credentials.  The inductive invariant adds to the checked properties    *)
(* that job ids not yet handed out hold the default record.                *)
(***************************************************************************)
EXTENDS QualificationEscrow, FiniteSetTheorems, TLAPS

-----------------------------------------------------------------------------
(* Type correctness.                                                       *)

LEMMA NoJobType == NoJob \in Job
<1>1. NoClass \in Classes
  BY ConstantAssumptions DEF NoClass
<1> QED
  BY <1>1, ConstantAssumptions DEF NoJob, Job, Addresses, Hashes, Times, Status

LEMMA InitType == Init => TypeOK
BY NoJobType, ConstantAssumptions
   DEF Init, TypeOK, Times, JobIds, Hashes

\* A deposit that arrives in full keeps balances natural numbers.
LEMMA DepositType ==
  ASSUME TypeOK, NEW a \in Accounts, NEW n \in Nat, Deposit(a, n, 0)
  PROVE  balance' \in [Accounts \cup {EscrowAddress} -> Nat]
BY ConstantAssumptions DEF TypeOK, Deposit

LEMMA PayoutType ==
  ASSUME TypeOK, NEW id \in JobIds, NEW w \in Nat, NEW c \in Nat,
         Payout(id, w, c)
  PROVE  balance' \in [Accounts \cup {EscrowAddress} -> Nat]
<1> DEFINE B == Accounts \cup {EscrowAddress}
<1>1. balance \in [B -> Nat]
  BY DEF TypeOK
<1>2. balance' = [a \in B |->
         balance[a] - (IF a = EscrowAddress THEN w + c ELSE 0)
           + (IF a = jobs[id].worker THEN w ELSE 0)
           + (IF a = jobs[id].client THEN c ELSE 0)]
  BY <1>1 DEF Payout
<1>3. balance[EscrowAddress] >= w + c
  BY DEF Payout
<1>4. ASSUME NEW a \in B
      PROVE  balance[a] - (IF a = EscrowAddress THEN w + c ELSE 0)
               + (IF a = jobs[id].worker THEN w ELSE 0)
               + (IF a = jobs[id].client THEN c ELSE 0) \in Nat
  BY <1>1, <1>3, <1>4
<1> QED
  BY <1>2, <1>4

\* Every call but the ones that make a job only rewrites fields of a job.
LEMMA TransitionType ==
  ASSUME TypeOK, NEW id \in JobIds, NEW from, NEW to \in Status,
         Transition(id, from, to)
  PROVE  jobs' \in [JobIds -> Job]
BY DEF TypeOK, Transition, Job

LEMMA FundType ==
  ASSUME TypeOK, NEW sender \in Accounts, NEW amount \in Amounts,
         NEW class \in Classes, NEW window \in Windows,
         NEW terms \in Documents, NEW fee \in Fees,
         FundJob(sender, amount, class, window, terms, fee)
  PROVE  /\ fee = 0
         /\ nextJob' \in 0..MaxJobs
         /\ nextJob + 1 \in JobIds
         /\ jobs' \in [JobIds -> Job]
         /\ balance' \in [Accounts \cup {EscrowAddress} -> Nat]
<1>1. amount \in Nat /\ fee \in Nat
  BY ConstantAssumptions
<1>2. fee = 0
  BY <1>1 DEF FundJob, ExactDeposit
<1>3. nextJob' \in 0..MaxJobs /\ nextJob + 1 \in JobIds
  BY ConstantAssumptions DEF FundJob, TypeOK, JobIds
<1>4. window[1] \in Times /\ window[2] \in Times /\ window[3] \in Times
  BY ConstantAssumptions
<1>5. [client |-> sender, worker |-> ZeroAddress, amount |-> amount,
       qualificationClass |-> class, acceptBefore |-> window[1],
       submitBefore |-> window[2], reviewBefore |-> window[3],
       status |-> "Open", terms |-> terms, deliverable |-> NoDocument] \in Job
  BY <1>1, <1>4 DEF Job, Addresses, Hashes, Status
<1>6. jobs' \in [JobIds -> Job]
  BY <1>3, <1>5 DEF FundJob, TypeOK
<1>7. balance' \in [Accounts \cup {EscrowAddress} -> Nat]
  BY <1>1, <1>2, DepositType DEF FundJob
<1> QED
  BY <1>2, <1>3, <1>6, <1>7

LEMMA CreateType == TypeOK /\ AnyCreate => TypeOK'
<1> SUFFICES ASSUME TypeOK, AnyCreate PROVE TypeOK'
  OBVIOUS
<1>1. PICK sender \in Accounts, amount \in Amounts, class \in Classes,
           window \in Windows, terms \in Documents, fee \in Fees :
        \/ CreateJob(sender, amount, class, window, terms, fee)
        \/ \E ref \in Documents :
             CreateJobWithDocument(sender, amount, class, window, terms, fee,
                                   ref)
  BY DEF AnyCreate
<1>2. FundJob(sender, amount, class, window, terms, fee)
  BY <1>1 DEF CreateJob, CreateJobWithDocument
<1>3. nextJob' \in 0..MaxJobs /\ jobs' \in [JobIds -> Job]
      /\ balance' \in [Accounts \cup {EscrowAddress} -> Nat]
  BY <1>2, FundType
<1>4. termsReferences' \in [JobIds -> Hashes]
  BY <1>1 DEF CreateJob, CreateJobWithDocument, TypeOK, Hashes
<1> QED
  BY <1>2, <1>3, <1>4 DEF TypeOK, FundJob, rootVars

LEMMA AcceptType ==
  ASSUME TypeOK, NEW id \in JobIds, NEW s \in Proofs, Accept(id, s)
  PROVE  TypeOK'
<1>1. s.recipient \in Addresses /\ s.nullifier \in Nullifiers
  BY DEF Proofs, Statement
<1>2. jobs' \in [JobIds -> Job]
  BY <1>1 DEF Accept, TypeOK, Job, Status
<1>3. consumedNullifiers' \subseteq Nullifiers
  BY <1>1 DEF Accept, TypeOK
<1> QED
  BY <1>2, <1>3 DEF Accept, TypeOK, rootVars

LEMMA SubmitType == TypeOK /\ AnySubmit => TypeOK'
<1> SUFFICES ASSUME TypeOK, AnySubmit PROVE TypeOK'
  OBVIOUS
<1>1. PICK sender \in Accounts, id \in JobIds, ref \in Documents :
        \/ Submit(sender, id, ref)
        \/ \E digest \in Documents : SubmitDocument(sender, id, ref, digest)
  BY DEF AnySubmit
<1>2. Deliver(sender, id, ref)
  BY <1>1 DEF Submit, SubmitDocument
<1>3. jobs' \in [JobIds -> Job]
  BY <1>2 DEF Deliver, TypeOK, Job, Hashes, Status
<1>4. documentDigests' \in [JobIds -> Hashes]
  BY <1>1 DEF Submit, SubmitDocument, TypeOK, Hashes
<1> QED
  BY <1>2, <1>3, <1>4 DEF Deliver, TypeOK, rootVars

LEMMA ReleaseType == TypeOK /\ AnyRelease => TypeOK'
<1> SUFFICES ASSUME TypeOK, AnyRelease PROVE TypeOK'
  OBVIOUS
<1>1. PICK sender \in Accounts, id \in JobIds :
        \/ ApproveAndPay(sender, id)
        \/ ClaimAfterReview(sender, id)
        \/ Dispute(sender, id)
        \/ Refund(sender, id)
        \/ \E share \in Shares : ResolveDispute(sender, id, share)
  BY DEF AnyRelease
<1>2. jobs[id].amount \in Nat /\ jobs[id].status \in Status
  BY DEF TypeOK, Job
<1>3. \E to \in Status : Transition(id, jobs[id].status, to)
  BY <1>1 DEF ApproveAndPay, ClaimAfterReview, Dispute, Refund,
              ResolveDispute, Transition, Status
<1>4. jobs' \in [JobIds -> Job]
  BY <1>2, <1>3, TransitionType
<1>5. balance' \in [Accounts \cup {EscrowAddress} -> Nat]
  <2>1. CASE ApproveAndPay(sender, id) \/ ClaimAfterReview(sender, id)
    BY <2>1, <1>2, PayoutType DEF ApproveAndPay, ClaimAfterReview
  <2>2. CASE Dispute(sender, id)
    BY <2>2 DEF Dispute, TypeOK
  <2>3. CASE Refund(sender, id)
    BY <2>3, <1>2, PayoutType DEF Refund
  <2>4. ASSUME NEW share \in Shares, ResolveDispute(sender, id, share)
        PROVE  balance' \in [Accounts \cup {EscrowAddress} -> Nat]
    <3>1. share \in Nat /\ ClientShare(id, share) \in Nat
      BY <2>4, <1>2, ConstantAssumptions
         DEF ResolveDispute, ShareWithin, ClientShare
    <3> QED
      BY <2>4, <3>1, PayoutType DEF ResolveDispute
  <2> QED
    BY <1>1, <2>1, <2>2, <2>3, <2>4
<1> QED
  BY <1>3, <1>4, <1>5 DEF Transition, TypeOK, rootVars

LEMMA NextType == TypeOK /\ [Next]_vars => TypeOK'
<1> SUFFICES ASSUME TypeOK, [Next]_vars PROVE TypeOK'
  OBVIOUS
<1>1. CASE Tick
  BY <1>1, ConstantAssumptions DEF Tick, TypeOK, Times, rootVars, jobVars
<1>2. ASSUME NEW sender \in Accounts, NEW root \in SUBSET Indexes,
             SetRoot(sender, root)
      PROVE  TypeOK'
  BY <1>2 DEF SetRoot, TypeOK, jobVars
<1>3. ASSUME NEW a \in Accounts, NEW n \in Gifts, Donate(a, n)
      PROVE  TypeOK'
  <2>1. n \in Nat
    BY ConstantAssumptions
  <2>2. balance' \in [Accounts \cup {EscrowAddress} -> Nat]
    BY <1>3, <2>1, DepositType DEF Donate
  <2> QED
    BY <1>3, <2>2 DEF Donate, TypeOK, rootVars, jobVars
<1>4. CASE AnyCreate
  BY <1>4, CreateType
<1>5. ASSUME NEW id \in JobIds, NEW s \in Proofs, Accept(id, s)
      PROVE  TypeOK'
  BY <1>5, AcceptType
<1>6. CASE AnySubmit
  BY <1>6, SubmitType
<1>7. CASE AnyRelease
  BY <1>7, ReleaseType
<1>8. CASE UNCHANGED vars
  BY <1>8 DEF vars, rootVars, jobVars, TypeOK
<1> QED
  BY <1>1, <1>2, <1>3, <1>4, <1>5, <1>6, <1>7, <1>8 DEF Next

\* Every reachable state of the contract is well typed; in particular no
\* account and no pool balance ever goes negative (safeTransfer, Payout).
THEOREM TypeCorrect == Spec => []TypeOK
BY InitType, NextType, PTL DEF Spec

-----------------------------------------------------------------------------
(* Admission and delivery.                                                 *)

\* Ids handed out hold a client, a payment and, once delivered, a worker who
\* can sign; ids not yet handed out hold the default record.
JobRecords ==
    \A id \in JobIds :
        IF id <= nextJob
        THEN /\ jobs[id].client \in Accounts
             /\ jobs[id].amount > 0
             /\ jobs[id].deliverable # NoDocument => jobs[id].worker \in Accounts
        ELSE jobs[id] = NoJob

\* What makes the two invariants inductive: creating a job overwrites only a
\* blank record, which has neither worker nor consumed nullifier.
IInv ==
    /\ TypeOK
    /\ OneAdmissionPerJob
    /\ DeliveredIsNeverRefunded
    /\ JobRecords

LEMMA AcceptIInv ==
  ASSUME IInv, NEW id \in JobIds, NEW s \in Proofs, Accept(id, s)
  PROVE  IInv'
<1>1. PICK c \in Credentials : Provable(c, s)
  BY DEF Proofs
<1>2. /\ c.holder \in Holders
      /\ s.recipient \in Wallets[c.holder]
      /\ s.nullifier = <<c.holder, id>>
      /\ s.recipient # ZeroAddress
  BY <1>1, ConstantAssumptions
     DEF Provable, Accept, AcceptableStatement, MadeFor
<1>3. TypeOK'
  BY AcceptType DEF IInv
<1>4. /\ jobs \in [JobIds -> Job]
      /\ jobs[id].status = "Open" /\ jobs[id].worker = ZeroAddress
      /\ jobs[id].client # ZeroAddress
      /\ jobs' = [jobs EXCEPT ![id].worker = s.recipient,
                              ![id].status = "Accepted"]
      /\ nextJob' = nextJob
      /\ consumedNullifiers' = consumedNullifiers \cup {<<c.holder, id>>}
  BY <1>2 DEF IInv, TypeOK, Accept, OneAdmissionPerJob
<1>5. /\ jobs'[id].worker = s.recipient
      /\ jobs'[id].status = "Accepted"
      /\ jobs'[id].client = jobs[id].client
      /\ jobs'[id].amount = jobs[id].amount
      /\ jobs'[id].deliverable = jobs[id].deliverable
      /\ \A k \in JobIds : k # id => jobs'[k] = jobs[k]
  BY <1>4 DEF Job
<1>6. OneAdmissionPerJob'
  <2> SUFFICES ASSUME NEW k \in JobIds
               PROVE  LET used == {n \in consumedNullifiers' : n[2] = k} IN
                      IF jobs'[k].worker = ZeroAddress
                      THEN /\ used = {}
                           /\ jobs'[k].status \in {"Open", "Refunded"}
                      ELSE /\ jobs'[k].status # "Open"
                           /\ \E h \in Holders :
                                 /\ used = {<<h, k>>}
                                 /\ jobs'[k].worker \in Wallets[h]
    BY DEF OneAdmissionPerJob
  <2>1. CASE k = id
    <3>1. {n \in consumedNullifiers : n[2] = id} = {}
      BY <1>4 DEF IInv, OneAdmissionPerJob
    <3>2. {n \in consumedNullifiers' : n[2] = id} = {<<c.holder, id>>}
      BY <1>4, <3>1
    <3> QED
      BY <2>1, <3>2, <1>2, <1>5
  <2>2. CASE k # id
    <3>1. {n \in consumedNullifiers' : n[2] = k}
            = {n \in consumedNullifiers : n[2] = k}
      BY <1>4, <2>2
    <3> QED
      BY <2>2, <3>1, <1>5 DEF IInv, OneAdmissionPerJob
  <2> QED
    BY <2>1, <2>2
<1>7. DeliveredIsNeverRefunded'
  BY <1>4, <1>5 DEF IInv, DeliveredIsNeverRefunded
<1>8. JobRecords'
  <2>1. jobs[id].deliverable = NoDocument
    BY <1>4 DEF IInv, DeliveredIsNeverRefunded
  <2> QED
    BY <1>4, <1>5, <2>1 DEF IInv, JobRecords, NoJob
<1> QED
  BY <1>3, <1>6, <1>7, <1>8 DEF IInv

\* A step that leaves workers, nullifiers, deliveries and clients alone and
\* only moves statuses on.
LEMMA ReleaseIInv == IInv /\ AnyRelease => IInv'
<1> SUFFICES ASSUME IInv, AnyRelease PROVE IInv'
  OBVIOUS
<1>1. PICK sender \in Accounts, id \in JobIds :
        \/ ApproveAndPay(sender, id)
        \/ ClaimAfterReview(sender, id)
        \/ Dispute(sender, id)
        \/ Refund(sender, id)
        \/ \E share \in Shares : ResolveDispute(sender, id, share)
  BY DEF AnyRelease
<1>2. \E to \in Status :
         /\ Transition(id, jobs[id].status, to)
         /\ \/ jobs[id].status \in {"Submitted", "Disputed"}
               /\ to \in {"Paid", "Disputed", "Resolved"}
            \/ jobs[id].status \in {"Open", "Accepted"} /\ to = "Refunded"
  BY <1>1 DEF ApproveAndPay, ClaimAfterReview, Dispute, Refund, Refundable,
              ResolveDispute, Transition, Status
<1>3. PICK to \in Status :
         /\ Transition(id, jobs[id].status, to)
         /\ \/ jobs[id].status \in {"Submitted", "Disputed"}
               /\ to \in {"Paid", "Disputed", "Resolved"}
            \/ jobs[id].status \in {"Open", "Accepted"} /\ to = "Refunded"
  BY <1>2
<1>4. /\ jobs \in [JobIds -> Job]
      /\ jobs' = [jobs EXCEPT ![id].status = to]
      /\ nextJob' = nextJob /\ consumedNullifiers' = consumedNullifiers
  BY <1>3 DEF Transition, IInv, TypeOK
<1>5. /\ jobs'[id].status = to
      /\ jobs'[id].worker = jobs[id].worker
      /\ jobs'[id].client = jobs[id].client
      /\ jobs'[id].amount = jobs[id].amount
      /\ jobs'[id].deliverable = jobs[id].deliverable
      /\ \A k \in JobIds : k # id => jobs'[k] = jobs[k]
  BY <1>4 DEF Job
<1>6. TypeOK'
  BY ReleaseType DEF IInv
<1>7. OneAdmissionPerJob'
  BY <1>3, <1>4, <1>5 DEF IInv, OneAdmissionPerJob
<1>8. DeliveredIsNeverRefunded'
  BY <1>3, <1>5 DEF IInv, DeliveredIsNeverRefunded
<1>9. JobRecords'
  <2>1. jobs[id].client # ZeroAddress
    BY <1>1, ConstantAssumptions, <1>3
       DEF ApproveAndPay, ClaimAfterReview, Dispute, Refund, ResolveDispute,
           Transition, IInv, OneAdmissionPerJob, JobRecords, NoJob
  <2>2. id <= nextJob
    BY <2>1 DEF IInv, JobRecords, NoJob
  <2> QED
    BY <1>4, <1>5, <2>2 DEF IInv, JobRecords
<1> QED
  BY <1>6, <1>7, <1>8, <1>9 DEF IInv

LEMMA SubmitIInv == IInv /\ AnySubmit => IInv'
<1> SUFFICES ASSUME IInv, AnySubmit PROVE IInv'
  OBVIOUS
<1>1. PICK sender \in Accounts, id \in JobIds, ref \in Documents :
        Deliver(sender, id, ref)
  BY DEF AnySubmit, Submit, SubmitDocument
<1>2. /\ jobs \in [JobIds -> Job]
      /\ jobs' = [jobs EXCEPT ![id].deliverable = ref,
                              ![id].status = "Submitted"]
      /\ jobs[id].worker \in Accounts /\ jobs[id].worker # ZeroAddress
      /\ ref # NoDocument
      /\ nextJob' = nextJob /\ consumedNullifiers' = consumedNullifiers
  BY <1>1, ConstantAssumptions DEF Deliver, IInv, TypeOK
<1>3. /\ jobs'[id].status = "Submitted"
      /\ jobs'[id].worker = jobs[id].worker
      /\ jobs'[id].client = jobs[id].client
      /\ jobs'[id].amount = jobs[id].amount
      /\ jobs'[id].deliverable = ref
      /\ \A k \in JobIds : k # id => jobs'[k] = jobs[k]
  BY <1>2 DEF Job
<1>4. TypeOK'
  BY SubmitType DEF IInv
<1>5. OneAdmissionPerJob'
  BY <1>2, <1>3 DEF IInv, OneAdmissionPerJob
<1>6. DeliveredIsNeverRefunded'
  BY <1>2, <1>3 DEF IInv, DeliveredIsNeverRefunded
<1>7. JobRecords'
  <2>1. id <= nextJob
    BY <1>2 DEF IInv, JobRecords, NoJob
  <2> QED
    BY <1>2, <1>3, <2>1 DEF IInv, JobRecords
<1> QED
  BY <1>4, <1>5, <1>6, <1>7 DEF IInv

LEMMA CreateIInv == IInv /\ AnyCreate => IInv'
<1> SUFFICES ASSUME IInv, AnyCreate PROVE IInv'
  OBVIOUS
<1>1. PICK sender \in Accounts, amount \in Amounts, class \in Classes,
           window \in Windows, terms \in Documents, fee \in Fees :
        FundJob(sender, amount, class, window, terms, fee)
  BY DEF AnyCreate, CreateJob, CreateJobWithDocument
<1> DEFINE id == nextJob + 1
<1>2. TypeOK' /\ id \in JobIds /\ nextJob \in Nat
  BY <1>1, FundType, CreateType DEF IInv, TypeOK
<1>3. jobs[id].worker = ZeroAddress /\ jobs[id] = NoJob
  BY <1>2 DEF IInv, JobRecords, NoJob
<1>4. /\ jobs'[id].client = sender
      /\ jobs'[id].worker = ZeroAddress
      /\ jobs'[id].status = "Open"
      /\ jobs'[id].deliverable = NoDocument
      /\ \A k \in JobIds : k # id => jobs'[k] = jobs[k]
      /\ nextJob' = id
      /\ consumedNullifiers' = consumedNullifiers
  BY <1>1, <1>2 DEF FundJob, IInv, TypeOK
<1>5. OneAdmissionPerJob'
  BY <1>3, <1>4 DEF IInv, OneAdmissionPerJob
<1>6. DeliveredIsNeverRefunded'
  BY <1>4 DEF IInv, DeliveredIsNeverRefunded
<1>7. JobRecords'
  <2>1. \A k \in JobIds : k \in Int
    BY DEF JobIds
  <2>2. jobs'[id].amount > 0
    BY <1>1, <1>2, ConstantAssumptions DEF FundJob, ValidTerms, IInv, TypeOK
  <2> QED
    BY <1>2, <1>4, <2>1, <2>2 DEF IInv, JobRecords
<1> QED
  BY <1>2, <1>5, <1>6, <1>7 DEF IInv

LEMMA InitIInv == Init => IInv
<1> SUFFICES ASSUME Init PROVE IInv
  OBVIOUS
<1>1. \A id \in JobIds : jobs[id] = NoJob /\ id > 0
  BY DEF Init, JobIds
<1> QED
  BY <1>1, InitType
     DEF Init, IInv, OneAdmissionPerJob, DeliveredIsNeverRefunded, JobRecords,
         NoJob, JobIds

LEMMA NextIInv == IInv /\ [Next]_vars => IInv'
<1> SUFFICES ASSUME IInv, [Next]_vars PROVE IInv'
  OBVIOUS
<1>1. TypeOK'
  BY NextType DEF IInv
<1>2. ASSUME UNCHANGED jobVars
      PROVE  IInv'
  BY <1>1, <1>2 DEF jobVars, IInv, OneAdmissionPerJob,
                    DeliveredIsNeverRefunded, JobRecords
<1>3. ASSUME NEW id \in JobIds, NEW s \in Proofs, Accept(id, s)
      PROVE  IInv'
  BY <1>3, AcceptIInv
<1> QED
  BY <1>2, <1>3, CreateIInv, SubmitIInv, ReleaseIInv
     DEF Next, Tick, SetRoot, Donate, vars

\* Each accepted job consumed exactly one nullifier, whose holder bound the
\* worker's address, for every number of jobs and holders (accept).
THEOREM OneAdmission == Spec => []OneAdmissionPerJob
BY InitIInv, NextIInv, PTL DEF Spec, IInv

\* A delivery on record is never refunded, and nothing else is ever paid
\* (submit, refund, approveAndPay, claimAfterReview, resolveDispute).
THEOREM DeliveredSafe == Spec => []DeliveredIsNeverRefunded
BY InitIInv, NextIInv, PTL DEF Spec, IInv

-----------------------------------------------------------------------------
(* What a step may never do.                                               *)

LEMMA AdmissionOfNext == IInv /\ [Next]_vars => [AdmissionStep]_vars
<1> SUFFICES ASSUME IInv, Next, NEW id \in JobIds,
                    jobs[id].status = "Open", jobs'[id].status = "Accepted"
             PROVE  /\ Eligibility(id).accept
                    /\ \E c \in Credentials :
                        /\ c.issuer = IssuerKey
                        /\ c.class = jobs[id].qualificationClass
                        /\ now <= c.expiry
                        /\ c.index \notin revocationRoot
                        /\ jobs'[id].worker \in Wallets[c.holder]
                        /\ consumedNullifiers' \ consumedNullifiers
                             = {<<c.holder, id>>}
  BY DEF AdmissionStep
<1>1. jobs \in [JobIds -> Job]
  BY DEF IInv, TypeOK
<1>2. \E k \in JobIds, s \in Proofs : Accept(k, s)
  <2>1. ASSUME UNCHANGED jobs PROVE FALSE
    BY <2>1
  <2>2. ASSUME AnyCreate PROVE FALSE
    <3>1. PICK sender \in Accounts, amount \in Amounts, class \in Classes,
               window \in Windows, terms \in Documents, fee \in Fees :
            FundJob(sender, amount, class, window, terms, fee)
      BY <2>2 DEF AnyCreate, CreateJob, CreateJobWithDocument
    <3> QED
      BY <1>1, <3>1 DEF FundJob
  <2>3. ASSUME AnySubmit PROVE FALSE
    BY <2>3, <1>1 DEF AnySubmit, Submit, SubmitDocument, Deliver
  <2>4. ASSUME AnyRelease PROVE FALSE
    <3>1. PICK k \in JobIds, from \in Status,
               to \in {"Paid", "Disputed", "Refunded", "Resolved"} :
            Transition(k, from, to)
      BY <2>4, <1>1 DEF AnyRelease, ApproveAndPay, ClaimAfterReview, Dispute,
                        Refund, ResolveDispute, Status, Job
    <3> QED
      BY <1>1, <3>1 DEF Transition
  <2> QED
    BY <2>1, <2>2, <2>3, <2>4 DEF Next, Tick, SetRoot, Donate, jobVars
<1>3. PICK k \in JobIds, s \in Proofs : Accept(k, s)
  BY <1>2
<1>4. k = id
  BY <1>1, <1>3 DEF Accept
<1>5. PICK c \in Credentials : Provable(c, s)
  BY DEF Proofs
<1>6. /\ now \in Nat /\ s.deadline \in Nat /\ c.expiry \in Nat
      /\ now <= s.deadline /\ s.deadline <= c.expiry
  BY <1>3, <1>5, ConstantAssumptions
     DEF Accept, AcceptableStatement, Provable, Proofs, Statement, IInv,
         TypeOK, Times
<1>7. jobs'[id].worker = s.recipient
  BY <1>1, <1>3, <1>4 DEF Accept, Job
<1>8. /\ s.nullifier = <<c.holder, id>>
      /\ consumedNullifiers' \ consumedNullifiers = {s.nullifier}
  BY <1>3, <1>4, <1>5 DEF Accept, AcceptableStatement, MadeFor, Provable
<1>9. Eligibility(id).accept
  BY <1>3, <1>4 DEF Accept, AcceptableStatement, Eligibility
<1> QED
  BY <1>3, <1>4, <1>5, <1>6, <1>7, <1>8, <1>9
     DEF Accept, AcceptableStatement, MadeFor, CurrentRoot, Provable

\* Nobody is ever assigned a job without a current, unexpired and unrevoked
\* credential of the issuer's for the job's class (accept and the circuit).
THEOREM AdmissionIsQualified == Spec => QualifiedAdmission
BY InitIInv, NextIInv, AdmissionOfNext, PTL DEF Spec, QualifiedAdmission

LEMMA AgreementOfNext == IInv /\ [Next]_vars => [AgreementStep]_vars
<1> SUFFICES ASSUME IInv, Next PROVE AgreementStep
  OBVIOUS
<1>1. /\ jobs \in [JobIds -> Job]
      /\ nextJob \in 0..MaxJobs /\ MaxJobs \in Nat
      /\ \A id \in 1..nextJob : id \in JobIds
  BY ConstantAssumptions DEF IInv, TypeOK, JobIds
<1>2. ASSUME UNCHANGED jobVars
      PROVE  AgreementStep
  BY <1>1, <1>2 DEF AgreementStep, jobVars, Job
<1>3. ASSUME AnyCreate PROVE AgreementStep
  <2>1. PICK sender \in Accounts, amount \in Amounts, class \in Classes,
             window \in Windows, terms \in Documents, fee \in Fees :
          \/ CreateJob(sender, amount, class, window, terms, fee)
          \/ \E ref \in Documents :
               CreateJobWithDocument(sender, amount, class, window, terms,
                                     fee, ref)
    BY <1>3 DEF AnyCreate
  <2>2. FundJob(sender, amount, class, window, terms, fee)
    BY <2>1 DEF CreateJob, CreateJobWithDocument
  <2>3. \A id \in 1..nextJob : id # nextJob + 1
    BY <1>1
  <2>4. \A id \in 1..nextJob : jobs'[id] = jobs[id]
    BY <1>1, <2>2, <2>3 DEF FundJob
  <2>5. \A id \in 1..nextJob : termsReferences'[id] = termsReferences[id]
    BY <1>1, <2>1, <2>3 DEF CreateJob, CreateJobWithDocument, IInv, TypeOK
  <2> QED
    BY <1>1, <2>2, <2>4, <2>5 DEF FundJob, rootVars, AgreementStep, Job
<1>4. ASSUME NEW k \in JobIds, NEW s \in Proofs, Accept(k, s)
      PROVE  AgreementStep
  <2>1. jobs[k].worker = ZeroAddress /\ jobs[k].deliverable = NoDocument
    BY <1>4 DEF Accept, IInv, OneAdmissionPerJob, DeliveredIsNeverRefunded
  <2> QED
    BY <1>1, <1>4, <2>1 DEF Accept, AgreementStep, Job, Settled, rootVars
<1>5. ASSUME AnySubmit PROVE AgreementStep
  <2>1. PICK sender \in Accounts, k \in JobIds, ref \in Documents :
          /\ Deliver(sender, k, ref)
          /\ \/ UNCHANGED documentDigests
             \/ \E digest \in Documents :
                  documentDigests' = [documentDigests EXCEPT ![k] = digest]
    BY <1>5 DEF AnySubmit, Submit, SubmitDocument
  <2>2. jobs[k].deliverable = NoDocument
    BY <2>1 DEF Deliver, IInv, DeliveredIsNeverRefunded
  <2> QED
    BY <1>1, <2>1, <2>2
       DEF Deliver, AgreementStep, Job, Settled, rootVars, IInv, TypeOK
<1>6. ASSUME AnyRelease PROVE AgreementStep
  <2>1. PICK k \in JobIds, from \in Status \ Settled, to \in Status :
          Transition(k, from, to)
    BY <1>6, <1>1
       DEF AnyRelease, ApproveAndPay, ClaimAfterReview, Dispute, Refund,
           Refundable, ResolveDispute, Status, Settled
  <2> QED
    BY <1>1, <2>1 DEF Transition, AgreementStep, Job, rootVars
<1> QED
  BY <1>2, <1>3, <1>4, <1>5, <1>6 DEF Next, Tick, SetRoot, Donate

\* No call rewrites what the parties agreed to, reassigns a job, replaces a
\* delivery or reopens a settled job (every function of the contract).
THEOREM AgreementHolds == Spec => AgreementIsFinal
BY InitIInv, NextIInv, AgreementOfNext, PTL DEF Spec, AgreementIsFinal

-----------------------------------------------------------------------------
(* Sums.  Units(h) has one element per unit of h, so that changing one     *)
(* value of h changes the cardinality by the difference.                   *)

LEMMA RowCardinality ==
  ASSUME NEW id, NEW n \in Nat
  PROVE  /\ IsFiniteSet({id} \X (1..n))
         /\ Cardinality({id} \X (1..n)) = n
<1> DEFINE A == {id}
           B == 1..n
<1>1. IsFiniteSet(A) /\ Cardinality(A) = 1
  BY FS_Singleton
<1>2. IsFiniteSet(B) /\ Cardinality(B) = n
  BY FS_Interval
<1> HIDE DEF A, B
<1>3. /\ IsFiniteSet(A \X B)
      /\ Cardinality(A \X B) = Cardinality(A) * Cardinality(B)
  BY <1>1, <1>2, FS_Product
<1>4. Cardinality(A \X B) = n
  BY <1>1, <1>2, <1>3
<1> QED
  BY <1>3, <1>4 DEF A, B

LEMMA UnitsFinite ==
  ASSUME NEW h \in [JobIds -> Nat], NEW S \in SUBSET JobIds
  PROVE  IsFiniteSet(UNION {{id} \X (1..h[id]) : id \in S})
<1> DEFINE row(id) == {id} \X (1..h[id])
           rows == {row(id) : id \in S}
           f == [id \in S |-> row(id)]
<1>1. IsFiniteSet(S)
  <2>1. IsFiniteSet(JobIds)
    BY ConstantAssumptions, FS_Interval DEF JobIds
  <2> QED
    BY <2>1, FS_Subset
<1>2. f \in Surjection(S, rows)
  BY DEF Surjection
<1>3. IsFiniteSet(rows)
  BY <1>1, <1>2, FS_Surjection
<1>4. ASSUME NEW id \in S PROVE IsFiniteSet(row(id))
  BY RowCardinality
<1>5. \A T \in rows : IsFiniteSet(T)
  BY <1>4
<1> QED
  BY <1>3, <1>5, FS_UNION

\* The units of one job and the units of the others make up all of them.
LEMMA UnitsSplit ==
  ASSUME NEW h \in [JobIds -> Nat], NEW id \in JobIds
  PROVE  LET rest == UNION {{k} \X (1..h[k]) : k \in JobIds \ {id}} IN
         /\ IsFiniteSet(rest)
         /\ Cardinality(rest) \in Nat
         /\ Cardinality(Units(h)) = Cardinality(rest) + h[id]
<1> DEFINE rest == UNION {{k} \X (1..h[k]) : k \in JobIds \ {id}}
           row == {id} \X (1..h[id])
<1>1. IsFiniteSet(rest)
  BY UnitsFinite
<1>2. IsFiniteSet(row) /\ Cardinality(row) = h[id]
  BY RowCardinality
<1>3. Units(h) = rest \cup row
  BY DEF Units
<1>4. rest \cap row = {}
  OBVIOUS
<1>5. Cardinality(rest \cap row) = 0
  BY <1>4, FS_EmptySet
<1>6. Cardinality(rest) \in Nat
  BY <1>1, FS_CardinalityType
<1> HIDE DEF rest, row
<1>7. Cardinality(rest \cup row)
        = Cardinality(rest) + Cardinality(row) - Cardinality(rest \cap row)
  BY <1>1, <1>2, FS_Union
<1>8. Cardinality(rest \cup row) = Cardinality(rest) + h[id]
  BY <1>2, <1>5, <1>6, <1>7
<1> QED
  BY <1>1, <1>3, <1>6, <1>8 DEF rest

LEMMA UnitsUpdate ==
  ASSUME NEW h \in [JobIds -> Nat], NEW g \in [JobIds -> Nat],
         NEW id \in JobIds,
         \A k \in JobIds : k # id => g[k] = h[k]
  PROVE  Cardinality(Units(g)) = Cardinality(Units(h)) - h[id] + g[id]
<1> DEFINE restH == UNION {{k} \X (1..h[k]) : k \in JobIds \ {id}}
           restG == UNION {{k} \X (1..g[k]) : k \in JobIds \ {id}}
<1>1. restG = restH
  OBVIOUS
<1>2. /\ Cardinality(restH) \in Nat
      /\ Cardinality(Units(h)) = Cardinality(restH) + h[id]
  BY UnitsSplit
<1>3. Cardinality(Units(g)) = Cardinality(restG) + g[id]
  BY UnitsSplit
<1> HIDE DEF restH, restG
<1> QED
  BY <1>1, <1>2, <1>3

LEMMA UnitsOfNothing ==
  ASSUME NEW h \in [JobIds -> Nat], \A k \in JobIds : h[k] = 0
  PROVE  Cardinality(Units(h)) = 0
<1>1. Units(h) = {}
  BY DEF Units
<1> QED
  BY <1>1, FS_EmptySet

LEMMA HeldType == TypeOK => HeldBy \in [JobIds -> Nat]
BY DEF TypeOK, HeldBy, Held, Job

LEMMA LockedType == TypeOK => Locked \in Nat
<1> SUFFICES ASSUME TypeOK PROVE Locked \in Nat
  OBVIOUS
<1>1. HeldBy \in [JobIds -> Nat]
  BY HeldType
<1>2. IsFiniteSet(Units(HeldBy))
  BY <1>1, UnitsFinite DEF Units
<1> QED
  BY <1>2, FS_CardinalityType DEF Locked

\* A step that touches one job changes the debt by that job's part of it.
LEMMA LockedUpdate ==
  ASSUME TypeOK, TypeOK', NEW id \in JobIds,
         \A k \in JobIds : k # id => jobs'[k] = jobs[k]
  PROVE  /\ HeldBy' = [HeldBy EXCEPT ![id] = HeldBy'[id]]
         /\ Locked' = Locked - HeldBy[id] + HeldBy'[id]
<1>1. HeldBy \in [JobIds -> Nat] /\ HeldBy' \in [JobIds -> Nat]
  BY DEF TypeOK, HeldBy, Held, Job
<1>2. \A k \in JobIds : k # id => HeldBy'[k] = HeldBy[k]
  BY DEF HeldBy, Held
<1>3. Cardinality(Units(HeldBy'))
        = Cardinality(Units(HeldBy)) - HeldBy[id] + HeldBy'[id]
  BY <1>1, <1>2, UnitsUpdate
<1>4. Locked' = Cardinality(Units(HeldBy'))
  BY DEF Locked, Units
<1>5. HeldBy' = [HeldBy EXCEPT ![id] = HeldBy'[id]]
  BY <1>1, <1>2
<1> QED
  BY <1>3, <1>4, <1>5 DEF Locked

LEMMA LockedSame ==
  ASSUME \A k \in JobIds : HeldBy'[k] = HeldBy[k]
  PROVE  HeldBy' = HeldBy /\ Locked' = Locked
<1>1. HeldBy' = HeldBy
  BY DEF HeldBy
<1> QED
  BY <1>1 DEF Locked, Units

-----------------------------------------------------------------------------
(* One vault per job: every step of the contract is a step of the promise. *)

LEMMA InitPromise == Init => Promise!PInit
<1> SUFFICES ASSUME Init PROVE Promise!PInit
  OBVIOUS
<1>1. HeldBy = [id \in JobIds |-> 0]
  BY DEF Init, HeldBy, Held, NoJob
<1>2. Locked = 0
  <2>1. HeldBy \in [JobIds -> Nat] /\ \A id \in JobIds : HeldBy[id] = 0
    BY <1>1
  <2> QED
    BY <2>1, UnitsOfNothing DEF Locked
<1>3. balance[EscrowAddress] - Locked = 0
  BY <1>2 DEF Init
<1>4. [a \in Accounts |-> balance[a]] \in [Accounts -> Nat]
  BY ConstantAssumptions DEF Init
<1> QED
  BY <1>1, <1>3, <1>4 DEF Init, NoJob, Promise!PInit

LEMMA FundPromise ==
  ASSUME IInv, IInv', NEW sender \in Accounts, NEW amount \in Amounts,
         NEW class \in Classes, NEW window \in Windows,
         NEW terms \in Documents, NEW fee \in Fees,
         FundJob(sender, amount, class, window, terms, fee)
  PROVE  /\ Promise!PNext
         /\ Locked' - Locked = balance'[EscrowAddress] - balance[EscrowAddress]
<1> DEFINE id == nextJob + 1
<1>1. amount \in Nat /\ amount > 0 /\ fee = 0 /\ id \in JobIds
  <2>1. fee = 0 /\ id \in JobIds
    BY FundType DEF IInv
  <2> QED
    BY <2>1, ConstantAssumptions DEF FundJob, ValidTerms
<1>2. /\ jobs[id] = NoJob
      /\ jobs'[id].client = sender /\ jobs'[id].worker = ZeroAddress
      /\ jobs'[id].status = "Open" /\ jobs'[id].amount = amount
      /\ \A k \in JobIds : k # id => jobs'[k] = jobs[k]
  <2>1. nextJob \in Nat
    BY DEF IInv, TypeOK
  <2> QED
    BY <1>1, <2>1 DEF FundJob, IInv, TypeOK, JobRecords
<1>3. HeldBy[id] = 0 /\ HeldBy'[id] = amount
  BY <1>1, <1>2 DEF HeldBy, Held, NoJob, Settled
<1>4. /\ HeldBy' = [HeldBy EXCEPT ![id] = amount]
      /\ Locked' = Locked - 0 + amount
  BY <1>1, <1>2, <1>3, LockedUpdate DEF IInv
<1>5. /\ balance \in [Accounts \cup {EscrowAddress} -> Nat]
      /\ Locked \in Nat
      /\ balance[sender] >= amount
      /\ balance' = [balance EXCEPT ![sender] = @ - amount,
                                    ![EscrowAddress] = @ + amount]
      /\ sender # EscrowAddress
  BY <1>1, LockedType, ConstantAssumptions DEF FundJob, Deposit, IInv, TypeOK
<1>6. balance'[EscrowAddress] = balance[EscrowAddress] + amount
  BY <1>5
<1>7. [a \in Accounts |-> balance'[a]]
        = [[a \in Accounts |-> balance[a]] EXCEPT ![sender] = @ - amount]
  BY <1>5, ConstantAssumptions
<1>8. [k \in JobIds |-> jobs'[k].client]
        = [[k \in JobIds |-> jobs[k].client] EXCEPT ![id] = sender]
  BY <1>2
<1>9. [k \in JobIds |-> jobs'[k].worker] = [k \in JobIds |-> jobs[k].worker]
  BY <1>2 DEF NoJob
<1>10. balance'[EscrowAddress] - Locked' = balance[EscrowAddress] - Locked
  BY <1>1, <1>4, <1>5, <1>6
<1>11. amount \in 1..[a \in Accounts |-> balance[a]][sender]
  BY <1>1, <1>5
<1>12. [k \in JobIds |-> jobs[k].client][id] = ZeroAddress
  BY <1>1, <1>2 DEF NoJob
<1>13. Promise!Fund(id, sender, amount)
  BY <1>4, <1>7, <1>8, <1>9, <1>10, <1>12 DEF Promise!Fund
<1> QED
  BY <1>1, <1>4, <1>5, <1>6, <1>11, <1>13 DEF Promise!PNext

LEMMA DonatePromise ==
  ASSUME IInv, NEW a \in Accounts, NEW n \in Gifts, Donate(a, n)
  PROVE  /\ Promise!PNext \/ UNCHANGED Promise!pvars
         /\ Locked' = Locked
         /\ balance'[EscrowAddress] >= balance[EscrowAddress]
<1>1. /\ n \in Nat /\ a # EscrowAddress
      /\ balance \in [Accounts \cup {EscrowAddress} -> Nat]
      /\ balance[a] >= n
      /\ balance' = [balance EXCEPT ![a] = @ - n, ![EscrowAddress] = @ + n]
      /\ jobs' = jobs
  BY ConstantAssumptions DEF Donate, Deposit, jobVars, IInv, TypeOK
<1>2. HeldBy' = HeldBy /\ Locked' = Locked /\ Locked \in Nat
  <2>1. \A k \in JobIds : HeldBy'[k] = HeldBy[k]
    BY <1>1 DEF HeldBy, Held
  <2> QED
    BY <2>1, LockedSame, LockedType DEF IInv
<1>3. balance'[EscrowAddress] = balance[EscrowAddress] + n
  BY <1>1
<1>4. [x \in Accounts |-> balance'[x]]
        = [[x \in Accounts |-> balance[x]] EXCEPT ![a] = @ - n]
  BY <1>1, ConstantAssumptions
<1>5. balance'[EscrowAddress] - Locked' = balance[EscrowAddress] - Locked + n
  BY <1>1, <1>2, <1>3
<1>6. CASE n = 0
  <2>1. [x \in Accounts |-> balance'[x]] = [x \in Accounts |-> balance[x]]
    BY <1>1, <1>6, ConstantAssumptions
  <2>2. balance'[EscrowAddress] - Locked' = balance[EscrowAddress] - Locked
    BY <1>1, <1>2, <1>3, <1>6
  <2> QED
    BY <1>1, <1>2, <1>3, <2>1, <2>2 DEF Promise!pvars
<1>7. CASE n # 0
  <2>1. n \in 1..[x \in Accounts |-> balance[x]][a]
    BY <1>1, <1>7
  <2>2. Promise!Tip(a, n)
    BY <1>1, <1>2, <1>4, <1>5 DEF Promise!Tip
  <2> QED
    BY <1>1, <1>2, <1>3, <2>1, <2>2 DEF Promise!PNext
<1> QED
  BY <1>6, <1>7

LEMMA AcceptPromise ==
  ASSUME IInv, NEW id \in JobIds, NEW s \in Proofs, Accept(id, s)
  PROVE  Promise!PNext /\ Locked' = Locked /\ balance' = balance
<1>1. /\ jobs \in [JobIds -> Job]
      /\ jobs[id].worker = ZeroAddress /\ jobs[id].client # ZeroAddress
      /\ jobs[id].status = "Open"
      /\ jobs[id].amount > 0
      /\ jobs' = [jobs EXCEPT ![id].worker = s.recipient,
                              ![id].status = "Accepted"]
      /\ balance' = balance
  BY DEF Accept, IInv, TypeOK, OneAdmissionPerJob, JobRecords, NoJob
<1>2. s.recipient \in Addresses \ {ZeroAddress}
  BY DEF Accept, AcceptableStatement, Proofs, Statement
<1>3. /\ jobs'[id].worker = s.recipient /\ jobs'[id].client = jobs[id].client
      /\ jobs'[id].amount = jobs[id].amount /\ jobs'[id].status = "Accepted"
      /\ \A k \in JobIds : k # id => jobs'[k] = jobs[k]
  BY <1>1 DEF Job
<1>4. HeldBy' = HeldBy /\ Locked' = Locked
  <2>1. \A k \in JobIds : HeldBy'[k] = HeldBy[k]
    BY <1>1, <1>3 DEF HeldBy, Held, Settled
  <2> QED
    BY <2>1, LockedSame
<1>5. HeldBy[id] > 0
  BY <1>1 DEF HeldBy, Held, Settled
<1>6. [k \in JobIds |-> jobs'[k].worker]
        = [[k \in JobIds |-> jobs[k].worker] EXCEPT ![id] = s.recipient]
  BY <1>3
<1>7. [k \in JobIds |-> jobs'[k].client] = [k \in JobIds |-> jobs[k].client]
  BY <1>3
<1>8. Promise!Assign(id, s.recipient)
  BY <1>1, <1>4, <1>5, <1>6, <1>7 DEF Promise!Assign
<1> QED
  BY <1>1, <1>2, <1>4, <1>8 DEF Promise!PNext

LEMMA DeliverPromise ==
  ASSUME IInv, NEW sender \in Accounts, NEW id \in JobIds,
         NEW ref \in Documents, Deliver(sender, id, ref)
  PROVE  UNCHANGED Promise!pvars /\ Locked' = Locked /\ balance' = balance
<1>1. /\ jobs \in [JobIds -> Job]
      /\ jobs[id].status = "Accepted"
      /\ jobs' = [jobs EXCEPT ![id].deliverable = ref,
                              ![id].status = "Submitted"]
      /\ balance' = balance
  BY DEF Deliver, IInv, TypeOK
<1>2. /\ jobs'[id].worker = jobs[id].worker
      /\ jobs'[id].client = jobs[id].client
      /\ jobs'[id].amount = jobs[id].amount /\ jobs'[id].status = "Submitted"
      /\ \A k \in JobIds : k # id => jobs'[k] = jobs[k]
  BY <1>1 DEF Job
<1>3. HeldBy' = HeldBy /\ Locked' = Locked
  <2>1. \A k \in JobIds : HeldBy'[k] = HeldBy[k]
    BY <1>1, <1>2 DEF HeldBy, Held, Settled
  <2> QED
    BY <2>1, LockedSame
<1>4. /\ [k \in JobIds |-> jobs'[k].worker] = [k \in JobIds |-> jobs[k].worker]
      /\ [k \in JobIds |-> jobs'[k].client] = [k \in JobIds |-> jobs[k].client]
  BY <1>2
<1> QED
  BY <1>1, <1>3, <1>4 DEF Promise!pvars

\* Every release empties one vault: worker and client share the amount.
LEMMA PayoutPromise ==
  ASSUME IInv, IInv', NEW id \in JobIds, NEW w \in Nat, NEW c \in Nat,
         w + c = jobs[id].amount, Payout(id, w, c),
         NEW to \in Settled, Transition(id, jobs[id].status, to),
         jobs[id].status \notin Settled, jobs[id].client # ZeroAddress,
         w > 0 => jobs[id].deliverable # NoDocument
  PROVE  /\ Promise!PNext
         /\ Locked - Locked' = balance[EscrowAddress] - balance'[EscrowAddress]
<1>1. /\ jobs \in [JobIds -> Job]
      /\ jobs' = [jobs EXCEPT ![id].status = to]
      /\ balance \in [Accounts \cup {EscrowAddress} -> Nat]
      /\ Locked \in Nat
  BY LockedType DEF Transition, IInv, TypeOK
<1>2. /\ jobs'[id].worker = jobs[id].worker
      /\ jobs'[id].client = jobs[id].client
      /\ jobs'[id].status = to
      /\ \A k \in JobIds : k # id => jobs'[k] = jobs[k]
  BY <1>1 DEF Job
<1>3. /\ jobs[id].client \in Accounts
      /\ jobs[id].amount > 0
      /\ w > 0 => jobs[id].worker \in Accounts
  BY DEF IInv, JobRecords, NoJob
<1>4. /\ HeldBy[id] = w + c /\ HeldBy'[id] = 0
  BY <1>2 DEF HeldBy, Held
<1>5. /\ HeldBy' = [HeldBy EXCEPT ![id] = 0]
      /\ Locked' = Locked - (w + c) + 0
  BY <1>2, <1>4, LockedUpdate DEF IInv
<1>6. balance' = [a \in Accounts \cup {EscrowAddress} |->
         balance[a] - (IF a = EscrowAddress THEN w + c ELSE 0)
           + (IF a = jobs[id].worker THEN w ELSE 0)
           + (IF a = jobs[id].client THEN c ELSE 0)]
  BY <1>1 DEF Payout
<1>7. balance'[EscrowAddress] = balance[EscrowAddress] - (w + c)
  BY <1>1, <1>3, <1>6, ConstantAssumptions
<1>8. [a \in Accounts |-> balance'[a]]
        = [a \in Accounts |->
             [x \in Accounts |-> balance[x]][a]
               + (IF a = [k \in JobIds |-> jobs[k].worker][id] THEN w ELSE 0)
               + (IF a = [k \in JobIds |-> jobs[k].client][id]
                  THEN HeldBy[id] - w ELSE 0)]
  <2>1. HeldBy[id] - w = c
    BY <1>4
  <2>2. ASSUME NEW a \in Accounts
        PROVE  balance'[a] = balance[a]
                 + (IF a = jobs[id].worker THEN w ELSE 0)
                 + (IF a = jobs[id].client THEN c ELSE 0)
    BY <1>1, <1>6, <2>2, ConstantAssumptions
  <2> QED
    BY <2>1, <2>2
<1>9. /\ [k \in JobIds |-> jobs'[k].worker] = [k \in JobIds |-> jobs[k].worker]
      /\ [k \in JobIds |-> jobs'[k].client] = [k \in JobIds |-> jobs[k].client]
  BY <1>2
<1>10. balance'[EscrowAddress] - Locked' = balance[EscrowAddress] - Locked
  BY <1>1, <1>5, <1>7
<1>11. HeldBy[id] > 0 /\ w \in 0..HeldBy[id]
  BY <1>3, <1>4
<1>12. w > 0 => [k \in JobIds |-> jobs[k].worker][id] \in Accounts
  BY <1>3
<1>13. Promise!Release(id, w)
  BY <1>5, <1>8, <1>9, <1>10, <1>11, <1>12 DEF Promise!Release
<1> QED
  BY <1>1, <1>5, <1>7, <1>11, <1>13 DEF Promise!PNext

LEMMA ReleasePromise ==
  ASSUME IInv, IInv', AnyRelease
  PROVE  /\ Promise!PNext \/ UNCHANGED Promise!pvars
         /\ Locked - Locked' = balance[EscrowAddress] - balance'[EscrowAddress]
<1>1. PICK sender \in Accounts, id \in JobIds :
        \/ ApproveAndPay(sender, id)
        \/ ClaimAfterReview(sender, id)
        \/ Dispute(sender, id)
        \/ Refund(sender, id)
        \/ \E share \in Shares : ResolveDispute(sender, id, share)
  BY DEF AnyRelease
<1>2. /\ jobs \in [JobIds -> Job] /\ jobs[id].amount \in Nat
      /\ balance \in [Accounts \cup {EscrowAddress} -> Nat]
      /\ Locked \in Nat
  BY LockedType DEF IInv, TypeOK, Job
<1>3. jobs[id].client # ZeroAddress
  BY <1>1, ConstantAssumptions
     DEF ApproveAndPay, ClaimAfterReview, Dispute, Refund, ResolveDispute,
         Transition, IInv, OneAdmissionPerJob, JobRecords, NoJob
<1>4. CASE Dispute(sender, id)
  <2>1. /\ jobs[id].status = "Submitted"
        /\ jobs' = [jobs EXCEPT ![id].status = "Disputed"]
        /\ balance' = balance
    BY <1>4 DEF Dispute, Transition
  <2>2. /\ jobs'[id].worker = jobs[id].worker
        /\ jobs'[id].client = jobs[id].client
        /\ jobs'[id].amount = jobs[id].amount
        /\ jobs'[id].status = "Disputed"
        /\ \A k \in JobIds : k # id => jobs'[k] = jobs[k]
    BY <1>2, <2>1 DEF Job
  <2>3. HeldBy' = HeldBy /\ Locked' = Locked
    <3>1. \A k \in JobIds : HeldBy'[k] = HeldBy[k]
      BY <2>1, <2>2 DEF HeldBy, Held, Settled
    <3> QED
      BY <3>1, LockedSame
  <2>4. /\ [k \in JobIds |-> jobs'[k].worker]
             = [k \in JobIds |-> jobs[k].worker]
        /\ [k \in JobIds |-> jobs'[k].client]
             = [k \in JobIds |-> jobs[k].client]
    BY <2>2
  <2> QED
    BY <1>2, <2>1, <2>3, <2>4 DEF Promise!pvars
<1>5. CASE ApproveAndPay(sender, id) \/ ClaimAfterReview(sender, id)
  <2>1. /\ jobs[id].status = "Submitted"
        /\ Transition(id, jobs[id].status, "Paid")
        /\ Payout(id, jobs[id].amount, 0)
    BY <1>5 DEF ApproveAndPay, ClaimAfterReview, Transition
  <2>2. jobs[id].deliverable # NoDocument
    BY <2>1 DEF IInv, DeliveredIsNeverRefunded
  <2> QED
    BY <1>2, <1>3, <2>1, <2>2, PayoutPromise DEF Settled
<1>6. CASE Refund(sender, id)
  <2>1. /\ jobs[id].status \in {"Open", "Accepted"}
        /\ Transition(id, jobs[id].status, "Refunded")
        /\ Payout(id, 0, jobs[id].amount)
    BY <1>6 DEF Refund, Refundable
  <2> QED
    BY <1>2, <1>3, <2>1, PayoutPromise DEF Settled
<1>7. ASSUME NEW share \in Shares, ResolveDispute(sender, id, share)
      PROVE  /\ Promise!PNext
             /\ Locked - Locked'
                  = balance[EscrowAddress] - balance'[EscrowAddress]
  <2> DEFINE rest == ClientShare(id, share)
  <2>1. share \in Nat /\ rest \in Nat /\ share + rest = jobs[id].amount
    BY <1>2, <1>7, ConstantAssumptions
       DEF ResolveDispute, ShareWithin, ClientShare
  <2>2. /\ jobs[id].status = "Disputed"
        /\ Transition(id, jobs[id].status, "Resolved")
        /\ Payout(id, share, rest)
    BY <1>7 DEF ResolveDispute, Transition
  <2>3. jobs[id].deliverable # NoDocument
    BY <2>2 DEF IInv, DeliveredIsNeverRefunded
  <2> HIDE DEF rest
  <2> QED
    BY <1>3, <2>1, <2>2, <2>3, PayoutPromise DEF Settled
<1> QED
  BY <1>1, <1>4, <1>5, <1>6, <1>7

\* Every step keeps the promise and changes the surplus only upwards.
LEMMA NextPromise ==
  ASSUME IInv, IInv', [Next]_vars
  PROVE  /\ [Promise!PNext]_(Promise!pvars)
         /\ Solvency => Solvency'
<1>1. /\ balance[EscrowAddress] \in Nat /\ balance'[EscrowAddress] \in Nat
      /\ Locked \in Nat /\ Locked' \in Nat
  <2>1. Locked' \in Nat
    <3>1. HeldBy' \in [JobIds -> Nat]
      BY DEF IInv, TypeOK, HeldBy, Held, Job
    <3>2. IsFiniteSet(Units(HeldBy'))
      BY <3>1, UnitsFinite DEF Units
    <3>3. Cardinality(Units(HeldBy')) \in Nat
      BY <3>2, FS_CardinalityType
    <3> QED
      BY <3>3 DEF Locked, Units
  <2> QED
    BY <2>1, LockedType DEF IInv, TypeOK
<1>2. ASSUME jobs' = jobs, balance' = balance
      PROVE  UNCHANGED Promise!pvars /\ Locked' = Locked
  <2>1. HeldBy' = HeldBy /\ Locked' = Locked
    <3>1. \A k \in JobIds : HeldBy'[k] = HeldBy[k]
      BY <1>2 DEF HeldBy, Held
    <3> QED
      BY <3>1, LockedSame
  <2> QED
    BY <1>2, <2>1 DEF Promise!pvars
<1>3. CASE Tick \/ UNCHANGED vars
  BY <1>2, <1>3 DEF Tick, vars, jobVars, Solvency
<1>4. ASSUME NEW sender \in Accounts, NEW root \in SUBSET Indexes,
             SetRoot(sender, root)
      PROVE  UNCHANGED Promise!pvars /\ (Solvency => Solvency')
  BY <1>2, <1>4 DEF SetRoot, jobVars, Solvency
<1>5. ASSUME NEW a \in Accounts, NEW n \in Gifts, Donate(a, n)
      PROVE  /\ Promise!PNext \/ UNCHANGED Promise!pvars
             /\ Solvency => Solvency'
  BY <1>1, <1>5, DonatePromise DEF Solvency
<1>6. ASSUME AnyCreate
      PROVE  Promise!PNext /\ (Solvency => Solvency')
  <2>1. PICK sender \in Accounts, amount \in Amounts, class \in Classes,
             window \in Windows, terms \in Documents, fee \in Fees :
          FundJob(sender, amount, class, window, terms, fee)
    BY <1>6 DEF AnyCreate, CreateJob, CreateJobWithDocument
  <2> QED
    BY <1>1, <2>1, FundPromise DEF Solvency
<1>7. ASSUME NEW id \in JobIds, NEW s \in Proofs, Accept(id, s)
      PROVE  Promise!PNext /\ (Solvency => Solvency')
  BY <1>7, AcceptPromise DEF Solvency
<1>8. ASSUME AnySubmit
      PROVE  UNCHANGED Promise!pvars /\ (Solvency => Solvency')
  <2>1. PICK sender \in Accounts, id \in JobIds, ref \in Documents :
          Deliver(sender, id, ref)
    BY <1>8 DEF AnySubmit, Submit, SubmitDocument
  <2> QED
    BY <2>1, DeliverPromise DEF Solvency
<1>9. ASSUME AnyRelease
      PROVE  /\ Promise!PNext \/ UNCHANGED Promise!pvars
             /\ Solvency => Solvency'
  BY <1>1, <1>9, ReleasePromise DEF Solvency
<1> QED
  BY <1>3, <1>4, <1>5, <1>6, <1>7, <1>8, <1>9 DEF Next

\* The pool covers what every unsettled job holds, for every number of jobs
\* and every order of releases (_createJob and the five releasing calls).
THEOREM Solvent == Spec => []Solvency
<1>1. Init => Solvency
  <2> SUFFICES ASSUME Init PROVE Solvency
    OBVIOUS
  <2>1. HeldBy \in [JobIds -> Nat] /\ \A id \in JobIds : HeldBy[id] = 0
    BY DEF Init, HeldBy, Held, NoJob
  <2>2. Locked = 0
    BY <2>1, UnitsOfNothing DEF Locked
  <2> QED
    BY <2>2 DEF Init, Solvency
<1>2. IInv /\ IInv' /\ [Next]_vars /\ Solvency => Solvency'
  BY NextPromise
<1> QED
  BY <1>1, <1>2, InitIInv, NextIInv, PTL DEF Spec

\* The contract implements EscrowPromise: one vault per job, released once,
\* in full, to its client and its assigned worker only.
THEOREM ImplementsPromise == Spec => KeepsPromise
<1>1. Init => Promise!PInit
  BY InitPromise
<1>2. IInv /\ IInv' /\ [Next]_vars => [Promise!PNext]_(Promise!pvars)
  BY NextPromise
<1> QED
  BY <1>1, <1>2, InitIInv, NextIInv, PTL DEF Spec, KeepsPromise, Promise!PSpec

-----------------------------------------------------------------------------
(* What is offered can be done, and nothing else is done.                  *)

LEMMA UnsettledIsPayable ==
  ASSUME IInv, Solvency, NEW id \in 1..nextJob, jobs[id].status \notin Settled
  PROVE  /\ jobs[id].client \in Accounts
         /\ jobs[id].amount <= balance[EscrowAddress]
<1>1. /\ id \in JobIds /\ id <= nextJob /\ jobs[id].client \in Accounts
  BY ConstantAssumptions DEF IInv, TypeOK, JobRecords, JobIds
<1>2. /\ HeldBy \in [JobIds -> Nat] /\ HeldBy[id] = jobs[id].amount
      /\ balance[EscrowAddress] \in Nat /\ Locked \in Nat
  BY <1>1, HeldType, LockedType DEF IInv, TypeOK, HeldBy, Held
<1>3. HeldBy[id] <= Locked
  <2> DEFINE rest == UNION {{k} \X (1..HeldBy[k]) : k \in JobIds \ {id}}
  <2>1. /\ Cardinality(rest) \in Nat
        /\ Cardinality(Units(HeldBy)) = Cardinality(rest) + HeldBy[id]
    BY <1>1, <1>2, UnitsSplit
  <2> HIDE DEF rest
  <2> QED
    BY <1>1, <1>2, <2>1 DEF Locked
<1> QED
  BY <1>1, <1>2, <1>3 DEF Solvency

LEMMA OffersHold == IInv /\ Solvency => OffersStand
<1> SUFFICES ASSUME IInv, Solvency, NEW id \in 1..nextJob
             PROVE  LET job == jobs[id]
                        offer == Eligibility(id)
                        payable == job.amount <= balance[EscrowAddress]
                    IN /\ offer.refund => job.client \in Accounts /\ Refundable(id) /\ payable
                       /\ offer.submit => job.worker # ZeroAddress
                       /\ offer.dispute => job.client \in Accounts /\ ReviewOpen(id)
                       /\ offer.claim => job.worker \in Accounts /\ ReviewOver(id) /\ payable
                       /\ job.status \in {"Submitted", "Disputed"} =>
                            /\ job.client \in Accounts /\ job.worker \in Accounts
                            /\ payable
                       /\ ~(offer.refund /\ (offer.accept \/ offer.submit))
                       /\ ~(offer.dispute /\ offer.claim)
  BY DEF OffersStand
<1>1. /\ id \in JobIds /\ id <= nextJob
      /\ jobs[id].acceptBefore \in Times /\ jobs[id].submitBefore \in Times
      /\ jobs[id].reviewBefore \in Times /\ now \in Times
  BY ConstantAssumptions DEF IInv, TypeOK, JobIds, Job
<1>2. jobs[id].status \notin Settled =>
        jobs[id].client \in Accounts /\ jobs[id].amount <= balance[EscrowAddress]
  BY UnsettledIsPayable
<1>3. jobs[id].status = "Accepted" => jobs[id].worker # ZeroAddress
  BY <1>1 DEF IInv, OneAdmissionPerJob
<1>4. jobs[id].status \in {"Submitted", "Disputed"} => jobs[id].worker \in Accounts
  BY <1>1 DEF IInv, DeliveredIsNeverRefunded, JobRecords
<1>5. /\ Eligibility(id).accept <=> jobs[id].status = "Open" /\ now < jobs[id].acceptBefore
      /\ Eligibility(id).submit <=> jobs[id].status = "Accepted" /\ now <= jobs[id].submitBefore
      /\ Eligibility(id).dispute <=> jobs[id].status = "Submitted" /\ now <= jobs[id].reviewBefore
      /\ Eligibility(id).claim <=> jobs[id].status = "Submitted" /\ now > jobs[id].reviewBefore
      /\ Eligibility(id).refund <=> Refundable(id)
  BY DEF Eligibility, Refundable
<1>6. \A a, b \in Times : ~(a < b /\ a >= b) /\ ~(a <= b /\ a > b)
  BY DEF Times
<1>7. ~(Eligibility(id).refund /\ (Eligibility(id).accept \/ Eligibility(id).submit))
  BY <1>1, <1>5, <1>6 DEF Refundable
<1>8. ~(Eligibility(id).dispute /\ Eligibility(id).claim)
  BY <1>1, <1>5, <1>6
<1> QED
  BY <1>2, <1>3, <1>4, <1>5, <1>7, <1>8 DEF Settled, Refundable, ReviewOpen, ReviewOver

\* The page's comparisons and the contract's agree for every call.
LEMMA OfferedOfNext == IInv /\ [Next]_vars => [OfferedStep]_vars
<1> SUFFICES ASSUME IInv, Next, NEW id \in 1..nextJob
             PROVE  LET offer == Eligibility(id)
                        moves(to) == jobs[id].status # to /\ jobs'[id].status = to
                    IN /\ moves("Accepted") => offer.accept
                       /\ moves("Submitted") => offer.submit
                       /\ moves("Disputed") => offer.dispute
                       /\ moves("Refunded") => offer.refund
                       /\ moves("Paid") => offer.dispute \/ offer.claim
                       /\ moves("Resolved") => jobs[id].status = "Disputed"
                       /\ ~moves("Open")
  BY DEF OfferedStep
<1> DEFINE moves(to) == jobs[id].status # to /\ jobs'[id].status = to
           Offered == /\ moves("Accepted") => Eligibility(id).accept
                      /\ moves("Submitted") => Eligibility(id).submit
                      /\ moves("Disputed") => Eligibility(id).dispute
                      /\ moves("Refunded") => Eligibility(id).refund
                      /\ moves("Paid") => Eligibility(id).dispute \/ Eligibility(id).claim
                      /\ moves("Resolved") => jobs[id].status = "Disputed"
                      /\ ~moves("Open")
<1> SUFFICES Offered
  OBVIOUS
<1>1. /\ id \in JobIds /\ jobs \in [JobIds -> Job] /\ jobs[id] \in Job
      /\ nextJob + 1 # id /\ now \in Times /\ jobs[id].reviewBefore \in Times
  BY ConstantAssumptions DEF IInv, TypeOK, JobIds, Job
<1>2. ASSUME jobs'[id].status = jobs[id].status
      PROVE  Offered
  BY <1>2
<1>3. ASSUME NEW k \in JobIds, k # id, \A x \in JobIds : x # k => jobs'[x] = jobs[x]
      PROVE  Offered
  BY <1>1, <1>2, <1>3
<1>4. CASE \/ Tick
           \/ \E sender \in Accounts, root \in SUBSET Indexes : SetRoot(sender, root)
           \/ \E a \in Accounts, n \in Gifts : Donate(a, n)
  BY <1>2, <1>4 DEF Tick, SetRoot, Donate, jobVars
<1>5. CASE AnyCreate
  <2>1. jobs'[id] = jobs[id]
    BY <1>1, <1>5 DEF AnyCreate, CreateJob, CreateJobWithDocument, FundJob
  <2> QED
    BY <1>2, <2>1
<1>6. ASSUME NEW k \in JobIds, NEW s \in Proofs, Accept(k, s)
      PROVE  Offered
  <2>1. /\ jobs' = [jobs EXCEPT ![k].worker = s.recipient, ![k].status = "Accepted"]
        /\ jobs[k].status = "Open" /\ now < jobs[k].acceptBefore
    BY <1>6 DEF Accept, AcceptableStatement
  <2>2. CASE k = id
    <3>1. jobs'[id].status = "Accepted"
      BY <1>1, <2>1, <2>2 DEF Job
    <3> QED
      BY <2>1, <2>2, <3>1 DEF Eligibility
  <2>3. CASE k # id
    BY <1>1, <1>3, <2>1, <2>3
  <2> QED
    BY <2>2, <2>3
<1>7. CASE AnySubmit
  <2>1. PICK sender \in Accounts, k \in JobIds, ref \in Documents : Deliver(sender, k, ref)
    BY <1>7 DEF AnySubmit, Submit, SubmitDocument
  <2>2. /\ jobs' = [jobs EXCEPT ![k].deliverable = ref, ![k].status = "Submitted"]
        /\ jobs[k].status = "Accepted" /\ now <= jobs[k].submitBefore
    BY <2>1 DEF Deliver
  <2>3. CASE k = id
    <3>1. jobs'[id].status = "Submitted"
      BY <1>1, <2>2, <2>3 DEF Job
    <3> QED
      BY <2>2, <2>3, <3>1 DEF Eligibility
  <2>4. CASE k # id
    BY <1>1, <1>3, <2>2, <2>4
  <2> QED
    BY <2>3, <2>4
<1>8. CASE AnyRelease
  <2>1. PICK sender \in Accounts, k \in JobIds :
          \/ ApproveAndPay(sender, k)
          \/ ClaimAfterReview(sender, k)
          \/ Dispute(sender, k)
          \/ Refund(sender, k)
          \/ \E share \in Shares : ResolveDispute(sender, k, share)
    BY <1>8 DEF AnyRelease
  <2>2. PICK to \in {"Paid", "Disputed", "Refunded", "Resolved"} :
          /\ jobs' = [jobs EXCEPT ![k].status = to]
          /\ to = "Paid" => jobs[k].status = "Submitted"
          /\ to = "Disputed" => jobs[k].status = "Submitted" /\ now <= jobs[k].reviewBefore
          /\ to = "Refunded" => Refundable(k)
          /\ to = "Resolved" => jobs[k].status = "Disputed"
    BY <2>1 DEF ApproveAndPay, ClaimAfterReview, Dispute, Refund, ResolveDispute, Transition,
                ReviewOpen
  <2>3. CASE k = id
    <3>1. jobs'[id].status = to
      BY <1>1, <2>2, <2>3 DEF Job
    <3>2. now <= jobs[id].reviewBefore \/ now > jobs[id].reviewBefore
      BY <1>1 DEF Times
    <3> QED
      BY <2>2, <2>3, <3>1, <3>2 DEF Eligibility, Refundable
  <2>4. CASE k # id
    BY <1>1, <1>3, <2>2, <2>4
  <2> QED
    BY <2>3, <2>4
<1> QED
  BY <1>4, <1>5, <1>6, <1>7, <1>8 DEF Next

\* Safety and its converse: what the page offers for a job would not revert
\* for want of a party or of tokens, whatever other jobs share the pool, and
\* a job moves only by a step offered at that time (the six functions that
\* compare a deadline, and deadlineEligibility in journey.ts).
THEOREM OffersAreExact == Spec => []OffersStand /\ [][OfferedStep]_vars
<1>1. Init => IInv
  BY InitIInv
<1>2. IInv /\ [Next]_vars => IInv'
  BY NextIInv
<1>3. Spec => []IInv
  BY <1>1, <1>2, PTL DEF Spec
<1>4. IInv /\ Solvency => OffersStand
  BY OffersHold
<1>5. IInv /\ [Next]_vars => [OfferedStep]_vars
  BY OfferedOfNext
<1> QED
  BY <1>3, <1>4, <1>5, Solvent, PTL DEF Spec

=============================================================================
