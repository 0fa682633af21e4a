------------------------------ MODULE Workbench -----------------------------
(***************************************************************************)
(* The local workbench (runtime/start.mjs): one helper process holds every *)
(* role's wallet, the issuer snapshot, the current proof and the document  *)
(* references, and performs one action at a time behind a busy flag.  An   *)
(* action makes several awaited calls (prover, storage, transactions); any *)
(* may fail and leave what the calls before it did.                        *)
(***************************************************************************)
EXTENDS Integers, Sequences

CONSTANTS
    Posts,               \* concurrent POST /api/action
    MaxJobs, MaxActions, \* bounds
    NoProof, NoDocument

Jobs == 1 .. MaxJobs
Roots == {"clear", "revoked"}
Statuses == {"Open", "Accepted", "Submitted", "Paid", "Disputed", "Resolved"}
Actions == {"create", "prove", "accept", "revoke", "restore", "submit-document",
            "retrieve", "pay", "dispute", "resolve"}
Proof == [job : Jobs, root : Roots]

ASSUME WorkbenchAssumptions ==
    MaxJobs \in Nat \ {0} /\ MaxActions \in Nat /\ NoProof \notin Proof

VARIABLES
    jobs, committed, escrowRoot,              \* the escrow: statuses, deliverables, root
    helperBusy, advertised, current,          \* helper: busy, snapshotRef, currentProof
    documents,                                \* helper: documents
    post, actions                             \* requests, and a bound on them
workbenchVars == <<jobs, committed, escrowRoot, helperBusy, advertised, current, documents,
                   post, actions>>

\* A request: its action and job, the step its action has reached, and what
\* it will answer about its own job.
Steps == {"none", "arrived", "started", "reading", "sending", "written", "reporting"}
Post == [step : Steps, action : Actions, job : Jobs, got : Jobs \union {0}]
NoPost == [step |-> "none", action |-> "create", job |-> 1, got |-> 0]

WorkbenchTypeOK ==
    /\ jobs \in Seq(Statuses) /\ Len(jobs) <= MaxJobs
    /\ committed \in [Jobs -> Nat \union {NoDocument}] /\ escrowRoot \in Roots
    /\ helperBusy \in BOOLEAN /\ advertised \in Roots /\ current \in Proof \union {NoProof}
    /\ documents \in [Jobs -> Nat \union {NoDocument}]
    /\ post \in [Posts -> Post] /\ actions \in 0 .. MaxActions

\* bootstrap, the self test (which reverts the chain) and the first job.
WorkbenchInit ==
    /\ jobs = <<"Open">> /\ committed = [j \in Jobs |-> NoDocument] /\ escrowRoot = "clear"
    /\ helperBusy = FALSE /\ advertised = "clear" /\ current = NoProof
    /\ documents = [j \in Jobs |-> NoDocument]
    /\ post = [p \in Posts |-> NoPost] /\ actions = 0

Escrow == <<jobs, committed, escrowRoot>>
Helper == <<advertised, current, documents>>
Put(p, o) == post' = [post EXCEPT ![p] = o]
Goto(p, step) == Put(p, [post[p] EXCEPT !.step = step])
Doing(p, step, as) == post[p].step = step /\ post[p].action \in as

\* A request arrives while the flag is down and its body is read.
Arrive(p) ==
    /\ post[p].step = "none" /\ ~helperBusy /\ actions < MaxActions
    /\ \E a \in Actions, j \in 1 .. Len(jobs) :
         Put(p, [NoPost EXCEPT !.step = "arrived", !.action = a, !.job = j])
    /\ actions' = actions + 1
    /\ UNCHANGED <<Escrow, Helper, helperBusy>>

\* Reading the body yields, so the flag is checked again before it is taken.
MutFree == TRUE
Free == ~helperBusy

Take(p) ==
    /\ post[p].step = "arrived"
    /\ IF Free THEN Goto(p, "started") /\ helperBusy' = TRUE
               ELSE Put(p, NoPost) /\ UNCHANGED helperBusy
    /\ UNCHANGED <<Escrow, Helper, actions>>

\* Any call fails: the error is answered and the flag released, nothing of
\* what was done is undone.
Fail(p) ==
    /\ post[p].step \notin {"none", "arrived"}
    /\ Put(p, NoPost) /\ helperBusy' = FALSE
    /\ UNCHANGED <<Escrow, Helper, actions>>

\* newJob: the transaction, then the proof is dropped and the id read.
Create(p) ==
    /\ Doing(p, "started", {"create"}) /\ Len(jobs) < MaxJobs
    /\ jobs' = Append(jobs, "Open")
    /\ Put(p, [post[p] EXCEPT !.step = "written", !.job = Len(jobs) + 1])
    /\ UNCHANGED <<committed, escrowRoot, Helper, helperBusy, actions>>

Created(p) ==
    /\ Doing(p, "written", {"create"})
    /\ current' = NoProof
    /\ Put(p, [post[p] EXCEPT !.step = "reporting", !.got = Len(jobs)])
    /\ UNCHANGED <<Escrow, advertised, documents, helperBusy, actions>>

\* generate: the advertised snapshot must match the root on chain.
Forget(p) ==
    /\ Doing(p, "started", {"prove"})
    /\ current' = NoProof
    /\ Goto(p, "reading")
    /\ UNCHANGED <<Escrow, advertised, documents, helperBusy, actions>>

Matches == advertised = escrowRoot

Check(p) ==
    /\ Doing(p, "reading", {"prove"}) /\ Matches /\ advertised = "clear"
    /\ Goto(p, "written")
    /\ UNCHANGED <<Escrow, Helper, helperBusy, actions>>

Prove(p) ==
    /\ Doing(p, "written", {"prove"})
    /\ current' = [job |-> post[p].job, root |-> advertised]
    /\ Goto(p, "reporting")
    /\ UNCHANGED <<Escrow, advertised, documents, helperBusy, actions>>

\* accept: the helper wants a proof for this job, the contract one for its
\* root as well.
Accept(p) ==
    /\ Doing(p, "started", {"accept"})
    /\ current # NoProof /\ current.job = post[p].job
    /\ jobs[post[p].job] = "Open" /\ current.root = escrowRoot
    /\ jobs' = [jobs EXCEPT ![post[p].job] = "Accepted"]
    /\ Goto(p, "reporting")
    /\ UNCHANGED <<committed, escrowRoot, Helper, helperBusy, actions>>

\* updateRoot: the snapshot is stored and advertised, then the root is set.
Target(p) == IF post[p].action = "revoke" THEN "revoked" ELSE "clear"

Advertise(p) ==
    /\ Doing(p, "started", {"revoke", "restore"})
    /\ advertised' = Target(p)
    /\ Goto(p, "sending")
    /\ UNCHANGED <<Escrow, current, documents, helperBusy, actions>>

SetRoot(p) ==
    /\ Doing(p, "sending", {"revoke", "restore"})
    /\ escrowRoot' = Target(p)
    /\ Goto(p, "reporting")
    /\ UNCHANGED <<jobs, committed, Helper, helperBusy, actions>>

\* submit-document: stored, committed by the contract, then remembered.
Submit(p) ==
    /\ Doing(p, "started", {"submit-document"}) /\ jobs[post[p].job] = "Accepted"
    /\ jobs' = [jobs EXCEPT ![post[p].job] = "Submitted"]
    /\ committed' = [committed EXCEPT ![post[p].job] = actions]
    /\ Goto(p, "written")
    /\ UNCHANGED <<escrowRoot, Helper, helperBusy, actions>>

Remember(p) ==
    /\ Doing(p, "written", {"submit-document"})
    /\ documents' = [documents EXCEPT ![post[p].job] = committed[post[p].job]]
    /\ Goto(p, "reporting")
    /\ UNCHANGED <<Escrow, advertised, current, helperBusy, actions>>

\* pay, dispute and resolve are one transaction, retrieve one download.
Settle(p) ==
    LET j == post[p].job
        Moves(a, from, to) ==
            post[p].action = a /\ jobs[j] = from /\ jobs' = [jobs EXCEPT ![j] = to]
    IN  /\ post[p].step = "started"
        /\ \/ Moves("pay", "Submitted", "Paid")
           \/ Moves("dispute", "Submitted", "Disputed")
           \/ Moves("resolve", "Disputed", "Resolved")
        /\ Goto(p, "reporting")
        /\ UNCHANGED <<committed, escrowRoot, Helper, helperBusy, actions>>

Retrieve(p) ==
    /\ Doing(p, "started", {"retrieve"}) /\ documents[post[p].job] # NoDocument
    /\ Goto(p, "reporting")
    /\ UNCHANGED <<Escrow, Helper, helperBusy, actions>>

\* state: what the answer says; a prove request's answer is the proof.
Report(p) ==
    /\ post[p].step = "reporting"
    /\ Put(p, NoPost) /\ helperBusy' = FALSE
    /\ UNCHANGED <<Escrow, Helper, actions>>

WorkbenchNext ==
    \E p \in Posts :
        \/ Arrive(p) \/ Take(p) \/ Fail(p) \/ Report(p)
        \/ Create(p) \/ Created(p) \/ Forget(p) \/ Check(p) \/ Prove(p) \/ Accept(p)
        \/ Advertise(p) \/ SetRoot(p) \/ Submit(p) \/ Remember(p) \/ Settle(p) \/ Retrieve(p)

WorkbenchSpec == WorkbenchInit /\ [][WorkbenchNext]_workbenchVars

(***************************************************************************)
(* Properties.                                                             *)
(***************************************************************************)
\* Safety: an answer is about the request's own job: the id a create
\* returns is the job it funded, and the proof a prove reports is for the
\* job it was asked for and made against the root the chain holds, although
\* requests overlap and a root update may store its snapshot and then fail.
AnswersAreOwn ==
    \A p \in Posts :
        post[p].step = "reporting" =>
            /\ post[p].action = "create" => post[p].got = post[p].job
            /\ post[p].action = "prove" =>
                  /\ current # NoProof
                  /\ current.job = post[p].job /\ current.root = escrowRoot
=============================================================================
