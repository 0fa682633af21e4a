------------------------- MODULE PageJourneyProofs --------------------------
(***************************************************************************)
(* Proofs about PageJourney.  Three ideas carry PageInv: an operation that *)
(* is still in its session was begun by the account the page shows; an     *)
(* account the page shows is the wallet's unless an event is on its way;   *)
(* and a task, once funded, keeps its client and its terms.                *)
(***************************************************************************)
EXTENDS PageJourney, TLAPS

PageSteps == {"idle", "choosing", "asking", "network", "selecting", "device", "refreshing",
              "keying", "timing", "storing", "signing", "settling", "deciding", "rereading",
              "passing", "reading", "proving", "checking", "fetching",
              "verifying", "leaving", "arriving", "listing", "returning"}

Task == [name : Operations \union {"none"}, step : PageSteps, owner : Anyone, same : BOOLEAN,
         aborted : BOOLEAN, job : Jobs \union {0}, call : Calls \union {"none", "again"},
         from : Anyone, subject : Anyone]

\* The operations that are about no session of the page.
Outside == {"none", "connect", "choose", "refresh"}

\* Which operation is at a step.
NameAt(r) ==
    /\ r.step \in {"asking", "network", "selecting", "device"} => r.name = "connect"
    /\ r.step = "choosing" => r.name = "choose"
    /\ r.step \in {"keying", "timing", "storing"} => r.name \in {"fund", "accept"}
    /\ r.step \in {"signing", "settling"} => r.name \in {"fund", "accept", "pay", "decide"}
    /\ r.step = "deciding" => r.name = "decide"
    /\ r.step = "rereading" => r.name = "pay"
    /\ r.step \in {"passing", "reading", "proving"} => r.name = "take"
    /\ r.step = "checking" => r.name \in {"take", "import"}
    /\ r.step = "fetching" => r.name = "retrieve"
    /\ r.step \in {"verifying", "leaving", "arriving", "listing"} => r.name = "publish"

\* An operation in its session is the account's own.
OwnSession(r, a) == r.same /\ r.name \notin Outside => r.owner = a

\* What a prompt in front of the wallet was prepared for.
Prepared(r) ==
    /\ r.name \in {"fund", "accept"} => r.subject = r.owner
    /\ r.name \notin Outside => r.owner \in Wallets
    /\ r.name \notin Outside \union {"fund"} => r.job \in Jobs
    /\ r.step \in {"signing", "settling"} =>
         /\ r.from \in Wallets /\ r.call \in Calls
         /\ r.call \in {"register", "approve"} => r.name \in {"fund", "accept"}
         /\ r.call \in {"create", "accept"} => r.subject = r.from

\* A listing about to be signed is its client's.
Listable(r, jobs) ==
    r.step \in {"leaving", "arriving", "listing"} =>
        /\ jobs[r.job].status # "none"
        /\ jobs[r.job].client = r.owner /\ jobs[r.job].terms = r.owner

RunOK(r, a, jobs) == NameAt(r) /\ OwnSession(r, a) /\ Prepared(r) /\ Listable(r, jobs)

ListedOK ==
    \A l \in listed : /\ l.on = "arkiv" /\ l.by = job[l.job].client /\ job[l.job].terms = l.by
                      /\ job[l.job].status # "none"

ViewsOK ==
    unheard = 0 =>
        /\ account \in {NoWallet, selected}
        /\ \A j \in Jobs : opened[j] \in {NoWallet, account} /\ proofs[j] \in {NoWallet, account}

PageInv ==
    /\ PageTypeOK /\ task \in [Threads -> Task]
    /\ RunOK(task["run"], account, job)
    /\ SentForSender /\ ListedOK /\ ViewsOK

LEMMA TaskTyped ==
    ASSUME PageInv, NEW t \in Threads
    PROVE  task[t] \in Task
  BY DEF PageInv

LEMMA RunIsTask == PageInv => run \in Task /\ run = task["run"] /\ RunOK(run, account, job)
  BY DEF PageInv, Threads, run

\* What the type of a task is worth to the other variables' types.
LEMMA TasksTyped ==
    ASSUME NEW q \in [Threads -> Task]
    PROVE  \A t \in Threads : /\ q[t].owner \in Anyone /\ {q[t].same, q[t].aborted} \subseteq BOOLEAN
                              /\ q[t].job \in Jobs \union {0}
                              /\ q[t].name \in Operations \union {"none"}
  BY DEF Task

\* Most steps change one task and nothing else.
LEMMA TaskOnly ==
    ASSUME PageInv, NEW t \in Threads, NEW p \in Task, task' = [task EXCEPT ![t] = p],
           t = "run" => RunOK(p, account, job),
           UNCHANGED <<walletVars, viewVars, worldVars>>
    PROVE  PageInv'
<1>1. /\ selected' = selected /\ network' = network /\ unheard' = unheard /\ switches' = switches
      /\ account' = account /\ proofs' = proofs /\ opened' = opened
      /\ job' = job /\ tx' = tx /\ late' = late /\ listed' = listed
  BY DEF walletVars, viewVars, worldVars
<1>2. task' \in [Threads -> Task]
  BY DEF PageInv
<1>3. PageTypeOK'
  BY <1>1, <1>2, TasksTyped DEF PageInv, PageTypeOK
<1>4. task'["run"] = IF t = "run" THEN p ELSE task["run"]
  BY DEF PageInv, Threads
<1>5. RunOK(task'["run"], account, job)
  BY <1>4 DEF PageInv
<1>6. SentForSender' /\ ListedOK' /\ ViewsOK'
  BY <1>1 DEF PageInv, SentForSender, ListedOK, ViewsOK
<1> QED
  BY <1>1, <1>2, <1>3, <1>5, <1>6 DEF PageInv

\* An operation ends, or goes on to show what it did.
LEMMA RestingOK ==
    ASSUME NEW a, NEW jobs
    PROVE  /\ Idle \in Task /\ Showing \in Task
           /\ RunOK(Idle, a, jobs) /\ RunOK(Showing, a, jobs)
<1>1. Idle \in Task
  BY DEF Idle, Task, PageSteps, Anyone
<1>2. PICK p : p = Showing
  OBVIOUS
<1>3. p \in Task /\ p.name = "refresh" /\ p.step = "refreshing"
  BY <1>1, <1>2 DEF Showing, Task, Operations, PageSteps
<1>4. RunOK(p, a, jobs)
  BY <1>3 DEF RunOK, NameAt, OwnSession, Outside, Prepared, Listable
<1>5. RunOK(Idle, a, jobs)
  BY DEF Idle, RunOK, NameAt, OwnSession, Outside, Prepared, Listable
<1> QED
  BY <1>1, <1>2, <1>3, <1>4, <1>5

\* One more step of the operation.
LEMMA Onward ==
    ASSUME PageInv, NEW s \in PageSteps \ {"signing", "settling"}, Goto("run", s),
           NameAt([run EXCEPT !.step = s]), Listable([run EXCEPT !.step = s], job),
           UNCHANGED <<walletVars, viewVars, worldVars>>
    PROVE  PageInv'
<1>1. run \in Task /\ RunOK(run, account, job)
  BY RunIsTask
<1>2. PICK p : p = [run EXCEPT !.step = s]
  OBVIOUS
<1>3. /\ p \in Task /\ p.step = s /\ p.name = run.name /\ p.owner = run.owner
      /\ p.same = run.same /\ p.job = run.job /\ p.subject = run.subject
  BY <1>1, <1>2 DEF Task
<1>4. RunOK(p, account, job)
  BY <1>1, <1>2, <1>3 DEF RunOK, OwnSession, Prepared
<1>5. task' = [task EXCEPT !["run"] = p]
  BY <1>2 DEF Goto, run
<1> QED
  BY <1>3, <1>4, <1>5, TaskOnly DEF Threads

\* A task ends and nothing else happens.
LEMMA Over ==
    ASSUME PageInv, NEW t \in Threads, End(t), UNCHANGED <<walletVars, viewVars, worldVars>>
    PROVE  PageInv'
  BY RestingOK, TaskOnly DEF End

LEMMA ClickKeeps ==
    ASSUME PageInv, NEW name \in Operations, NEW j \in Jobs \union {0}, Click(name, j)
    PROVE  PageInv'
<1> DEFINE subject == CASE name = "accept" -> proofs[j]
                        [] name = "fund" -> TermsOf(account)
                        [] OTHER -> NoWallet
<1>1. PICK p : p = [name |-> name, step |-> FirstStep[name], owner |-> account, same |-> TRUE,
                    aborted |-> FALSE, job |-> j, call |-> "none", from |-> NoWallet,
                    subject |-> subject]
  OBVIOUS
<1>2. /\ task' = [task EXCEPT !["run"] = p] /\ Offered(name, j)
      /\ UNCHANGED <<walletVars, viewVars, worldVars>>
  BY <1>1 DEF Click, viewVars
<1>3. account \in Anyone /\ proofs \in [Jobs -> Anyone]
  BY DEF PageInv, PageTypeOK
<1>4. /\ name \notin Outside \union {"fund"} => j \in Jobs
      /\ name \notin Outside => account \in Wallets
  BY <1>2, <1>3 DEF Offered, Outside, Anyone
<1>5. name \in {"fund", "accept"} => subject = account
  BY <1>2 DEF Offered, TermsOf
<1>6. subject \in Anyone
  BY <1>3, <1>5 DEF Anyone
<1>7. /\ FirstStep[name] \in PageSteps \ {"signing", "settling", "leaving", "arriving", "listing"}
      /\ FirstStep[name] \in {"asking", "network", "selecting", "device"} => name = "connect"
      /\ FirstStep[name] = "choosing" => name = "choose"
      /\ FirstStep[name] \in {"keying", "timing", "storing"} => name \in {"fund", "accept"}
      /\ FirstStep[name] = "deciding" => name = "decide"
      /\ FirstStep[name] = "rereading" => name = "pay"
      /\ FirstStep[name] \in {"passing", "reading", "proving"} => name = "take"
      /\ FirstStep[name] = "checking" => name \in {"take", "import"}
      /\ FirstStep[name] = "fetching" => name = "retrieve"
      /\ FirstStep[name] = "verifying" => name = "publish"
  BY DEF FirstStep, Operations, PageSteps
<1> HIDE DEF subject
<1>8. p \in Task
  BY <1>1, <1>3, <1>6, <1>7 DEF Task, Anyone
<1>9. RunOK(p, account, job)
  BY <1>1, <1>4, <1>5, <1>7 DEF RunOK, NameAt, OwnSession, Prepared, Listable
<1> QED
  BY <1>2, <1>8, <1>9, TaskOnly DEF Threads

LEMMA ClickPanelKeeps ==
    ASSUME PageInv, ClickPanel
    PROVE  PageInv'
<1>1. PICK p : p = [Idle EXCEPT !.name = "connect", !.step = "asking"]
  OBVIOUS
<1>2. p \in Task
  <2>1. Idle \in Task /\ "connect" \in Operations /\ "asking" \in PageSteps
    BY RestingOK DEF Operations, PageSteps
  <2> QED
    BY <1>1, <2>1 DEF Task
<1>3. task' = [task EXCEPT !["panel"] = p] /\ UNCHANGED <<walletVars, viewVars, worldVars>>
  BY <1>1 DEF ClickPanel
<1> QED
  BY <1>2, <1>3, TaskOnly DEF Threads

LEMMA ChooseRoleKeeps ==
    ASSUME PageInv, ChooseRole
    PROVE  PageInv'
<1>1. /\ opened' = NoneOf
      /\ selected' = selected /\ network' = network /\ unheard' = unheard /\ switches' = switches
      /\ account' = account /\ proofs' = proofs /\ task' = task
      /\ job' = job /\ tx' = tx /\ late' = late /\ listed' = listed
  BY DEF ChooseRole, walletVars, worldVars
<1>2. PageTypeOK'
  BY <1>1 DEF PageInv, PageTypeOK, NoneOf, Anyone
<1>3. SentForSender' /\ ListedOK' /\ ViewsOK'
  BY <1>1 DEF PageInv, SentForSender, ListedOK, ViewsOK, NoneOf
<1> QED
  BY <1>1, <1>2, <1>3 DEF PageInv

\* Nothing but the transactions and one task.
LEMMA TxOnly ==
    ASSUME PageInv, NEW t \in Threads, NEW p \in Task, task' = [task EXCEPT ![t] = p],
           t = "run" => RunOK(p, account, job),
           tx' \in Tx \union {Outcome(what) : what \in {"none", "done", "reverted"}},
           late' \subseteq Tx, SentForSender',
           UNCHANGED <<walletVars, viewVars, job, listed>>
    PROVE  PageInv'
<1>1. /\ selected' = selected /\ network' = network /\ unheard' = unheard /\ switches' = switches
      /\ account' = account /\ proofs' = proofs /\ opened' = opened
      /\ job' = job /\ listed' = listed
  BY DEF walletVars, viewVars
<1>2. task' \in [Threads -> Task]
  BY DEF PageInv
<1>3. PageTypeOK'
  BY <1>1, <1>2, TasksTyped DEF PageInv, PageTypeOK
<1>4. task'["run"] = IF t = "run" THEN p ELSE task["run"]
  BY DEF PageInv, Threads
<1>5. RunOK(task'["run"], account, job)
  BY <1>4 DEF PageInv
<1>6. ListedOK' /\ ViewsOK'
  BY <1>1 DEF PageInv, ListedOK, ViewsOK
<1> QED
  BY <1>1, <1>2, <1>3, <1>5, <1>6 DEF PageInv

LEMMA OutcomesSentForSender ==
    \A what \in {"none", "done", "reverted"} :
        /\ Outcome(what).call \notin {"create", "accept"}
        /\ Outcome(what).call = what
  BY DEF Outcome

LEMMA FailKeeps ==
    ASSUME PageInv, NEW t \in Threads, Fail(t)
    PROVE  PageInv'
<1>1. task' = [task EXCEPT ![t] = Idle] /\ UNCHANGED <<walletVars, viewVars, job, listed>>
  BY DEF Fail, End
<1>2. tx' \in {tx, Outcome("none")} /\ late' \in {late, late \union {tx}}
  BY DEF Fail
<1>3. late' = late \union {tx} => tx.call \in Calls \/ late' = late
  BY DEF Fail, Underway
<1>4. /\ tx \in Tx \union {Outcome(what) : what \in {"none", "done", "reverted"}}
      /\ late \subseteq Tx
      /\ \A x \in late \union {tx} : x.call \in {"create", "accept"} => x.subject = x.from
  BY DEF PageInv, PageTypeOK, SentForSender
<1>5. late' = late \/ tx \in Tx
  BY <1>2, <1>3, <1>4, OutcomesSentForSender DEF Calls
<1>6. late' \subseteq Tx /\ tx' \in Tx \union {Outcome(what) : what \in {"none", "done", "reverted"}}
  BY <1>2, <1>4, <1>5
<1>7. SentForSender'
  BY <1>2, <1>4, OutcomesSentForSender DEF SentForSender
<1> QED
  BY <1>1, <1>6, <1>7, RestingOK, TxOnly

LEMMA ChooseAccountKeeps ==
    ASSUME PageInv, ChooseAccount
    PROVE  PageInv'
<1>1. run \in Task /\ RunOK(run, account, job)
  BY RunIsTask
<1>2. PICK p : p = [run EXCEPT !.name = "connect", !.step = "asking"]
  OBVIOUS
<1>3. p \in Task /\ p.name = "connect" /\ p.step = "asking"
  BY <1>1, <1>2 DEF Task, Operations, PageSteps
<1>4. RunOK(p, account, job)
  BY <1>3 DEF RunOK, NameAt, OwnSession, Outside, Prepared, Listable
<1>5. task' = [task EXCEPT !["run"] = p] /\ UNCHANGED <<walletVars, viewVars, worldVars>>
  BY <1>2 DEF ChooseAccount, run
<1> QED
  BY <1>3, <1>4, <1>5, TaskOnly DEF Threads

\* A connection under way is about no session yet.
LEMMA ConnectingOK ==
    ASSUME PageInv, NEW t \in Threads, NEW p \in Task, p.name = task[t].name,
           task[t].step \in {"asking", "network", "selecting"},
           p.step \in {"asking", "network", "selecting", "device"}
    PROVE  t = "run" => RunOK(p, account, job)
<1> SUFFICES ASSUME t = "run"
             PROVE  RunOK(p, account, job)
  OBVIOUS
<1>1. p.name = "connect"
  BY DEF PageInv, RunOK, NameAt
<1> QED
  BY <1>1 DEF RunOK, NameAt, OwnSession, Outside, Prepared, Listable

LEMMA AskAccountsKeeps ==
    ASSUME PageInv, NEW t \in Threads, AskAccounts(t)
    PROVE  PageInv'
<1>1. task[t] \in Task
  BY TaskTyped
<1>2. PICK p : p = [task[t] EXCEPT !.step = "network", !.same = TRUE]
  OBVIOUS
<1>3. p \in Task /\ p.name = task[t].name /\ p.step = "network"
  BY <1>1, <1>2 DEF Task, PageSteps
<1>4. task' = [task EXCEPT ![t] = p] /\ UNCHANGED <<walletVars, viewVars, worldVars>>
  BY <1>2 DEF AskAccounts
<1>5. t = "run" => RunOK(p, account, job)
  BY <1>3, ConnectingOK DEF AskAccounts, At
<1> QED
  BY <1>3, <1>4, <1>5, TaskOnly

LEMMA ReadAccountKeeps ==
    ASSUME PageInv, NEW t \in Threads, ReadAccount(t)
    PROVE  PageInv'
<1>1. task[t] \in Task /\ selected \in Anyone
  BY TaskTyped DEF PageInv, PageTypeOK, Anyone
<1>2. PICK p : p = [task[t] EXCEPT !.step = "device", !.owner = selected]
  OBVIOUS
<1>3. p \in Task /\ p.name = task[t].name /\ p.step = "device"
  BY <1>1, <1>2 DEF Task, PageSteps
<1>4. task' = [task EXCEPT ![t] = p] /\ UNCHANGED <<walletVars, viewVars, worldVars>>
  BY <1>2 DEF ReadAccount
<1>5. t = "run" => RunOK(p, account, job)
  BY <1>3, ConnectingOK DEF ReadAccount, At
<1> QED
  BY <1>3, <1>4, <1>5, TaskOnly

\* The wallet changes and raises an event, or only its network does and none.
LEMMA WalletAndTask ==
    ASSUME PageInv, NEW t \in Threads, NEW p \in Task, task' = [task EXCEPT ![t] = p],
           t = "run" => RunOK(p, account, job),
           selected' \in Wallets, network' \in Networks, switches' \in 0 .. MaxSwitches,
           Announce \/ (unheard' = unheard /\ selected' = selected),
           UNCHANGED <<viewVars, worldVars>>
    PROVE  PageInv'
<1>1. /\ account' = account /\ proofs' = proofs /\ opened' = opened
      /\ job' = job /\ tx' = tx /\ late' = late /\ listed' = listed
  BY DEF viewVars, worldVars
<1>2. task' \in [Threads -> Task]
  BY DEF PageInv
<1>3. unheard \in 0 .. MaxUnheard /\ MaxUnheard \in Nat
  BY PageAssumption DEF PageInv, PageTypeOK
<1>4. /\ unheard' \in 0 .. MaxUnheard
      /\ unheard' = 0 => unheard = 0 /\ selected' = selected
  BY <1>3 DEF Announce
<1>5. PageTypeOK'
  BY <1>1, <1>2, <1>4, TasksTyped DEF PageInv, PageTypeOK
<1>6. task'["run"] = IF t = "run" THEN p ELSE task["run"]
  BY DEF PageInv, Threads
<1>7. RunOK(task'["run"], account, job)
  BY <1>6 DEF PageInv
<1>8. SentForSender' /\ ListedOK' /\ ViewsOK'
  BY <1>1, <1>4 DEF PageInv, SentForSender, ListedOK, ViewsOK
<1> QED
  BY <1>1, <1>2, <1>5, <1>7, <1>8 DEF PageInv

LEMMA ReadNetworkKeeps ==
    ASSUME PageInv, NEW t \in Threads, ReadNetwork(t)
    PROVE  PageInv'
<1>1. task[t] \in Task /\ At(t, "network") /\ UNCHANGED <<viewVars, worldVars>>
  BY TaskTyped DEF ReadNetwork
<1>2. CASE network = "settlement" /\ Goto(t, "selecting") /\ UNCHANGED walletVars
  <2>1. PICK p : p = [task[t] EXCEPT !.step = "selecting"]
    OBVIOUS
  <2>2. p \in Task /\ p.name = task[t].name /\ p.step = "selecting"
    BY <1>1, <2>1 DEF Task, PageSteps
  <2>3. task' = [task EXCEPT ![t] = p]
    BY <1>2, <2>1 DEF Goto
  <2>4. t = "run" => RunOK(p, account, job)
    BY <1>1, <2>2, ConnectingOK DEF At
  <2> QED
    BY <1>1, <1>2, <2>2, <2>3, <2>4, TaskOnly
<1>3. CASE /\ network # "settlement" /\ network' = "settlement" /\ Announce
           /\ task' = [task EXCEPT ![t].step = "asking", ![t].call = "again"]
           /\ UNCHANGED <<selected, switches>>
  <2>1. PICK p : p = [task[t] EXCEPT !.step = "asking", !.call = "again"]
    OBVIOUS
  <2>2. p \in Task /\ p.name = task[t].name /\ p.step = "asking"
    BY <1>1, <2>1 DEF Task, PageSteps
  <2>3. task' = [task EXCEPT ![t] = p]
    BY <1>3, <2>1
  <2>4. t = "run" => RunOK(p, account, job)
    BY <1>1, <2>2, ConnectingOK DEF At
  <2>5. selected' \in Wallets /\ network' \in Networks /\ switches' \in 0 .. MaxSwitches
    BY <1>3 DEF PageInv, PageTypeOK, Networks
  <2> QED
    BY <1>1, <1>3, <2>2, <2>3, <2>4, <2>5, WalletAndTask
<1> QED
  BY <1>2, <1>3 DEF ReadNetwork

\* A generation that passes leaves every other task out of its session.
LEMMA ExpiredOK ==
    ASSUME PageInv, NEW a \in Anyone, NEW q \in [Threads -> Task],
           \A u \in Threads : q[u] = [task[u] EXCEPT !.same = FALSE]
                              \/ \E b \in BOOLEAN : q[u] = [task[u] EXCEPT !.same = FALSE, !.aborted = b]
    PROVE  RunOK(q["run"], a, job)
<1>1. run \in Task /\ RunOK(run, account, job)
  BY RunIsTask
<1>2. PICK p : p = q["run"]
  OBVIOUS
<1>3. /\ p.same = FALSE /\ p.step = run.step /\ p.name = run.name /\ p.owner = run.owner
      /\ p.job = run.job /\ p.call = run.call /\ p.from = run.from /\ p.subject = run.subject
  <2>1. "run" \in Threads /\ run = task["run"]
    BY DEF Threads, run
  <2>2. \/ p = [run EXCEPT !.same = FALSE]
        \/ \E b \in BOOLEAN : p = [run EXCEPT !.same = FALSE, !.aborted = b]
    BY <1>2, <2>1
  <2> QED
    BY <1>1, <2>2 DEF Task
<1>4. RunOK(p, a, job)
  BY <1>1, <1>3 DEF RunOK, NameAt, OwnSession, Prepared, Listable
<1> QED
  BY <1>2, <1>4

LEMMA ConnectedKeeps ==
    ASSUME PageInv, NEW t \in Threads, Connected(t)
    PROVE  PageInv'
<1>1. /\ selected' = selected /\ network' = network /\ unheard' = unheard /\ switches' = switches
      /\ proofs' = proofs /\ opened' = opened
      /\ job' = job /\ tx' = tx /\ late' = late /\ listed' = listed
  BY DEF Connected, walletVars, worldVars
<1>2. account' = task[t].owner /\ selected = task[t].owner
  BY DEF Connected, StillSelected
<1>3. task' = [u \in Threads |-> IF u = t THEN Showing ELSE [task[u] EXCEPT !.same = FALSE]]
  <2>1. \A u \in Threads : u # t => [task[u] EXCEPT !.same = (u = t)] = [task[u] EXCEPT !.same = FALSE]
    OBVIOUS
  <2> QED
    BY <2>1 DEF Connected, Expired
<1>4. \A u \in Threads : [task[u] EXCEPT !.same = FALSE] \in Task
  BY TaskTyped DEF Task
<1>5. task' \in [Threads -> Task]
  BY <1>3, <1>4, RestingOK
<1>6. account' \in Anyone
  BY <1>2 DEF PageInv, PageTypeOK, Anyone
<1>7. PageTypeOK'
  BY <1>1, <1>5, <1>6, TasksTyped DEF PageInv, PageTypeOK
<1>8. RunOK(task'["run"], account', job)
  <2>1. CASE t = "run"
    BY <1>3, <2>1, RestingOK DEF Threads
  <2>2. CASE t # "run"
    <3>1. PICK q : q = [u \in Threads |-> [task[u] EXCEPT !.same = FALSE]]
      OBVIOUS
    <3>2. q \in [Threads -> Task] /\ \A u \in Threads : q[u] = [task[u] EXCEPT !.same = FALSE]
      BY <1>4, <3>1
    <3>3. RunOK(q["run"], account', job)
      BY <1>6, <3>2, ExpiredOK
    <3>4. task'["run"] = q["run"]
      BY <1>3, <2>2, <3>1 DEF Threads
    <3> QED
      BY <3>3, <3>4
  <2> QED
    BY <2>1, <2>2
<1>9. SentForSender' /\ ListedOK' /\ ViewsOK'
  BY <1>1, <1>2 DEF PageInv, SentForSender, ListedOK, ViewsOK
<1> QED
  BY <1>1, <1>5, <1>7, <1>8, <1>9 DEF PageInv

LEMMA RefreshedKeeps ==
    ASSUME PageInv, NEW t \in Threads, Refreshed(t)
    PROVE  PageInv'
<1>1. /\ selected' = selected /\ network' = network /\ unheard' = unheard /\ switches' = switches
      /\ account' = account /\ proofs' = proofs
      /\ job' = job /\ tx' = tx /\ late' = late /\ listed' = listed
  BY DEF Refreshed, walletVars, worldVars
<1>2. opened' \in {NoneOf, opened} /\ task' = [task EXCEPT ![t] = Idle]
  BY DEF Refreshed, End
<1>3. task' \in [Threads -> Task]
  BY <1>2, RestingOK DEF PageInv
<1>4. opened' \in [Jobs -> Anyone]
  BY <1>2 DEF PageInv, PageTypeOK, NoneOf, Anyone
<1>5. PageTypeOK'
  BY <1>1, <1>3, <1>4, TasksTyped DEF PageInv, PageTypeOK
<1>6. task'["run"] \in {Idle, task["run"]}
  BY <1>2 DEF PageInv, Threads
<1>7. RunOK(task'["run"], account, job)
  BY <1>6, RestingOK DEF PageInv
<1>8. SentForSender' /\ ListedOK' /\ ViewsOK'
  BY <1>1, <1>2 DEF PageInv, SentForSender, ListedOK, ViewsOK, NoneOf
<1> QED
  BY <1>1, <1>3, <1>5, <1>7, <1>8 DEF PageInv

\* The wallet, the tasks of the chain and the listings stay as they are.
LEMMA PageOnly ==
    ASSUME PageInv, NEW t \in Threads, NEW p \in Task, task' = [task EXCEPT ![t] = p],
           t = "run" => RunOK(p, account, job),
           tx' \in {tx, Outcome("none")}, late' = late,
           proofs' \in [Jobs -> Anyone], opened' \in [Jobs -> Anyone],
           \A j \in Jobs : /\ proofs'[j] \in {proofs[j], NoWallet, account}
                           /\ opened'[j] \in {opened[j], NoWallet, account},
           UNCHANGED <<walletVars, account, job, listed>>
    PROVE  PageInv'
<1>1. /\ selected' = selected /\ network' = network /\ unheard' = unheard /\ switches' = switches
      /\ account' = account /\ job' = job /\ listed' = listed
  BY DEF walletVars
<1>2. task' \in [Threads -> Task]
  BY DEF PageInv
<1>3. tx' \in Tx \union {Outcome(what) : what \in {"none", "done", "reverted"}}
  BY DEF PageInv, PageTypeOK
<1>4. PageTypeOK'
  BY <1>1, <1>2, <1>3, TasksTyped DEF PageInv, PageTypeOK
<1>5. task'["run"] = IF t = "run" THEN p ELSE task["run"]
  BY DEF PageInv, Threads
<1>6. RunOK(task'["run"], account, job)
  BY <1>5 DEF PageInv
<1>7. SentForSender'
  BY OutcomesSentForSender DEF PageInv, SentForSender
<1>8. ListedOK' /\ ViewsOK'
  BY <1>1 DEF PageInv, ListedOK, ViewsOK
<1> QED
  BY <1>1, <1>2, <1>4, <1>6, <1>7, <1>8 DEF PageInv

\* A prompt is for the account the page has, which the callers of tx made
\* sure of where it matters.
LEMMA PromptOK ==
    ASSUME PageInv, NEW call \in Calls, NEW subject \in Anyone, Prompt(call, subject),
           run.name \in {"fund", "accept", "pay", "decide"},
           run.name \in {"fund", "accept"} => subject = run.owner,
           call \in {"register", "approve"} => run.name \in {"fund", "accept"},
           call \in {"create", "accept"} => subject = account
    PROVE  \E p \in Task : task' = [task EXCEPT !["run"] = p] /\ RunOK(p, account, job)
<1>1. run \in Task /\ RunOK(run, account, job)
  BY RunIsTask
<1>2. PICK p : p = [run EXCEPT !.step = "signing", !.call = call, !.from = account,
                               !.subject = subject]
  OBVIOUS
<1>3. account \in Wallets /\ account \in Anyone
  BY DEF Prompt, PageInv, PageTypeOK, Anyone
<1>4. /\ p \in Task /\ p.step = "signing" /\ p.call = call /\ p.from = account
      /\ p.subject = subject /\ p.name = run.name /\ p.owner = run.owner
      /\ p.same = run.same /\ p.job = run.job
  BY <1>1, <1>2, <1>3 DEF Task, PageSteps
<1>5. RunOK(p, account, job)
  BY <1>1, <1>3, <1>4 DEF RunOK, NameAt, OwnSession, Prepared, Listable
<1>6. task' = [task EXCEPT !["run"] = p]
  BY <1>2 DEF Prompt, run
<1> QED
  BY <1>4, <1>5, <1>6

LEMMA ConfirmKeeps ==
    ASSUME PageInv, Confirm
    PROVE  PageInv'
<1>1. run \in Task /\ run.step = "signing" /\ NameAt(run) /\ OwnSession(run, account) /\ Prepared(run)
  BY RunIsTask DEF Confirm, At, RunOK, run
<1>2. PICK p : p = [run EXCEPT !.step = "settling"]
  OBVIOUS
<1>3. /\ p \in Task /\ p.step = "settling" /\ p.name = run.name /\ p.owner = run.owner
      /\ p.same = run.same /\ p.job = run.job /\ p.subject = run.subject
      /\ p.call = run.call /\ p.from = run.from
  BY <1>1, <1>2 DEF Task, PageSteps
<1>4. RunOK(p, account, job)
  BY <1>1, <1>3 DEF RunOK, NameAt, OwnSession, Prepared, Listable
<1>5. task' = [task EXCEPT !["run"] = p]
  BY <1>2 DEF Confirm, Goto, run
<1>6. PICK x : x = [call |-> run.call, from |-> run.from, job |-> run.job, subject |-> run.subject]
  OBVIOUS
<1>7. x \in Tx /\ (x.call \in {"create", "accept"} => x.subject = x.from)
  BY <1>1, <1>6 DEF Prepared, Tx, Task
<1>8. tx' = x /\ late' = late /\ UNCHANGED <<walletVars, viewVars, job, listed>>
  BY <1>6 DEF Confirm
<1>9. late' \subseteq Tx /\ SentForSender'
  BY <1>7, <1>8 DEF PageInv, PageTypeOK, SentForSender
<1>10. tx' \in Tx \union {Outcome(what) : what \in {"none", "done", "reverted"}}
  BY <1>7, <1>8
<1> QED
  BY <1>3, <1>4, <1>5, <1>8, <1>9, <1>10, TxOnly DEF Threads

LEMMA FinishOK ==
    ASSUME PageInv, Finish
    PROVE  \E p \in Task : task' = [task EXCEPT !["run"] = p] /\ RunOK(p, account, job)
  BY RestingOK DEF Finish

LEMMA SettledKeeps ==
    ASSUME PageInv, Settled
    PROVE  PageInv'
<1>1. run \in Task /\ run.step = "settling" /\ NameAt(run) /\ OwnSession(run, account) /\ Prepared(run)
  BY RunIsTask DEF Settled, At, RunOK, run
<1>2. \E p \in Task : task' = [task EXCEPT !["run"] = p] /\ RunOK(p, account, job)
  <2>1. CASE run.call = "register"
    <3>1. PICK p : p = [run EXCEPT !.step = "keying"]
      OBVIOUS
    <3>2. /\ p \in Task /\ p.step = "keying" /\ p.name = run.name /\ p.owner = run.owner
          /\ p.same = run.same /\ p.job = run.job /\ p.subject = run.subject
      BY <1>1, <3>1 DEF Task, PageSteps
    <3>3. RunOK(p, account, job)
      BY <1>1, <2>1, <3>2 DEF RunOK, NameAt, OwnSession, Prepared, Listable
    <3>4. Goto("run", "keying")
      BY <2>1 DEF Settled
    <3>5. task' = [task EXCEPT !["run"] = p]
      BY <3>1, <3>4 DEF Goto, run
    <3> QED
      BY <3>2, <3>3, <3>5
  <2>2. CASE run.call = "approve"
    <3>1. InSession /\ Prompt("create", run.subject)
      BY <2>2 DEF Settled, Fund
    <3>2. run.name \in {"fund", "accept"} /\ run.subject = run.owner /\ account = run.owner
      BY <1>1, <2>2, <3>1 DEF Prepared, InSession
    <3>3. run.subject \in Anyone
      BY <1>1 DEF Task
    <3> QED
      BY <3>1, <3>2, <3>3, PromptOK DEF Calls
  <2>3. CASE run.call \notin {"register", "approve"}
    BY <2>3, FinishOK DEF Settled
  <2> QED
    BY <2>1, <2>2, <2>3
<1>3. /\ tx' = Outcome("none") /\ late' = late /\ opened' = opened
      /\ proofs' \in {proofs, [proofs EXCEPT ![run.job] = NoWallet]}
      /\ UNCHANGED <<walletVars, account, job, listed>>
  BY DEF Settled
<1>4. proofs \in [Jobs -> Anyone] /\ opened \in [Jobs -> Anyone]
  BY DEF PageInv, PageTypeOK
<1>5. proofs' \in [Jobs -> Anyone] /\ \A j \in Jobs : proofs'[j] \in {proofs[j], NoWallet, account}
  BY <1>3, <1>4 DEF Anyone
<1> QED
  BY <1>2, <1>3, <1>4, <1>5, PageOnly DEF Threads

\* What the operation is at a step, with what it was prepared for.
LEMMA AtStep ==
    ASSUME PageInv, NEW s, At("run", s)
    PROVE  /\ run \in Task /\ run.step = s
           /\ NameAt(run) /\ OwnSession(run, account) /\ Prepared(run) /\ Listable(run, job)
  BY RunIsTask DEF At, RunOK, run

LEMMA CallKeeps ==
    ASSUME PageInv, Call
    PROVE  PageInv'
<1>1. UNCHANGED <<walletVars, viewVars, worldVars>> /\ NoWallet \in Anyone
  BY DEF Call, Anyone
<1>2. CASE At("run", "deciding") /\ Prompt("decide", NoWallet)
  <2>1. run.name = "decide"
    BY <1>2, AtStep DEF NameAt
  <2> QED
    BY <1>1, <1>2, <2>1, PromptOK, TaskOnly DEF Calls, Threads
<1>3. CASE At("run", "rereading") /\ Prompt("pay", NoWallet)
  <2>1. run.name = "pay"
    BY <1>3, AtStep DEF NameAt
  <2> QED
    BY <1>1, <1>3, <2>1, PromptOK, TaskOnly DEF Calls, Threads
<1> QED
  BY <1>2, <1>3 DEF Call

LEMMA EnsureKeyKeeps ==
    ASSUME PageInv, EnsureKey
    PROVE  PageInv'
<1>1. /\ UNCHANGED <<walletVars, viewVars, worldVars>>
      /\ At("run", "keying") /\ account = run.owner
  BY DEF EnsureKey, InSession
<1>2. /\ run \in Task /\ run.step = "keying" /\ run.name \in {"fund", "accept"}
      /\ run.subject = run.owner /\ run.subject \in Anyone
  BY <1>1, AtStep DEF NameAt, Prepared, Task
<1>3. CASE Prompt("register", run.subject)
  BY <1>1, <1>2, <1>3, PromptOK, TaskOnly DEF Calls, Threads
<1>4. CASE run.name = "fund" /\ Goto("run", "timing")
  <2>1. PICK p : p = [run EXCEPT !.step = "timing"]
    OBVIOUS
  <2>2. p.step = "timing" /\ p.name = run.name
    BY <1>2, <2>1 DEF Task
  <2>3. NameAt(p) /\ Listable(p, job)
    BY <1>2, <2>2 DEF NameAt, Listable
  <2> QED
    BY <1>1, <1>4, <2>1, <2>3, Onward DEF PageSteps
<1>5. CASE Prompt("accept", run.subject)
  BY <1>1, <1>2, <1>5, PromptOK, TaskOnly DEF Calls, Threads
<1> QED
  BY <1>3, <1>4, <1>5 DEF EnsureKey

\* A step of an operation that only goes on to the next.
LEMMA StepOn ==
    ASSUME PageInv, NEW s, NEW to \in PageSteps \ {"signing", "settling"}, At("run", s), Goto("run", to),
           to \in {"asking", "network", "selecting", "device"} => run.name = "connect",
           to = "choosing" => run.name = "choose",
           to \in {"keying", "timing", "storing"} => run.name \in {"fund", "accept"},
           to = "deciding" => run.name = "decide",
           to = "rereading" => run.name = "pay",
           to \in {"passing", "reading", "proving"} => run.name = "take",
           to = "checking" => run.name \in {"take", "import"},
           to = "fetching" => run.name = "retrieve",
           to \in {"verifying", "leaving", "arriving", "listing"} => run.name = "publish",
           to \in {"leaving", "arriving", "listing"} =>
               /\ job[run.job].status # "none"
               /\ job[run.job].client = run.owner /\ job[run.job].terms = run.owner,
           UNCHANGED <<walletVars, viewVars, worldVars>>
    PROVE  PageInv'
<1>1. run \in Task
  BY AtStep
<1>2. PICK p : p = [run EXCEPT !.step = to]
  OBVIOUS
<1>3. p.step = to /\ p.name = run.name /\ p.job = run.job /\ p.owner = run.owner
  BY <1>1, <1>2 DEF Task
<1>4. NameAt(p)
  BY <1>3 DEF NameAt
<1>5. Listable(p, job)
  BY <1>3 DEF Listable
<1> QED
  BY <1>2, <1>4, <1>5, Onward

LEMMA EncodeTermsKeeps ==
    ASSUME PageInv, EncodeTerms
    PROVE  PageInv'
<1>1. /\ At("run", "timing") /\ Goto("run", "storing")
      /\ UNCHANGED <<walletVars, viewVars, worldVars>>
  BY DEF EncodeTerms
<1>2. run.name \in {"fund", "accept"}
  BY <1>1, AtStep DEF NameAt
<1> QED
  BY <1>1, <1>2, StepOn DEF PageSteps

LEMMA TermsStoredKeeps ==
    ASSUME PageInv, TermsStored
    PROVE  PageInv'
<1>1. /\ UNCHANGED <<walletVars, viewVars, worldVars>>
      /\ At("run", "storing") /\ account = run.owner /\ Prompt("approve", run.subject)
  BY DEF TermsStored, InSession
<1>2. run.name \in {"fund", "accept"} /\ run.subject = run.owner /\ run.subject \in Anyone
  BY <1>1, AtStep DEF NameAt, Prepared, Task
<1> QED
  BY <1>1, <1>2, PromptOK, TaskOnly DEF Calls, Threads

LEMMA ProvingKeeps ==
    ASSUME PageInv, PassReady \/ SnapshotRead \/ Proved \/ Stop
    PROVE  PageInv'
<1>1. UNCHANGED <<walletVars, viewVars, worldVars>>
  BY DEF PassReady, SnapshotRead, Proved, Stop
<1>2. CASE End("run")
  BY <1>1, <1>2, Over DEF Threads
<1>3. CASE At("run", "passing") /\ Goto("run", "reading")
  <2>1. run.name = "take"
    BY <1>3, AtStep DEF NameAt
  <2> QED
    BY <1>1, <1>3, <2>1, StepOn DEF PageSteps
<1>4. CASE At("run", "reading") /\ Goto("run", "proving")
  <2>1. run.name = "take"
    BY <1>4, AtStep DEF NameAt
  <2> QED
    BY <1>1, <1>4, <2>1, StepOn DEF PageSteps
<1>5. CASE At("run", "proving") /\ Goto("run", "checking")
  <2>1. run.name = "take"
    BY <1>5, AtStep DEF NameAt
  <2> QED
    BY <1>1, <1>5, <2>1, StepOn DEF PageSteps
<1> QED
  BY <1>2, <1>3, <1>4, <1>5 DEF PassReady, SnapshotRead, Proved, Stop

LEMMA ValidatedKeeps ==
    ASSUME PageInv, Validated
    PROVE  PageInv'
<1>1. /\ account = run.owner /\ Finish /\ proofs' = [proofs EXCEPT ![run.job] = run.owner]
      /\ UNCHANGED <<walletVars, account, opened, worldVars>>
  BY DEF Validated
<1>2. account \in Anyone /\ proofs \in [Jobs -> Anyone] /\ opened \in [Jobs -> Anyone]
  BY DEF PageInv, PageTypeOK
<1>3. proofs' \in [Jobs -> Anyone] /\ \A j \in Jobs : proofs'[j] \in {proofs[j], NoWallet, account}
  BY <1>1, <1>2
<1>4. tx' = tx /\ late' = late /\ job' = job /\ listed' = listed /\ opened' = opened
  BY <1>1 DEF worldVars
<1> QED
  BY <1>1, <1>2, <1>3, <1>4, FinishOK, PageOnly DEF Threads

LEMMA DecryptedKeeps ==
    ASSUME PageInv, Decrypted
    PROVE  PageInv'
<1>1. /\ At("run", "fetching") /\ run.same /\ End("run")
      /\ opened' = [opened EXCEPT ![run.job] = run.owner]
      /\ UNCHANGED <<walletVars, account, proofs, worldVars>>
  BY DEF Decrypted, Shown
<1>2. run.owner = account
  BY <1>1, AtStep DEF NameAt, OwnSession, Outside
<1>3. account \in Anyone /\ proofs \in [Jobs -> Anyone] /\ opened \in [Jobs -> Anyone]
  BY DEF PageInv, PageTypeOK
<1>4. opened' \in [Jobs -> Anyone] /\ \A j \in Jobs : opened'[j] \in {opened[j], NoWallet, account}
  BY <1>1, <1>2, <1>3
<1>5. tx' = tx /\ late' = late /\ job' = job /\ listed' = listed /\ proofs' = proofs
  BY <1>1 DEF worldVars
<1> QED
  BY <1>1, <1>3, <1>4, <1>5, RestingOK, PageOnly DEF Threads, End

LEMMA TimeoutKeeps ==
    ASSUME PageInv, Timeout
    PROVE  PageInv'
<1>1. run \in Task /\ NameAt(run) /\ OwnSession(run, account) /\ Prepared(run) /\ Listable(run, job)
  BY RunIsTask DEF RunOK
<1>2. PICK p : p = [run EXCEPT !.aborted = TRUE]
  OBVIOUS
<1>3. /\ p \in Task /\ p.step = run.step /\ p.name = run.name /\ p.owner = run.owner
      /\ p.same = run.same /\ p.job = run.job /\ p.subject = run.subject
      /\ p.call = run.call /\ p.from = run.from
  BY <1>1, <1>2 DEF Task
<1>4. RunOK(p, account, job)
  BY <1>1, <1>3 DEF RunOK, NameAt, OwnSession, Prepared, Listable
<1>5. task' = [task EXCEPT !["run"] = p] /\ UNCHANGED <<walletVars, viewVars, worldVars>>
  BY <1>2 DEF Timeout, run
<1> QED
  BY <1>3, <1>4, <1>5, TaskOnly DEF Threads

LEMMA VerifiedKeeps ==
    ASSUME PageInv, Verified
    PROVE  PageInv'
<1>1. /\ At("run", "verifying") /\ Goto("run", "leaving")
      /\ job[run.job].status = "open" /\ job[run.job].client = run.owner
      /\ job[run.job].terms = run.owner
      /\ UNCHANGED <<walletVars, viewVars, worldVars>>
  BY DEF Verified, Matches
<1>2. run.name = "publish"
  BY <1>1, AtStep DEF NameAt
<1> QED
  BY <1>1, <1>2, StepOn DEF PageSteps

LEMMA OnArkivKeeps ==
    ASSUME PageInv, OnArkiv
    PROVE  PageInv'
<1>1. /\ At("run", "arriving") /\ Goto("run", "listing")
      /\ UNCHANGED <<walletVars, viewVars, worldVars>>
  BY DEF OnArkiv
<1>2. /\ run.name = "publish" /\ job[run.job].status # "none"
      /\ job[run.job].client = run.owner /\ job[run.job].terms = run.owner
  BY <1>1, AtStep DEF NameAt, Listable
<1> QED
  BY <1>1, <1>2, StepOn DEF PageSteps

LEMMA LeaveSettlementKeeps ==
    ASSUME PageInv, LeaveSettlement
    PROVE  PageInv'
<1>1. /\ At("run", "leaving") /\ network' = "arkiv" /\ Goto("run", "arriving")
      /\ Announce \/ unheard' = unheard
      /\ UNCHANGED <<selected, switches, viewVars, worldVars>>
  BY DEF LeaveSettlement
<1>2. /\ run \in Task /\ run.step = "leaving"
      /\ NameAt(run) /\ OwnSession(run, account) /\ Prepared(run) /\ Listable(run, job)
  BY <1>1, AtStep
<1>3. PICK p : p = [run EXCEPT !.step = "arriving"]
  OBVIOUS
<1>4. /\ p \in Task /\ p.step = "arriving" /\ p.name = run.name /\ p.owner = run.owner
      /\ p.same = run.same /\ p.job = run.job /\ p.subject = run.subject
  BY <1>2, <1>3 DEF Task, PageSteps
<1>5. RunOK(p, account, job)
  BY <1>2, <1>4 DEF RunOK, NameAt, OwnSession, Prepared, Listable
<1>6. task' = [task EXCEPT !["run"] = p]
  BY <1>1, <1>3 DEF Goto, run
<1>7. selected' \in Wallets /\ network' \in Networks /\ switches' \in 0 .. MaxSwitches
  BY <1>1 DEF PageInv, PageTypeOK, Networks
<1> QED
  BY <1>1, <1>4, <1>5, <1>6, <1>7, WalletAndTask DEF Threads

LEMMA ReturnKeeps ==
    ASSUME PageInv, Return
    PROVE  PageInv'
<1>1. /\ network' = "settlement" /\ Announce /\ End("run")
      /\ UNCHANGED <<selected, switches, viewVars, worldVars>>
  BY DEF Return
<1>2. selected' \in Wallets /\ network' \in Networks /\ switches' \in 0 .. MaxSwitches
  BY <1>1 DEF PageInv, PageTypeOK, Networks
<1> QED
  BY <1>1, <1>2, RestingOK, WalletAndTask DEF Threads, End

LEMMA PublishKeeps ==
    ASSUME PageInv, Publish
    PROVE  PageInv'
<1>1. /\ At("run", "listing") /\ network = "arkiv" /\ Goto("run", "returning")
      /\ listed' = listed \union {[job |-> run.job, by |-> run.owner, on |-> network]}
      /\ selected' = selected /\ network' = network /\ unheard' = unheard /\ switches' = switches
      /\ account' = account /\ proofs' = proofs /\ opened' = opened
      /\ job' = job /\ tx' = tx /\ late' = late
  BY DEF Publish, SigningChain, walletVars, viewVars
<1>2. /\ run \in Task /\ run.step = "listing" /\ run.name = "publish"
      /\ OwnSession(run, account) /\ Prepared(run) /\ Listable(run, job)
  BY <1>1, AtStep DEF NameAt
<1>3. PICK p : p = [run EXCEPT !.step = "returning"]
  OBVIOUS
<1>4. /\ p \in Task /\ p.step = "returning" /\ p.name = run.name /\ p.owner = run.owner
      /\ p.same = run.same /\ p.job = run.job /\ p.subject = run.subject
  BY <1>2, <1>3 DEF Task, PageSteps
<1>5. RunOK(p, account, job)
  BY <1>2, <1>4 DEF RunOK, NameAt, OwnSession, Prepared, Listable
<1>6. task' = [task EXCEPT !["run"] = p]
  BY <1>1, <1>3 DEF Goto, run
<1>7. task' \in [Threads -> Task] /\ RunOK(task'["run"], account, job)
  BY <1>4, <1>5, <1>6 DEF PageInv, Threads
<1>8. PICK l : l = [job |-> run.job, by |-> run.owner, on |-> network]
  OBVIOUS
<1>9. /\ l \in Listing /\ l.on = "arkiv" /\ l.by = job[l.job].client /\ job[l.job].terms = l.by
      /\ job[l.job].status # "none"
  BY <1>1, <1>2, <1>8 DEF Prepared, Outside, Listable, Listing, Networks
<1>10. listed' = listed \union {l}
  BY <1>1, <1>8
<1>11. PageTypeOK'
  BY <1>1, <1>7, <1>9, <1>10, TasksTyped DEF PageInv, PageTypeOK
<1>12. ListedOK'
  BY <1>1, <1>9, <1>10 DEF PageInv, ListedOK
<1>13. SentForSender' /\ ViewsOK'
  BY <1>1 DEF PageInv, SentForSender, ViewsOK
<1> QED
  BY <1>1, <1>7, <1>11, <1>12, <1>13 DEF PageInv

LEMMA SwitchWalletKeeps ==
    ASSUME PageInv, SwitchWallet
    PROVE  PageInv'
<1>1. task["run"] \in Task /\ RunOK(task["run"], account, job)
  BY DEF PageInv, Threads
<1>2. task' = [task EXCEPT !["run"] = task["run"]]
  BY DEF SwitchWallet, PageInv, Threads
<1>3. /\ Announce /\ UNCHANGED <<viewVars, worldVars>>
      /\ selected' \in Wallets /\ network' \in Networks
  BY DEF SwitchWallet, PageInv, PageTypeOK
<1>4. switches' \in 0 .. MaxSwitches
  BY PageAssumption DEF SwitchWallet, PageInv, PageTypeOK
<1> QED
  BY <1>1, <1>2, <1>3, <1>4, WalletAndTask DEF Threads

LEMMA WalletEventKeeps ==
    ASSUME PageInv, WalletEvent
    PROVE  PageInv'
<1>1. /\ unheard > 0 /\ unheard' = unheard - 1 /\ account' = NoWallet
      /\ proofs' = NoneOf /\ opened' = NoneOf
      /\ task' = [t \in Threads |-> [task[t] EXCEPT !.same = FALSE,
                                                    !.aborted = (task[t].name = "take")]]
      /\ selected' = selected /\ network' = network /\ switches' = switches
      /\ job' = job /\ tx' = tx /\ late' = late /\ listed' = listed
  BY DEF WalletEvent, worldVars
<1>2. \A t \in Threads : \A b \in BOOLEAN : [task[t] EXCEPT !.same = FALSE, !.aborted = b] \in Task
  BY TaskTyped DEF Task
<1>3. \A t \in Threads : (task[t].name = "take") \in BOOLEAN
  OBVIOUS
<1>4. task' \in [Threads -> Task]
  BY <1>1, <1>2, <1>3
<1>5. \A u \in Threads : \E b \in BOOLEAN : task'[u] = [task[u] EXCEPT !.same = FALSE, !.aborted = b]
  BY <1>1, <1>3
<1>6. NoWallet \in Anyone /\ NoneOf \in [Jobs -> Anyone]
  BY DEF Anyone, NoneOf
<1>7. RunOK(task'["run"], NoWallet, job)
  BY <1>4, <1>5, <1>6, ExpiredOK
<1>8. unheard' \in 0 .. MaxUnheard
  <2>1. unheard \in 0 .. MaxUnheard /\ MaxUnheard \in Nat
    BY PageAssumption DEF PageInv, PageTypeOK
  <2>2. unheard > 0 /\ unheard' = unheard - 1
    BY <1>1
  <2> QED
    BY <2>1, <2>2
<1>9. PageTypeOK'
  BY <1>1, <1>4, <1>6, <1>8, TasksTyped DEF PageInv, PageTypeOK
<1>10. SentForSender' /\ ListedOK' /\ ViewsOK'
  BY <1>1 DEF PageInv, SentForSender, ListedOK, ViewsOK, NoneOf
<1> QED
  BY <1>1, <1>4, <1>7, <1>9, <1>10 DEF PageInv

\* A task that was funded keeps its client and its terms.
Funded(jobs, more) ==
    \A j \in Jobs : jobs[j].status # "none" =>
        /\ more[j].status # "none"
        /\ more[j].client = jobs[j].client /\ more[j].terms = jobs[j].terms

\* The chain executes: transactions come to their outcome, tasks move on.
LEMMA ChainOnly ==
    ASSUME PageInv, job' \in [Jobs -> Job], Funded(job, job'),
           tx' \in {tx, Outcome("done"), Outcome("reverted")}, late' \subseteq late,
           UNCHANGED <<walletVars, viewVars, task, listed>>
    PROVE  PageInv'
<1>1. /\ selected' = selected /\ network' = network /\ unheard' = unheard /\ switches' = switches
      /\ account' = account /\ proofs' = proofs /\ opened' = opened
      /\ task' = task /\ listed' = listed
  BY DEF walletVars, viewVars
<1>2. /\ tx' \in Tx \union {Outcome(what) : what \in {"none", "done", "reverted"}}
      /\ late' \subseteq Tx
  BY DEF PageInv, PageTypeOK
<1>3. PageTypeOK'
  <2>1. \A t \in Threads : /\ task[t].owner \in Anyone
                           /\ {task[t].same, task[t].aborted} \subseteq BOOLEAN
                           /\ task[t].job \in Jobs \union {0}
                           /\ task[t].name \in Operations \union {"none"}
    BY DEF PageInv, PageTypeOK
  <2> QED
    BY <1>1, <1>2, <2>1 DEF PageInv, PageTypeOK
<1>4. /\ run \in Task
      /\ NameAt(run) /\ OwnSession(run, account) /\ Prepared(run) /\ Listable(run, job)
  BY RunIsTask DEF RunOK
<1>5. run.step \in {"leaving", "arriving", "listing"} => run.job \in Jobs
  BY <1>4 DEF NameAt, Prepared, Outside
<1>6. Listable(run, job')
  BY <1>4, <1>5 DEF Listable, Funded
<1>7. RunOK(task["run"], account, job')
  BY <1>4, <1>6 DEF RunOK, run
<1>8. ListedOK'
  <2>1. \A l \in listed : l.job \in Jobs
    BY DEF PageInv, PageTypeOK, Listing
  <2> QED
    BY <1>1, <2>1 DEF PageInv, ListedOK, Funded
<1>9. SentForSender'
  BY OutcomesSentForSender DEF PageInv, SentForSender
<1>10. ViewsOK'
  BY <1>1 DEF PageInv, ViewsOK
<1> QED
  BY <1>1, <1>3, <1>7, <1>8, <1>9, <1>10 DEF PageInv

LEMMA MovedOn ==
    ASSUME job \in [Jobs -> Job], NEW j, NEW status \in Statuses \ {"none"}, NEW worker \in Anyone,
           job' = [job EXCEPT ![j].status = status]
             \/ job' = [job EXCEPT ![j].status = status, ![j].worker = worker]
    PROVE  job' \in [Jobs -> Job] /\ Funded(job, job')
<1>1. CASE j \notin Jobs
  <2>1. job' = job
    BY <1>1
  <2> QED
    BY <2>1 DEF Funded
<1>2. CASE j \in Jobs
  <2>1. PICK x : x = job'[j]
    OBVIOUS
  <2>2. job[j] \in Job
    BY <1>2
  <2>3. \/ x = [job[j] EXCEPT !.status = status]
        \/ x = [job[j] EXCEPT !.status = status, !.worker = worker]
    BY <1>2, <2>1
  <2>4. /\ x \in Job /\ x.status = status
        /\ x.client = job[j].client /\ x.terms = job[j].terms
    BY <2>2, <2>3 DEF Job
  <2>5. job' = [job EXCEPT ![j] = x]
    BY <1>2, <2>1
  <2> QED
    BY <1>2, <2>4, <2>5 DEF Funded
<1> QED
  BY <1>1, <1>2

LEMMA EffectKeepsJobs ==
    ASSUME job \in [Jobs -> Job], NEW t \in Tx, Effect(t)
    PROVE  job' \in [Jobs -> Job] /\ Funded(job, job')
<1>1. CASE t.call \in {"register", "approve"}
  <2>1. job' = job
    BY <1>1 DEF Effect
  <2> QED
    BY <2>1 DEF Funded
<1>2. CASE t.call = "create"
  <2>1. PICK j \in Jobs : /\ job[j].status = "none"
                          /\ job' = [job EXCEPT ![j] = [status |-> "open", client |-> t.from,
                                                        terms |-> t.subject, worker |-> NoWallet]]
    BY <1>2 DEF Effect
  <2>2. [status |-> "open", client |-> t.from, terms |-> t.subject, worker |-> NoWallet] \in Job
    BY DEF Tx, Job, Anyone, Statuses
  <2> QED
    BY <2>1, <2>2 DEF Funded
<1>3. CASE t.call = "accept"
  <2>1. job' = [job EXCEPT ![t.job].status = "accepted", ![t.job].worker = t.from]
    BY <1>3 DEF Effect
  <2>2. t.from \in Anyone
    BY DEF Tx, Anyone
  <2> QED
    BY <2>1, <2>2, MovedOn DEF Statuses
<1>4. CASE t.call \in {"pay", "decide"}
  <2>1. job' = [job EXCEPT ![t.job].status = "closed"] \/ job' = job
    BY <1>4 DEF Effect
  <2>2. NoWallet \in Anyone
    BY DEF Anyone
  <2> QED
    BY <2>1, <2>2, MovedOn DEF Statuses, Funded
<1>5. t.call \in {"register", "approve", "create", "accept", "pay", "decide"}
  BY DEF Tx, Calls
<1> QED
  BY <1>1, <1>2, <1>3, <1>4, <1>5

LEMMA ExecuteKeeps ==
    ASSUME PageInv, Execute
    PROVE  PageInv'
<1>1. job \in [Jobs -> Job] /\ late \subseteq Tx
  BY DEF PageInv, PageTypeOK
<1>2. UNCHANGED <<walletVars, viewVars, task, listed>>
  BY DEF Execute
<1>3. Underway => tx \in Tx
  BY OutcomesSentForSender DEF Underway, Calls, PageInv, PageTypeOK
<1>4. /\ (\E t \in Tx : Effect(t)) \/ job' = job
      /\ tx' \in {tx, Outcome("done"), Outcome("reverted")} /\ late' \subseteq late
  BY <1>1, <1>3 DEF Execute
<1>5. job' \in [Jobs -> Job] /\ Funded(job, job')
  <2>1. CASE job' = job
    BY <1>1, <2>1 DEF Funded
  <2>2. CASE \E t \in Tx : Effect(t)
    BY <1>1, <2>2, EffectKeepsJobs
  <2> QED
    BY <1>4, <2>1, <2>2
<1> QED
  BY <1>2, <1>4, <1>5, ChainOnly

LEMMA ElsewhereKeeps ==
    ASSUME PageInv, NEW j \in Jobs, Elsewhere(j)
    PROVE  PageInv'
<1>1. job \in [Jobs -> Job] /\ NoWallet \in Anyone
  BY DEF PageInv, PageTypeOK, Anyone
<1>2. /\ \E s \in {"submitted", "closed"} : job' = [job EXCEPT ![j].status = s]
      /\ tx' = tx /\ late' = late
      /\ UNCHANGED <<walletVars, viewVars, task, listed>>
  BY DEF Elsewhere
<1>3. job' \in [Jobs -> Job] /\ Funded(job, job')
  BY <1>1, <1>2, MovedOn DEF Statuses
<1> QED
  BY <1>2, <1>3, ChainOnly

\* One step per action: whatever the page, the wallet or the chain does next,
\* the invariant holds again.
LEMMA NextKeeps ==
    ASSUME PageInv, PageNext
    PROVE  PageInv'
<1>1. CASE \E name \in Operations, j \in Jobs \union {0} : Click(name, j)
  BY <1>1, ClickKeeps
<1>2. CASE ClickPanel \/ ChooseRole
  BY <1>2, ClickPanelKeeps, ChooseRoleKeeps
<1>3. ASSUME NEW t \in Threads,
             \/ Fail(t) \/ AskAccounts(t) \/ ReadNetwork(t)
             \/ ReadAccount(t) \/ Connected(t) \/ Refreshed(t)
      PROVE  PageInv'
  BY <1>3, FailKeeps, AskAccountsKeeps, ReadNetworkKeeps, ReadAccountKeeps, ConnectedKeeps,
     RefreshedKeeps
<1>4. CASE ChooseAccount \/ Confirm \/ Settled \/ Call
  BY <1>4, ChooseAccountKeeps, ConfirmKeeps, SettledKeeps, CallKeeps
<1>5. CASE EnsureKey \/ EncodeTerms \/ TermsStored
  BY <1>5, EnsureKeyKeeps, EncodeTermsKeeps, TermsStoredKeeps
<1>6. CASE PassReady \/ SnapshotRead \/ Proved \/ Stop
  BY <1>6, ProvingKeeps
<1>7. CASE Validated \/ Timeout \/ Decrypted
  BY <1>7, ValidatedKeeps, TimeoutKeeps, DecryptedKeeps
<1>8. CASE Verified \/ LeaveSettlement \/ OnArkiv \/ Publish \/ Return
  BY <1>8, VerifiedKeeps, LeaveSettlementKeeps, OnArkivKeeps, PublishKeeps, ReturnKeeps
<1>9. CASE SwitchWallet \/ WalletEvent \/ Execute
  BY <1>9, SwitchWalletKeeps, WalletEventKeeps, ExecuteKeeps
<1>10. ASSUME NEW j \in Jobs, Elsewhere(j)
       PROVE  PageInv'
  BY <1>10, ElsewhereKeeps
<1> QED
  BY <1>1, <1>2, <1>3, <1>4, <1>5, <1>6, <1>7, <1>8, <1>9, <1>10 DEF PageNext

LEMMA StutterKeeps ==
    ASSUME PageInv, UNCHANGED pageVars
    PROVE  PageInv'
<1>1. UNCHANGED <<walletVars, viewVars, task, worldVars>>
  BY DEF pageVars, walletVars, viewVars, worldVars
<1>2. "run" \in Threads /\ task["run"] \in Task /\ RunOK(task["run"], account, job)
  BY DEF PageInv, Threads
<1>3. task' = [task EXCEPT !["run"] = task["run"]]
  BY <1>1 DEF PageInv
<1> QED
  BY <1>1, <1>2, <1>3, TaskOnly

\* A page just loaded, in front of any wallet and any chain without tasks.
LEMMA InitKeeps ==
    ASSUME PageInit
    PROVE  PageInv
<1>1. /\ Idle \in Task /\ RunOK(Idle, account, job) /\ "run" \in Threads
  BY RestingOK DEF Threads
<1>2. task \in [Threads -> Task] /\ task["run"] = Idle
  BY <1>1 DEF PageInit
<1>3. /\ NoWallet \in Anyone /\ NoneOf \in [Jobs -> Anyone]
      /\ [j \in Jobs |-> [status |-> "none", client |-> NoWallet, terms |-> NoWallet,
                          worker |-> NoWallet]] \in [Jobs -> Job]
  BY DEF Anyone, NoneOf, Job, Statuses
<1>4. unheard \in 0 .. MaxUnheard /\ switches \in 0 .. MaxSwitches
  BY PageAssumption DEF PageInit
<1>5. /\ account \in Anyone /\ proofs \in [Jobs -> Anyone] /\ opened \in [Jobs -> Anyone]
      /\ job \in [Jobs -> Job] /\ selected \in Wallets /\ network \in Networks
  BY <1>3 DEF PageInit
<1>6. tx = Outcome("none") /\ late = {} /\ listed = {}
  BY DEF PageInit
<1>7. PageTypeOK
  BY <1>2, <1>4, <1>5, <1>6, TasksTyped DEF PageTypeOK
<1>8. SentForSender
  BY <1>6, OutcomesSentForSender DEF SentForSender
<1>9. ListedOK /\ ViewsOK
  BY <1>6 DEF PageInit, ListedOK, ViewsOK, NoneOf
<1> QED
  BY <1>1, <1>2, <1>7, <1>8, <1>9 DEF PageInv

-----------------------------------------------------------------------------
\* PageInv holds in every state, for every set of wallets and tasks and every
\* number of wallet events.
THEOREM PageInvariance == PageSpec => []PageInv
<1>1. PageInit => PageInv
  BY InitKeeps
<1>2. PageInv /\ [PageNext]_pageVars => PageInv'
  BY NextKeeps, StutterKeeps
<1> QED
  BY <1>1, <1>2, PTL DEF PageSpec

\* The page's state keeps its shape: a task under way is one the page offers,
\* and what it holds is held for an account, whatever the wallet announces.
THEOREM PageTyped == PageSpec => []PageTypeOK
<1>1. PageInv => PageTypeOK
  BY DEF PageInv
<1> QED
  BY <1>1, PageInvariance, PTL

\* tx() reads the account anew after awaits in which the wallet may have been
\* switched, and still a task is only funded under terms naming the sender,
\* and only accepted with a presentation made for the sender.
THEOREM PromptsAreForSender == PageSpec => []SentForSender
<1>1. PageInv => SentForSender
  BY DEF PageInv
<1> QED
  BY <1>1, PageInvariance, PTL

\* A report decrypted or a presentation proved for one wallet is never held
\* by the page once it has heard of another one.
THEOREM ViewsStayOwn == PageSpec => []ViewsAreOwn
<1>1. PageInv => ViewsAreOwn
  BY DEF PageInv, ViewsOK, ViewsAreOwn
<1> QED
  BY <1>1, PageInvariance, PTL

\* A publication outlives the session it began in, and still every listing is
\* signed on Arkiv's network by the client whose terms the task holds.
THEOREM ListingsAreClients == PageSpec => []ListedByClient
<1>1. PageInv => ListedByClient
  BY DEF PageInv, ListedOK, ListedByClient
<1> QED
  BY <1>1, PageInvariance, PTL
=============================================================================
