---------------------------- MODULE PageJourney -----------------------------
(***************************************************************************)
(* The page's controller (web/main.ts with wallet-network.ts, journey.ts,  *)
(* browser-prover.ts, terms.ts): one operation at a time under run(), a    *)
(* connection the enrollment panel may start beside it, and a wallet whose *)
(* account and network change under every await and whose events come      *)
(* later.  Keys and deliveries are module ReportDelivery, the private pass *)
(* is Enrollment, storage is SwarmStorage and the wait for a sent          *)
(* transaction is Settlement; here each is an await that answers or fails. *)
(*                                                                         *)
(* A session is the value of `generation`: what a task remembers of it is  *)
(* whether it is still the same.  A presentation, a set of terms or an     *)
(* opened report is named by the wallet it is for.                         *)
(***************************************************************************)
EXTENDS Naturals, FiniteSets

CONSTANTS Wallets, NoWallet, MaxJobs,
          Arbitrator,    \* the account that resolves disputes, a wallet's or not
          MaxSwitches,   \* account or network changes by the user
          MaxUnheard,    \* wallet events under way
          MaxLate        \* sent transactions no operation waits for any more

ASSUME PageAssumption ==
    /\ NoWallet \notin Wallets
    /\ {MaxJobs, MaxSwitches, MaxUnheard, MaxLate} \subseteq Nat

Jobs == 1 .. MaxJobs
Threads == {"run", "panel"}
Networks == {"settlement", "arkiv"}
Operations == {"connect", "choose", "refresh", "fund", "take", "import", "accept", "retrieve",
               "pay", "decide", "publish"}
Statuses == {"none", "open", "accepted", "submitted", "closed"}
\* decide: refund, claimAfterReview, dispute and resolveDispute.
Calls == {"register", "approve", "create", "accept", "pay", "decide"}

VARIABLES
    selected, network, unheard, switches,   \* the wallet, its events under way
    account, task, proofs, opened, \* the page
    job, tx, late, listed             \* the settlement chain, the listings
walletVars == <<selected, network, unheard, switches>>
viewVars == <<account, proofs, opened>>
worldVars == <<job, tx, late, listed>>
pageVars == <<selected, network, unheard, switches, account, task, proofs, opened,
              job, tx, late, listed>>

Idle == [name |-> "none", step |-> "idle", owner |-> NoWallet, same |-> TRUE, aborted |-> FALSE,
         job |-> 0, call |-> "none", from |-> NoWallet, subject |-> NoWallet]

Anyone == Wallets \union {NoWallet}
Job == [status : Statuses, client : Anyone, terms : Anyone, worker : Anyone]
Tx == [call : Calls, from : Wallets, job : Jobs \union {0}, subject : Anyone]
\* The awaited transaction, or its outcome.
Outcome(what) == [call |-> what, from |-> NoWallet, job |-> 0, subject |-> NoWallet]
Underway == tx.call \in Calls
Listing == [job : Jobs, by : Wallets, on : Networks]

PageTypeOK ==
    /\ selected \in Wallets /\ network \in Networks
    /\ unheard \in 0 .. MaxUnheard /\ switches \in 0 .. MaxSwitches
    /\ account \in Anyone
    /\ \A t \in Threads : /\ task[t].owner \in Anyone /\ {task[t].same, task[t].aborted} \subseteq BOOLEAN
                          /\ task[t].job \in Jobs \union {0}
                          /\ task[t].name \in Operations \union {"none"}
    /\ proofs \in [Jobs -> Anyone] /\ opened \in [Jobs -> Anyone]
    /\ job \in [Jobs -> Job]
    /\ tx \in Tx \union {Outcome(what) : what \in {"none", "done", "reverted"}} /\ late \subseteq Tx
    /\ listed \subseteq Listing

\* An event the page has not heard yet.
Announce == unheard < MaxUnheard /\ unheard' = unheard + 1

\* Of a set of terms and of a stored envelope no more is told apart than the
\* client the terms name and whether the task's commitment is there.
TermsOf(client) == client
Matches(j) == job[j].terms = job[j].client
Committed(j) == job[j].status \in {"submitted", "closed"}

NoneOf == [j \in Jobs |-> NoWallet]

PageInit ==
    /\ selected \in Wallets /\ network \in Networks /\ unheard = 0 /\ switches = 0
    /\ account = NoWallet /\ task = [t \in Threads |-> Idle]
    /\ proofs = NoneOf /\ opened = NoneOf
    /\ job = [j \in Jobs |-> [status |-> "none", client |-> NoWallet, terms |-> NoWallet,
                              worker |-> NoWallet]]
    /\ tx = Outcome("none") /\ late = {} /\ listed = {}

busy == task["run"].step # "idle"
run == task["run"]

At(t, step) == task[t].step = step
Goto(t, step) == task' = [task EXCEPT ![t].step = step]
End(t) == task' = [task EXCEPT ![t] = Idle]
Showing == [Idle EXCEPT !.name = "refresh", !.step = "refreshing"]
\* generation++ : no task is in its session any more, but for the one that goes on.
Expired(t) == [u \in Threads |-> [task[u] EXCEPT !.same = (u = t)]]

-----------------------------------------------------------------------------
(* Clicks.  What is offered is what the last refresh showed, so an older    *)
(* state of the job may stand behind a button.                             *)

FirstStep == [connect |-> "asking", choose |-> "choosing", refresh |-> "refreshing", fund |-> "keying",
              take |-> "passing", import |-> "checking", accept |-> "keying",
              retrieve |-> "fetching", pay |-> "rereading", decide |-> "deciding",
              publish |-> "verifying"]

Offered(name, j) ==
    CASE name \in {"connect", "choose", "refresh"} -> j = 0
      [] name = "fund" -> account # NoWallet /\ j = 0
      [] OTHER ->
           /\ account # NoWallet /\ j # 0 /\ job[j].status # "none"
           /\ name \in {"take", "import", "accept"} => job[j].client # account
           /\ name \in {"pay", "publish"} => job[j].client = account
           /\ name = "retrieve" => account \in {job[j].client, job[j].worker}
           /\ name = "decide" => account \in {job[j].client, job[j].worker, Arbitrator}
           /\ name = "accept" => proofs[j] = account
           /\ name = "pay" => opened[j] # NoWallet

Click(name, j) ==
    /\ ~busy /\ Offered(name, j)
    /\ task' = [task EXCEPT !["run"] =
         [name |-> name, step |-> FirstStep[name], owner |-> account, same |-> TRUE, aborted |-> FALSE,
          job |-> j, call |-> "none", from |-> NoWallet,
          subject |-> CASE name = "accept" -> proofs[j]
                        [] name = "fund" -> TermsOf(account)
                        [] OTHER -> NoWallet]]
    /\ UNCHANGED <<walletVars, account, proofs, opened, worldVars>>

\* hooks.connect of the enrollment panel, which is not under run().
ClickPanel ==
    /\ ~busy /\ At("panel", "idle")
    /\ task' = [task EXCEPT !["panel"] = [Idle EXCEPT !.name = "connect", !.step = "asking"]]
    /\ UNCHANGED <<walletVars, viewVars, worldVars>>

\* chooseRole renders the page anew, and with it empty reports.
ChooseRole ==
    /\ opened' = NoneOf
    /\ UNCHANGED <<walletVars, account, task, proofs, worldVars>>

\* Any await may fail: run() shows the error and is free again.  A transaction
\* whose wait failed may still be executed (a late payment or decision is one
\* of the closings of Elsewhere).
Fail(t) ==
    /\ ~At(t, "idle") /\ End(t)
    /\ IF t = "run" /\ run.step = "settling" /\ Underway
       THEN /\ late' = IF tx.call \in {"create", "accept"} THEN late \union {tx} ELSE late
            /\ Cardinality(late') <= MaxLate
            /\ tx' = Outcome("none")
       ELSE /\ tx' = IF t = "run" THEN Outcome("none") ELSE tx
            /\ UNCHANGED late
    /\ UNCHANGED <<walletVars, viewVars, job, listed>>

-----------------------------------------------------------------------------
(* connect                                                                 *)

\* requestWalletAccountSelection: the choice is a SwitchWallet made meanwhile.
ChooseAccount ==
    /\ At("run", "choosing")
    /\ task' = [task EXCEPT !["run"].name = "connect", !["run"].step = "asking"]
    /\ UNCHANGED <<walletVars, viewVars, worldVars>>

AskAccounts(t) ==
    /\ At(t, "asking")
    /\ task' = [task EXCEPT ![t].step = "network", ![t].same = TRUE]
    /\ UNCHANGED <<walletVars, viewVars, worldVars>>

\* A wallet on another network is switched once and connect starts again.
ReadNetwork(t) ==
    /\ At(t, "network") /\ task[t].same
    /\ \/ /\ network = "settlement" /\ Goto(t, "selecting")
          /\ UNCHANGED walletVars
       \/ /\ network # "settlement" /\ task[t].call # "again"
          /\ network' = "settlement" /\ Announce
          /\ task' = [task EXCEPT ![t].step = "asking", ![t].call = "again"]
          /\ UNCHANGED <<selected, switches>>
    /\ UNCHANGED <<viewVars, worldVars>>

ReadAccount(t) ==
    /\ At(t, "selecting") /\ task[t].same
    /\ task' = [task EXCEPT ![t].step = "device", ![t].owner = selected]
    /\ UNCHANGED <<walletVars, viewVars, worldVars>>

\* After the device key: the same session, account and network, or an error.
StillSelected(t) == task[t].same /\ selected = task[t].owner /\ network = "settlement"

Connected(t) ==
    /\ At(t, "device") /\ StillSelected(t)
    /\ account' = task[t].owner
    /\ task' = [Expired(t) EXCEPT ![t] = Showing]
    /\ UNCHANGED <<walletVars, proofs, opened, worldVars>>

\* refresh: what was read for another session is not shown.
Refreshed(t) ==
    /\ At(t, "refreshing") /\ End(t)
    /\ opened' = IF task[t].same THEN NoneOf ELSE opened
    /\ UNCHANGED <<walletVars, account, proofs, worldVars>>

-----------------------------------------------------------------------------
(* tx: the call is made for whatever account the page has at that moment.  *)

MutInSession == account # NoWallet
InSession == run.same /\ account = run.owner

Prompt(call, subject) ==
    /\ account # NoWallet
    /\ task' = [task EXCEPT !["run"].step = "signing", !["run"].call = call,
                            !["run"].from = account, !["run"].subject = subject]

Confirm ==
    /\ At("run", "signing") /\ network = "settlement"
    /\ tx' = [call |-> run.call, from |-> run.from, job |-> run.job, subject |-> run.subject]
    /\ Goto("run", "settling")
    /\ UNCHANGED <<walletVars, viewVars, job, late, listed>>

\* The reward is approved: the task is funded, in the same session only.
Fund == InSession /\ Prompt("create", run.subject)

\* run() refreshes after the operation, in the session it began in.
Finish == task' = [task EXCEPT !["run"] = IF run.same THEN Showing ELSE Idle]

Settled ==
    /\ At("run", "settling") /\ tx.call = "done" /\ tx' = Outcome("none")
    /\ CASE run.call = "register" -> Goto("run", "keying")
         [] run.call = "approve" -> Fund
         [] OTHER -> Finish
    /\ proofs' = IF run.call = "accept" THEN [proofs EXCEPT ![run.job] = NoWallet] ELSE proofs
    /\ UNCHANGED <<walletVars, account, opened, job, late, listed>>

\* pay and the decisions check no session between their reads and tx; whether
\* a report is open was looked up before pay's read of the digest.
Call ==
    /\ \/ At("run", "deciding") /\ Prompt("decide", NoWallet)
       \/ At("run", "rereading") /\ Prompt("pay", NoWallet)
    /\ UNCHANGED <<walletVars, viewVars, worldVars>>

-----------------------------------------------------------------------------
(* Funding and accepting                                                   *)

\* ensureDocumentKey: registers this browser's key, or finds it in force.
EnsureKey ==
    /\ At("run", "keying") /\ InSession
    /\ \/ Prompt("register", run.subject)
       \/ run.name = "fund" /\ Goto("run", "timing")
       \/ run.name = "accept" /\ Prompt("accept", run.subject)
    /\ UNCHANGED <<walletVars, viewVars, worldVars>>

\* The terms are encoded for the owner and uploaded, then the reward approved.
EncodeTerms ==
    /\ At("run", "timing") /\ InSession
    /\ Goto("run", "storing")
    /\ UNCHANGED <<walletVars, viewVars, worldVars>>

TermsStored ==
    /\ At("run", "storing") /\ InSession
    /\ Prompt("approve", run.subject)
    /\ UNCHANGED <<walletVars, viewVars, worldVars>>

-----------------------------------------------------------------------------
(* generatePresentation, and a presentation imported from a file           *)

\* The private pass is set up: a signature the page cannot take back.
PassReady ==
    /\ At("run", "passing")
    /\ IF run.aborted \/ ~run.same THEN End("run") ELSE Goto("run", "reading")
    /\ UNCHANGED <<walletVars, viewVars, worldVars>>

\* The issuer's snapshot and the task's context; then the prover's worker.
SnapshotRead ==
    /\ At("run", "reading") /\ ~run.aborted /\ run.same
    /\ Goto("run", "proving")
    /\ UNCHANGED <<walletVars, viewVars, worldVars>>

Proved ==
    /\ At("run", "proving") /\ ~run.aborted /\ run.same
    /\ Goto("run", "checking")
    /\ UNCHANGED <<walletVars, viewVars, worldVars>>

\* validatePresentation simulates the acceptance.
Validated ==
    /\ At("run", "checking") /\ ~run.aborted
    /\ job[run.job].status = "open" /\ run.same /\ account = run.owner
    /\ proofs' = [proofs EXCEPT ![run.job] = run.owner]
    /\ Finish
    /\ UNCHANGED <<walletVars, account, opened, worldVars>>

MutTimeout == FALSE /\ UNCHANGED pageVars
\* The cancel button, pagehide, or five minutes.
Timeout ==
    /\ run.name = "take" /\ ~run.aborted
    /\ task' = [task EXCEPT !["run"].aborted = TRUE]
    /\ UNCHANGED <<walletVars, viewVars, worldVars>>

\* What runs under the signal stops when it is aborted.
Stop ==
    /\ run.name = "take" /\ run.step \in {"reading", "proving", "checking"} /\ run.aborted
    /\ End("run")
    /\ UNCHANGED <<walletVars, viewVars, worldVars>>

-----------------------------------------------------------------------------
(* Reading a report, listing a task                                        *)

\* What was decrypted is shown in the session that asked for it.
MutShown == TRUE
Shown == run.same

Decrypted ==
    /\ At("run", "fetching") /\ Committed(run.job) /\ Shown
    /\ opened' = [opened EXCEPT ![run.job] = run.owner]
    /\ End("run")
    /\ UNCHANGED <<walletVars, account, proofs, worldVars>>

\* verifyListing: the settled job is open, the client's, under its terms.
Verified ==
    /\ At("run", "verifying")
    /\ job[run.job].status = "open" /\ job[run.job].client = run.owner
    /\ Matches(run.job)
    /\ Goto("run", "leaving")
    /\ UNCHANGED <<walletVars, viewVars, worldVars>>

\* ensureWalletChain: the owner is selected before and after the switch.
LeaveSettlement ==
    /\ At("run", "leaving") /\ selected = run.owner
    /\ network' = "arkiv"
    /\ IF network = "arkiv" THEN UNCHANGED unheard ELSE Announce
    /\ Goto("run", "arriving")
    /\ UNCHANGED <<selected, switches, viewVars, worldVars>>

OnArkiv ==
    /\ At("run", "arriving") /\ selected = run.owner /\ network = "arkiv"
    /\ Goto("run", "listing")
    /\ UNCHANGED <<walletVars, viewVars, worldVars>>

\* The driver asks the wallet for its network again before it signs.
MutSigningChain == TRUE
SigningChain == network = "arkiv"

Publish ==
    /\ At("run", "listing") /\ SigningChain
    /\ listed' = listed \union {[job |-> run.job, by |-> run.owner, on |-> network]}
    /\ Goto("run", "returning")
    /\ UNCHANGED <<walletVars, viewVars, job, tx, late>>

\* Back to the settlement network, if the wallet agrees.
Return ==
    /\ At("run", "returning")
    /\ network' = "settlement" /\ Announce
    /\ End("run")
    /\ UNCHANGED <<selected, switches, viewVars, worldVars>>

-----------------------------------------------------------------------------
(* The wallet, the chain                                                   *)

SwitchWallet ==
    /\ switches < MaxSwitches /\ switches' = switches + 1
    /\ Announce
    /\ \/ \E w \in Wallets \ {selected} : selected' = w /\ UNCHANGED network
       \/ \E n \in Networks \ {network} : network' = n /\ UNCHANGED selected
    /\ UNCHANGED <<viewVars, task, worldVars>>

\* accountsChanged, chainChanged, disconnect: nothing of the session stays.
WalletEvent ==
    /\ unheard > 0 /\ unheard' = unheard - 1
    /\ account' = NoWallet
    /\ proofs' = NoneOf /\ opened' = NoneOf
    /\ task' = [t \in Threads |-> [task[t] EXCEPT !.same = FALSE, !.aborted = task[t].name = "take"]]
    /\ UNCHANGED <<selected, network, switches, worldVars>>

\* What a call does to the tasks; the keys and the allowance are not kept here.
\* A task that is disputed is closed to its parties, and its arbitrator divides
\* the reward.
Effect(t) ==
    CASE t.call \in {"register", "approve"} -> UNCHANGED job
      [] t.call = "create" ->
           \E j \in Jobs :
             /\ job[j].status = "none" /\ \A k \in 1 .. j - 1 : job[k].status # "none"
             /\ job' = [job EXCEPT ![j] = [status |-> "open", client |-> t.from,
                                           terms |-> t.subject, worker |-> NoWallet]]
      [] t.call = "accept" ->
           /\ job[t.job].status = "open" /\ t.subject = t.from
           /\ job' = [job EXCEPT ![t.job].status = "accepted", ![t.job].worker = t.from]
      [] t.call = "pay" ->
           /\ job[t.job].status = "submitted" /\ job[t.job].client = t.from
           /\ job' = [job EXCEPT ![t.job].status = "closed"]
      [] OTHER ->
           \/ /\ job[t.job].status # "closed" /\ t.from \in {job[t.job].client, job[t.job].worker}
              /\ job' = [job EXCEPT ![t.job].status = "closed"]
           \/ job[t.job].status = "closed" /\ t.from = Arbitrator /\ UNCHANGED job

Execute ==
    /\ \/ /\ Underway /\ UNCHANGED late
          /\ \/ Effect(tx) /\ tx' = Outcome("done")
             \/ tx' = Outcome("reverted") /\ UNCHANGED job
       \/ /\ UNCHANGED tx
          /\ \E t \in late :
               /\ late' = late \ {t}
               /\ Effect(t) \/ UNCHANGED job
    /\ UNCHANGED <<walletVars, viewVars, task, listed>>

\* What other pages and the passing of time do to a task.
Elsewhere(j) ==
    /\ \/ job[j].status = "accepted" /\ job' = [job EXCEPT ![j].status = "submitted"]
       \/ job[j].status \notin {"none", "closed"} /\ job' = [job EXCEPT ![j].status = "closed"]
    /\ UNCHANGED <<walletVars, viewVars, task, tx, late, listed>>

-----------------------------------------------------------------------------
PageNext ==
    \/ \E name \in Operations, j \in Jobs \union {0} : Click(name, j)
    \/ ClickPanel \/ ChooseRole
    \/ \E t \in Threads :
         Fail(t) \/ AskAccounts(t) \/ ReadNetwork(t) \/ ReadAccount(t) \/ Connected(t) \/ Refreshed(t)
    \/ ChooseAccount \/ Confirm \/ Settled \/ Call
    \/ EnsureKey \/ EncodeTerms \/ TermsStored
    \/ PassReady \/ SnapshotRead \/ Proved \/ Validated \/ Timeout \/ Stop
    \/ Decrypted \/ Verified \/ LeaveSettlement \/ OnArkiv \/ Publish \/ Return
    \/ SwitchWallet \/ WalletEvent
    \/ Execute
    \/ \E j \in Jobs : Elsewhere(j)

PageSpec == PageInit /\ [][PageNext]_pageVars

\* The timer runs out, an aborted step ends, and the wallet's user answers
\* the one prompt that cannot be withdrawn.  Nothing makes the prover finish.
PageFairness == WF_pageVars(Timeout) /\ WF_pageVars(Stop) /\ WF_pageVars(PassReady)

-----------------------------------------------------------------------------
(* Properties                                                              *)

\* A task is funded under terms that name its funder, and accepted with a
\* presentation made for the sender, though the account the transaction is
\* sent from is read anew after awaits under which the wallet may change.
SentForSender ==
    \A t \in late \union {tx} :
        t.call \in {"create", "accept"} => t.subject = t.from

\* What the page shows or holds for one wallet (an opened report, a private
\* presentation) is gone once the page has heard that the wallet changed.
ViewsAreOwn ==
    unheard = 0 => \A j \in Jobs : opened[j] \in {NoWallet, account} /\ proofs[j] \in {NoWallet, account}

\* A listing is signed on Arkiv's network by the client of the task it names,
\* although the publication goes on after the session it began in has ended.
ListedByClient ==
    \A l \in listed : l.on = "arkiv" /\ l.by = job[l.job].client /\ job[l.job].terms = l.by

\* A proof attempt ends, whether or not the prover ever answers, and leaves
\* the page free.
TakeEnds == run.name = "take" ~> run.name # "take"
=============================================================================
