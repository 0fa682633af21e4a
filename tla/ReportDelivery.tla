--------------------------- MODULE ReportDelivery ---------------------------
(***************************************************************************)
(* The keys reports are encrypted for, and the delivery of one report.     *)
(* Every wallet has a history of key pairs in every browser profile it is  *)
(* used in (pilot/keys.ts, IndexedDB), at most one public key in the       *)
(* directory contract (QualificationKeys.sol), and tabs that connect,      *)
(* register, rotate and revoke keys, and deliver (pilot/web/main.ts).      *)
(* Nothing orders the tabs but the transactions of the store and of the    *)
(* chain; the wallet may change under every await.                         *)
(*                                                                         *)
(* A tab runs one operation at a time (run and its busy flag).  A step of  *)
(* an operation ends at an await; its guard is what the code checks there, *)
(* and an operation whose check fails, whose request fails or whose user   *)
(* declines ends in Fail.                                                  *)
(***************************************************************************)
EXTENDS Integers, FiniteSets

CONSTANTS
    Accounts, Client, Worker,   \* wallets; the two parties of the job
    Profiles, Tabs, ProfileOf,  \* browser profiles and the tabs in them
    WalletsOf,                  \* the wallets a profile's extension holds
    MaxHistory,                 \* 32 keys kept for a wallet and profile
    Life,                       \* a registration holds thirty days
    MaxKeys, MaxSent, MaxTime,  \* bounds
    Nobody, NoReport

Recipients == {Client, Worker}
Keys == 1 .. MaxKeys
NoKey == 0

ASSUME DeliveryAssumptions ==
    /\ Client \in Accounts /\ Worker \in Accounts /\ Client # Worker
    /\ ProfileOf \in [Tabs -> Profiles] /\ WalletsOf \in [Profiles -> SUBSET Accounts]
    /\ MaxHistory \in Nat \ {0} /\ Life \in Nat \ {0}
    /\ MaxKeys \in Nat /\ MaxSent \in Nat /\ MaxTime \in Nat
    /\ Nobody \notin Accounts

\* A key store's namespace: one wallet in one browser profile.
Namespaces == Profiles \X Accounts

Binding == [key : Keys \union {NoKey}, expires : Nat, version : Nat]

\* A sealed report: the bindings it is encrypted for, the profile that
\* sealed it and, as history, the versions in force when its upload ended.
Document == [to : [Recipients -> Binding], by : Profiles, since : [Recipients -> Nat]]

Call == [name : {"register"}, key : Keys, expires : Nat] \union [name : {"revoke"}]
            \union [name : {"submit"}, document : Document]

VARIABLES
    time, binding, pool, sent, report,  \* the chain and its pending calls
    kept, current, made,                \* key histories, keys generated
    account, device, op                 \* tabs: wallet, key, operation

chain == <<time, binding, pool, sent, report>>
browser == <<kept, current, made>>
vars == <<time, binding, pool, sent, report, kept, current, made, account, device, op>>

NoBinding == [key |-> NoKey, expires |-> 0, version |-> 0]

\* What a tab is doing, for which wallet, with which key or bindings, and
\* whether its session is still the one it began in.
Steps == {"idle", "opening", "creating", "opened", "keying", "rotating", "rotated", "ensuring",
          "sealing", "checking", "uploading", "rechecking"}

Operation ==
    [step : Steps, owner : Accounts \union {Nobody}, key : Keys \union {NoKey},
     fresh : {"yes", "no"}, seen : [Recipients -> Binding], since : [Recipients -> Nat]]

Idle == [step |-> "idle", owner |-> Nobody, key |-> NoKey, fresh |-> "yes",
         seen |-> [r \in Recipients |-> NoBinding], since |-> [r \in Recipients |-> 0]]

Init ==
    /\ time = 1 /\ binding = [a \in Accounts |-> NoBinding]
    /\ pool = {} /\ sent = [a \in Accounts |-> 0] /\ report = NoReport
    /\ kept = [n \in Namespaces |-> {}] /\ current = [n \in Namespaces |-> NoKey] /\ made = 0
    /\ account = [t \in Tabs |-> Nobody] /\ device = [t \in Tabs |-> NoKey]
    /\ op = [t \in Tabs |-> Idle]

Become(t, o) == op' = [op EXCEPT ![t] = o]
Begin(t, step, owner, key) ==
    /\ op[t].step = "idle"
    /\ Become(t, [Idle EXCEPT !.step = step, !.owner = owner, !.key = key])

\* The namespace an operation works in, and its wallet is still connected.
Place(t) == <<ProfileOf[t], op[t].owner>>
Fresh(t) == op[t].fresh = "yes"

Generate == made < MaxKeys /\ made' = made + 1

\* writeContract: the call is signed for the wallet the tab is connected to.
Send(t, call) ==
    /\ account[t] # Nobody /\ sent[account[t]] < MaxSent
    /\ sent' = [sent EXCEPT ![account[t]] = @ + 1]
    /\ pool' = pool \union {[nonce |-> sent[account[t]], from |-> account[t], call |-> call]}

(***************************************************************************)
(* connect and loadOrCreateDeviceKey.                                      *)
(***************************************************************************)
Connect(t, a) ==
    /\ a \in WalletsOf[ProfileOf[t]]
    /\ Begin(t, "opening", a, NoKey)
    /\ UNCHANGED <<chain, browser, account, device>>

\* The read-only transaction, and the key pair generated if it finds none.
LoadKey(t) ==
    /\ op[t].step = "opening"
    /\ IF current[Place(t)] # NoKey
       THEN /\ Become(t, [op[t] EXCEPT !.step = "opened", !.key = current[Place(t)]])
            /\ UNCHANGED made
       ELSE /\ Generate
            /\ Become(t, [op[t] EXCEPT !.step = "creating", !.key = made + 1])
    /\ UNCHANGED <<chain, kept, current, account, device>>

\* The write transaction looks again: another tab may have come first.
Taken(n) == current[n] # NoKey

CreateKey(t) ==
    /\ op[t].step = "creating"
    /\ IF Taken(Place(t))
       THEN /\ Become(t, [op[t] EXCEPT !.step = "opened", !.key = current[Place(t)]])
            /\ UNCHANGED <<kept, current>>
       ELSE /\ Become(t, [op[t] EXCEPT !.step = "opened"])
            /\ kept' = [kept EXCEPT ![Place(t)] = {op[t].key}]
            /\ current' = [current EXCEPT ![Place(t)] = op[t].key]
    /\ UNCHANGED <<chain, made, account, device>>

Connected(t) ==
    /\ op[t].step = "opened" /\ Fresh(t)
    /\ Become(t, Idle)
    /\ account' = [account EXCEPT ![t] = op[t].owner]
    /\ device' = [device EXCEPT ![t] = op[t].key]
    /\ UNCHANGED <<chain, browser>>

(***************************************************************************)
(* register, rotateDeviceKey, revoke and ensureDocumentKey.                *)
(***************************************************************************)
Register(t) ==
    /\ account[t] # Nobody
    /\ Begin(t, "keying", account[t], device[t])
    /\ UNCHANGED <<chain, browser, account, device>>

\* The time of the latest block is read, then the session checked.
SendKey(t) ==
    /\ op[t].step = "keying" /\ Fresh(t)
    /\ Send(t, [name |-> "register", key |-> op[t].key, expires |-> time + Life])
    /\ Become(t, Idle)
    /\ UNCHANGED <<time, binding, report, browser, account, device>>

Rotate(t) ==
    /\ account[t] # Nobody
    /\ Generate
    /\ Begin(t, "rotating", account[t], made + 1)
    /\ UNCHANGED <<chain, kept, current, account, device>>

HistoryFull(n) == Cardinality(kept[n]) >= MaxHistory

MutAppended(n, k) == {k}
Appended(n, k) == kept[n] \union {k}

StoreRotated(t) ==
    /\ op[t].step = "rotating" /\ ~HistoryFull(Place(t))
    /\ Become(t, [op[t] EXCEPT !.step = "rotated"])
    /\ kept' = [kept EXCEPT ![Place(t)] = Appended(Place(t), op[t].key)]
    /\ current' = [current EXCEPT ![Place(t)] = op[t].key]
    /\ UNCHANGED <<chain, made, account, device>>

Rotated(t) ==
    /\ op[t].step = "rotated" /\ Fresh(t)
    /\ device' = [device EXCEPT ![t] = op[t].key]
    /\ Become(t, [op[t] EXCEPT !.step = "keying"])
    /\ UNCHANGED <<chain, browser, account>>

Revoke(t) ==
    /\ op[t].step = "idle"
    /\ Send(t, [name |-> "revoke"])
    /\ UNCHANGED <<time, binding, report, browser, account, device, op>>

\* Before funding or accepting.
Ensure(t) ==
    /\ account[t] # Nobody
    /\ Begin(t, "ensuring", account[t], device[t])
    /\ UNCHANGED <<chain, browser, account, device>>

\* documentKeySetup: ready, register, or replace the key of another browser,
\* which the user confirms or declines (Fail).
Ready(b, k) == b.key = k /\ b.expires > time
Ensured(t) ==
    /\ op[t].step = "ensuring" /\ Fresh(t)
    /\ Become(t, IF Ready(binding[op[t].owner], op[t].key)
                 THEN Idle ELSE [op[t] EXCEPT !.step = "keying"])
    /\ UNCHANGED <<chain, browser, account, device>>

(***************************************************************************)
(* The submit action of the worker's page.  The reads of one Promise.all   *)
(* are one step.                                                           *)
(***************************************************************************)
\* The worker's own binding must be the key of this tab.
Sealable(t, seen) == device[t] = seen[Worker].key

Deliver(t) ==
    /\ account[t] = Worker /\ report = NoReport
    /\ op[t].step = "idle"
    /\ LET seen == [r \in Recipients |-> binding[r]] IN
       /\ Sealable(t, seen)
       /\ Become(t, [Idle EXCEPT !.step = "sealing", !.owner = Worker, !.seen = seen])
    /\ UNCHANGED <<chain, browser, account, device>>

\* encryptForRecipients, with the time of the latest block.
Encrypt(t) ==
    /\ op[t].step = "sealing"
    /\ \A r \in Recipients : op[t].seen[r].key # NoKey /\ op[t].seen[r].expires > time
    /\ Become(t, [op[t] EXCEPT !.step = "checking"])
    /\ UNCHANGED <<chain, browser, account, device>>

\* ensureBindings, before the upload and again before the transaction.
MutUnchanged(t, r) == TRUE
Unchanged(t, r) == binding[r] = op[t].seen[r]

BindingsHold(t) ==
    /\ Fresh(t)
    /\ \A r \in Recipients : Unchanged(t, r) /\ op[t].seen[r].expires > time

Checked(t) ==
    /\ op[t].step = "checking" /\ BindingsHold(t)
    /\ Become(t, [op[t] EXCEPT !.step = "uploading"])
    /\ UNCHANGED <<chain, browser, account, device>>

Uploaded(t) ==
    /\ op[t].step = "uploading" /\ Fresh(t)
    /\ Become(t, [op[t] EXCEPT !.step = "rechecking",
                               !.since = [r \in Recipients |-> binding[r].version]])
    /\ UNCHANGED <<chain, browser, account, device>>

SendReport(t) ==
    /\ op[t].step = "rechecking" /\ BindingsHold(t)
    /\ Send(t, [name |-> "submit",
                document |-> [to |-> op[t].seen, by |-> ProfileOf[t], since |-> op[t].since]])
    /\ Become(t, Idle)
    /\ UNCHANGED <<time, binding, report, browser, account, device>>

(***************************************************************************)
(* What may happen to any operation.                                       *)
(***************************************************************************)
\* A check, a request or the wallet refuses, which run reports; with
\* WalletEvent, a reload of the page.
Fail(t) ==
    /\ op[t].step # "idle"
    /\ Become(t, Idle)
    /\ UNCHANGED <<chain, browser, account, device>>

\* accountsChanged, chainChanged or disconnect; the operation runs on until
\* it compares its session.
WalletEvent(t) ==
    /\ account' = [account EXCEPT ![t] = Nobody]
    /\ device' = [device EXCEPT ![t] = NoKey]
    /\ IF op[t].step = "idle" THEN UNCHANGED op
       ELSE Become(t, [op[t] EXCEPT !.fresh = "no"])
    /\ UNCHANGED <<chain, browser>>

(***************************************************************************)
(* The chain: calls of one account in the order they were sent, long after *)
(* the page that sent them stopped waiting, or never.                      *)
(***************************************************************************)
InOrder(x) == \A y \in pool : y.from = x.from => x.nonce <= y.nonce

RegisterKey(x) ==
    /\ x.call.name = "register"
    /\ IF x.call.expires > time /\ x.call.expires <= time + 3 * Life
       THEN binding' = [binding EXCEPT ![x.from] =
                [key |-> x.call.key, expires |-> x.call.expires, version |-> @.version + 1]]
       ELSE UNCHANGED binding
    /\ UNCHANGED report

RevokeKey(x) ==
    /\ x.call.name = "revoke"
    /\ binding' = [binding EXCEPT ![x.from] =
                [key |-> NoKey, expires |-> 0, version |-> @.version + 1]]
    /\ UNCHANGED report

SubmitDocument(x) ==
    /\ x.call.name = "submit"
    /\ report' = IF x.from = Worker /\ report = NoReport THEN x.call.document ELSE report
    /\ UNCHANGED binding

Include(x) ==
    /\ InOrder(x)
    /\ pool' = pool \ {x}
    /\ RegisterKey(x) \/ RevokeKey(x) \/ SubmitDocument(x)
    /\ UNCHANGED <<time, sent, browser, account, device, op>>

Tick ==
    /\ time < MaxTime /\ time' = time + 1
    /\ UNCHANGED <<binding, pool, sent, report, browser, account, device, op>>

Next ==
    \/ \E t \in Tabs :
        \/ \E a \in Accounts : Connect(t, a)
        \/ LoadKey(t) \/ CreateKey(t) \/ Connected(t)
        \/ Register(t) \/ SendKey(t) \/ Revoke(t) \/ Ensure(t) \/ Ensured(t)
        \/ Rotate(t) \/ StoreRotated(t) \/ Rotated(t)
        \/ Deliver(t) \/ Encrypt(t) \/ Checked(t) \/ Uploaded(t) \/ SendReport(t)
        \/ Fail(t) \/ WalletEvent(t)
    \/ \E x \in pool : Include(x)
    \/ Tick

Spec == Init /\ [][Next]_vars

(***************************************************************************)
(* Properties.                                                             *)
(***************************************************************************)

\* Every variable has its type, and no history outgrows its limit.
TypeOK ==
    /\ time \in Nat /\ binding \in [Accounts -> Binding]
    /\ pool \subseteq [nonce : Nat, from : Accounts, call : Call] /\ sent \in [Accounts -> Nat]
    /\ report \in Document \union {NoReport}
    /\ kept \in [Namespaces -> SUBSET Keys]
    /\ \A n \in Namespaces : Cardinality(kept[n]) <= MaxHistory
    /\ current \in [Namespaces -> Keys \union {NoKey}] /\ made \in 0 .. MaxKeys
    /\ account \in [Tabs -> Accounts \union {Nobody}]
    /\ device \in [Tabs -> Keys \union {NoKey}]
    /\ op \in [Tabs -> Operation]

\* The key a connected tab works with is in the history of its own wallet
\* and profile, whatever tab created or rotated keys, or changed wallet,
\* meanwhile.
DeviceIsKept ==
    \A t \in Tabs : account[t] # Nobody => device[t] \in kept[<<ProfileOf[t], account[t]>>]

\* Nobody is ever asked to encrypt for a key whose private half is gone: a
\* wallet's public key in the directory is in the history of that wallet in
\* some profile ("no historical keys were deleted").
RegisteredIsKept ==
    \A a \in Accounts : binding[a].key # NoKey =>
        \E p \in Profiles : binding[a].key \in kept[<<p, a>>]

\* A delivered report can be opened, whatever keys were rotated, registered
\* or revoked while it was on its way: the client has the key in some
\* profile, the worker in the one that sealed it.
DeliveredIsReadable ==
    report # NoReport =>
        /\ \E p \in Profiles : report.to[Client].key \in kept[<<p, Client>>]
        /\ report.to[Worker].key \in kept[<<report.by, Worker>>]

\* A report is not delivered for a key that its owner had replaced or
\* revoked by the time it was stored: what changes during encryption and
\* upload stops it.
RecipientsAreCurrent ==
    report # NoReport => \A r \in Recipients : report.to[r].version >= report.since[r]
=============================================================================
