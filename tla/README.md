# Deaddrop: TLA+ verification project

Deaddrop is a marketplace for focused technical reviews. A client funds a job in
an escrow contract; a reviewer whose credential a named issuer signed proves in
zero knowledge that it is valid and unrevoked and is assigned the job; the
reviewer delivers a report encrypted for both parties; the client pays or
disputes. The code is under `src/experiments/qualification/`; paths below are
relative to that directory unless they begin with `src/`.

Each module here models one component from its source. TLC checks it on small
instances, and TLAPS proves the safety properties that matter most for all
values of the constants. `PROJECT.json` maps every
definition to the lines it stands for.

## 1. The system and its parts

| component | state | operations | talks to |
| --- | --- | --- | --- |
| **Escrow contract** `contracts/src/QualificationEscrow.sol` | jobs, consumed nullifiers, document digests, terms references, revocation root and epoch; one pooled token balance | create, accept, submit, approve, claim, dispute, resolve, refund, setRoot | token, verifier contract; read by everything else |
| **Key directory** `contracts/src/QualificationKeys.sol` | per wallet: public key, expiry, version | register, revoke | the page |
| **Hosted issuer** `pilot/hosting/automatic-issuer.ts` | one JSON ledger in a blob, written with an etag condition | `allocateCredential` | enrollment API; blob store |
| **Issuer registry** `prover/issuer_registry.go` | a directory: key, state (next index, issued, revoked), snapshot, credential files; a lock file | init, issue, revoke, snapshot commands | file system; operator scripts |
| **Reviewer enrollment** `pilot/web/enrollment.ts`, `pilot/credential-vault.ts` | per wallet and deployment one vault entry (holder, pending ticket, credential) in IndexedDB; a backup file | prepare, resume, submit, poll, collect, export, import | enrollment API |
| **Enrollment API and inbox** `pilot/hosting/enrollment-api.ts`, `pilot/enrollment-inbox.ts` | rows in a public database with native expiry; in memory, the calls in progress | POST application, GET status, GET approval | hosted issuer, Arkiv |
| **Listing board** `pilot/listings.ts` | shown listings, pending and active hydrations, dirty and reconcile marks, generation, connection state | start, stop, refresh, entity events, heads, reconnections | Arkiv queries and socket, escrow reads |
| **Report keys and delivery** `pilot/keys.ts`, `pilot/web/main.ts` | key histories in IndexedDB; the tab's account, device key and session generation | connect, register, rotate, revoke, ensure, submit | key directory, storage, escrow |
| **Settlement wait** `pilot/settlement.ts` | one deadline, the receipt found so far | wait for a receipt that is final and canonical | RPC node |
| **Page controller** `pilot/web/main.ts`, `pilot/journey.ts` | account, selected job, generation counters, busy flag, proof in progress | fund, publish, accept, submit, pay, dispute | all of the above |
| **Public read API** `pilot/hosting/read-api.ts` | none between requests | config, snapshot, terms, document | RPC node, storage |
| **Storage clients** `pilot/swarm-gateway.ts`, `pilot/swarm-id.ts` | connection state, a revision, controllers of requests in progress | initialize, upload with verified retrieval, download, disconnect | Swarm |
| **Local storage server** `pilot/start.mjs` | upload cache, locks, quotas | POST terms, POST upload, reads | RPC node, storage |
| **Snapshot publication** `pilot/web/publish-snapshot.ts`, `pilot/publish-snapshot.mjs` | the receipt of one upload; the deployment manifest | publish, retrieve, write the reference | storage clients, issuer registry |
| **Operator enrollment** `pilot/enrollment-operator.mjs`, `pilot/issue-enrollment.mjs` | a directory per ticket with a lock and a credential | approve, reserve an index, write the credential | inbox, issuer registry |
| **Deployment** `pilot/deploy-fuji.mjs` | a directory: lock, setup, artifacts, journal, manifest | prepare, broadcast | chain |
| **Workbench** `runtime/start.mjs` | every role's wallet, one busy flag, current proof, document references | ten actions, one at a time | escrow, storage, prover |
| **Wallet networks** `pilot/wallet-network.ts` | none | choose an account, move between networks | wallet |
| **Circuit and provers**, **presentation**, **other scripts and probes** | none that outlives a call | see section 6 | |

What is hard in them, in the order of what goes wrong first:

* several **instances and tabs without a common lock**: function instances share
  only a blob or a public database, browser tabs only IndexedDB transactions,
  registry commands only a file lock;
* **state read before an await and used after it**: the ledger before a
  signature, the vault entry before a request, key bindings before an upload, a
  snapshot before its verification;
* **lost and late calls**: a write stored though its answer was lost, a request
  that arrives after its sender gave up, a transaction included after its page
  was closed, events lost while a socket is down;
* **crashes**: a registry command killed between its writes, or a power loss
  that undoes a rename not yet synced; a deployment or an approval killed and
  started again over the files it left, torn ones among them, and beside the
  child process it left running;
* **a world that changes its mind**: blocks not yet settled are replaced, the
  wallet's user switches account or network during an operation and the page
  hears of it later;
* **boundaries**: six functions compare `block.timestamp` with deadlines, leases
  end at a block, three rows are allowed per wallet, 32 keys per history.

`PROJECT.json` lists each of these as a hazard at the line where it bites, with
the properties that would catch it.

### What makes each part correct

* *Escrow*: funds are always covered and leave once, to the client and the
  assigned worker only; only a current credential is ever admitted, once per
  job; a delivery is never refunded; no instant lets two parties race for one
  payment; nothing stays locked for ever.
* *Issuer*: one index per ticket and one holder per index, whatever is retried,
  raced or killed; what was released is on record; a revocation that was
  reported stays.
* *Enrollment*: the holder secret behind a submitted ticket or a granted
  credential is never discarded; a ticket is not asked for twice; setup ends in
  a credential.
* *Board*: nothing is shown for another filter; "live" means connected; what
  the chain lists and the board misses is always remembered somewhere that the
  next head picks up; in the end it shows what the chain lists.
* *Keys and delivery*: no private key is lost while somebody may encrypt for it;
  what is delivered can be opened and was encrypted for the keys then in force.
* *Settlement and public reads*: what is reported settled, or served, is what the
  settled chain holds, and every wait ends.
* *Page*: a transaction or listing is signed by the account it was prepared for,
  nothing private of one wallet is on the page of another, and a proof attempt
  can be left at any await but an unanswered signature prompt.
* *Storage and local programs*: a document is paid for and stored once, its
  reference is not lost and not given to another session; quotas and locks hold
  under parallel requests; a deployment happens once.

## 2. Modules

| component | specification | abstract | proofs | instance |
| --- | --- | --- | --- | --- |
| Escrow | `QualificationEscrow` | `EscrowPromise` | `QualificationEscrowProofs` | `MCQualificationEscrow` |
| Hosted issuer | `CredentialAllocation` | `CredentialPromise` | `IssuersProofs` | `MCIssuers` |
| Issuer registry | `IssuerRegistry` | | `IssuersProofs` | `MCIssuers` |
| Enrollment: browser, API and inbox composed | `Enrollment` | | `EnrollmentProofs` | `MCEnrollment` |
| Listing board | `ListingBoard` | | `ListingBoardProofs` | `MCListingBoard` |
| Keys and delivery: stores, tabs, directory and escrow's `submitDocument` composed | `ReportDelivery` | | `ReportDeliveryProofs` | `MCReportDelivery` |
| Settlement wait, over `FinalChain` | `Settlement` | `SettlementPromise` | `FinalityProofs` | `MCFinality` |
| Public read API, over `FinalChain` | `PublicRead` | | `FinalityProofs` | `MCFinality` |
| The wait and a request over one chain | `Finality` | `Settlement` and `PublicRead`, each alone | `FinalityProofs` | `MCFinality` |
| Page controller, wallet networks, publication of a listing | `PageJourney` | | `PageJourneyProofs` | `MCPageJourney` |
| Gateway storage client | `GatewayStorage` | | `ProgramsProofs` | `MCPrograms` |
| Swarm storage client and the snapshot page that uses it | `SwarmStorage` | | `ProgramsProofs` | `MCPrograms` |
| Local storage server | `LocalServer` | | `ProgramsProofs` | `MCPrograms` |
| Workbench | `Workbench` | | `ProgramsProofs` | `MCPrograms` |
| Deployment and snapshot command | `Deployment` | | `ProgramsProofs` | `MCPrograms` |
| Operator enrollment | `OperatorApproval` | `CredentialPromise` | `ProgramsProofs` | `MCPrograms` |

A definition `MutX` beside a definition `X` is a plausible mistake in the code `X`
stands for. No specification uses one: substituting `MutX` for `X` must make the
property violated that `PROJECT.json` pairs it with, so that each property is
known to depend on the code.

An MC module whose instances share no behaviour chooses one at the start
(`instance`, `allocator` or `program`, a variable that never changes) instead of
checking each in a run of its own: `MCQualificationEscrow` ("one" job in detail or
"two" over one pool), `MCListingBoard` ("sessions" or "watch"), `MCIssuers` ("hosted" or
"registry"), `MCPrograms` (six programs). `Finality` composes: its two
components read one chain, and `MCFinality` adds only the constraint `InTurn`.

### `QualificationEscrow`

One action per external function: `CreateJob` and `CreateJobWithDocument` (both
through `FundJob`, as both call `_createJob`), `Accept`, `Submit` and
`SubmitDocument` (through `Deliver`), `ApproveAndPay`, `ClaimAfterReview`,
`Dispute`, `ResolveDispute`, `Refund`, `SetRoot`. A call that reverts changes nothing and is
no action. `Tick` is time, `Donate` a plain transfer to the contract. The token is an
integer balance per account and may keep a fee (`Deposit`), which the contract
must notice. A root is the set of indexes it revokes. A proof is a statement of
public inputs; `Proofs` are those for which some credential satisfies the
circuit's relation (`Provable`, from `prover/circuit.go`), which is what soundness
of the proof system means here. Anybody may relay any of them at any time, for any
job. `EscrowPromise` is one vault per job that is funded, released once and in
full; `KeepsPromise` is the refinement.

### `CredentialAllocation`

Every request is a call with a ticket and an application digest, anywhere
between function instances. `Read` gets the ledger and its etag, prepares and
sends the conditional put (the signature, which takes seconds, happens between
the read and the put, and the put is applied by `Apply` only later); `Committed`,
`Conflict` and `Throw` are its outcomes. After `Throw` a put that was sent may
still be applied; `Resend` is the store client's own retry of a put that was
already applied. `CredentialPromise` is a ledger that gives each ticket one index.

### `IssuerRegistry`

A command runs through the steps of `registryInit`, `registryIssue` or
`registryRevoke` with the lock held, the snapshot written as the last step of the first and
the last; `Stop` kills it at any step and releases the lock, as the kernel does. The disk is what an `open` finds
(`visible`) and what survives a power loss (`durable`): a file's bytes are synced
before the rename, the rename only by the directory sync, so `PowerLoss` may undo
the renames not yet synced. The next command may therefore read a registry state
that a killed one renamed but did not sync, and build on it; that nothing
released or reported ever rests on such a state is what `SignedIsRecorded`,
`NoIndexSignedTwice` and `RevocationSticks` say. A published snapshot may be ahead of a revocation that was never
synced; running the revocation again heals it, and only completed revocations
are claimed.

### `Enrollment`

A tab's setup goes through `Load` (vault and decision), `Drop` (a stale application), `Stage`
(new holder and sealed application, one save), `Sign`, `Mark` (the request's
answer, then the save of the entry *as loaded*), `Missing`, `TimedOut`, `Approved`
and `Collect`. Requests are handled by the instances in `Admit` (query, quota) and
`Create` (row), with everything in between; `Refuse` is an error. `Create` may also
give up on a transaction it sent: the request is answered with an error, the queue lets
the next one in, and the row appears later (`Mine`) or never. `Interrupt` is a
closed page or failed request whose request goes on; `Backup` and `Restore` are the
exported file. A credential is granted by the issuer (the `granted` set stands for
the ledger above). Assumed: a row whose creation was confirmed is in the next query.

### `ListingBoard`

The chain creates, extends and deletes listings, or lets them expire at a block;
`wire` holds the events on their way, in no order. `Start`, `Stop`, `UserRefresh` are the
user's. A refresh of generation `g` is `Read` (the query is answered at some block)
and `Complete` or `Fail` (after the verification of each listing, with the finally block); a
hydration is `GetReads`, `GetAnswers` or `GetFails`. `OnEntity`, `OnHead`, `LogsAcknowledged`,
`Disconnect` and `Reconnect` are the subscription's callbacks. Answers of earlier
generations arrive like any others and the generation is compared where the code
compares it. Assumed: an HTTP read is at least as new as a notification already
delivered; `verify` gives a constant answer or throws; the end of a flight and
the clearing of its handle are one step; a filter is a minimum reward.

### `ReportDelivery`

A tab runs one operation at a time (the busy flag of `run`); an operation's steps
end at its awaits, with the checks the code makes when it resumes. `Connect`,
`LoadKey`, `CreateKey`, `Connected` are `connect` with `loadOrCreateDeviceKey` (a read
transaction, key generation, a write transaction that looks again); `Rotate`,
`StoreRotated`, `Rotated` the rotation, which then goes on to register;
`Register`, `SendKey`, `Revoke`, `Ensure`, `Ensured` the registrations; `Deliver`, `Encrypt`,
`Checked`, `Uploaded`, `SendReport` the submit action with both calls of
`ensureBindings`. `WalletEvent` may happen under every await, `Fail` ends any
operation. `Include` executes signed calls, in nonce order per account and
arbitrarily late. Assumed: the reads of one `Promise.all` are one step; the
connection that enrollment makes outside `run` does not overlap an operation. What
was in force when the upload ended is recorded as history in the document
(`since`), and the code never reads it.

### `FinalChain`, `Settlement`, `PublicRead`

The blocks of `FinalChain` are external: they are mined, settled in order (`Finalise`) or,
until then, replaced (`Reorganise`); what the calls in them do is the escrow's. A block is its height and fork, as its hash would be.
One nonce belongs to the call the page sent, to the same call repriced and to
another that replaces it; the remaining calls deliver the job's report and move the
issuer's root. `Settlement` is `waitForSettlementEvidence`, one action per awaited read:
`CheckNetwork`, `FindReceipt` (with replacements that keep the intent, `SameIntent`, or do
not), `PollFinalized`, `CheckCanonical`, `Reread`, `CheckNetworkAgain`; `GiveUp` is the
deadline or the abort, at any of them. `SettlementPromise` knows only the fate of the
nonce and what was told. `PublicRead` is one request of three routes: `Pin` takes the
finalized block, the escrow is read at it in two independent reads, `Download` may
return any bytes and is compared with the commitment, `Recheck` compares the block
again, `Close` is the timer. The snapshot route reads the root once, before its
download.

### `PageJourney`

A thread is what may await at once: the operation under `run()` and a connection the
enrollment panel starts beside it. A task records its owner, whether the session
it began in is still the page's (`same`), and its step; steps end at awaits. The
wallet's account and network change by `SwitchWallet` under every await and the page
hears of it in a later `WalletEvent`, so `account` may be an account the wallet no longer
shows. `Prompt` and `Confirm` are `tx`: the transaction is sent by the account as read *then*.
An operation that gives up leaves its transaction in `late`, where it may still
execute. A decision is offered to the `Arbitrator`, one of the wallets, who may be
neither party: it divides the reward of a disputed task, which is closed to both
parties already and stays so.
An arbitrator on another page is part of `Elsewhere`. `pay` looks at the opened
report before it reads the digest, and not again. What `ReportDelivery`, `Enrollment`, `SwarmStorage` and `Settlement` model in detail
is here one await that answers or fails.

### `GatewayStorage`, `SwarmStorage`

The first counts disconnections in a revision, posts once and then only reads, up
to its retries. The second learns of account and postage changes from callbacks of
the vendored client and compares a revision after each await. The client is there
before it has loaded, so callbacks and uploads may come while it loads; a load that fails
drops it, which counts as a switch. Its second part is the publication page, whose
`Keep` holds the receipt before anything that may fail; the other upload there, the test
note of `pilot/web/boot.ts`, is `StartNote`.

### `LocalServer`, `Workbench`

`LocalServer`: between two awaits the server is one thread, so `ReceiveTerms` or
`ReceiveReport` (with its refusals) is one step up to the storage call, `Stored` and `NotStored`
the others; `Restart` empties every map. `Workbench`: `Arrive` reads the body, `Take` sets the busy
flag after looking at it again, and each action goes through its awaited calls, any
of which may fail (`Fail`) and leave what the earlier ones did.

### `Deployment`, `OperatorApproval`

Processes over files, as in `IssuerRegistry` but without power loss (these programs do
not sync and do not claim to survive it). `Kill` and `Break` end the node process at any
step; a lock stays unless the exit handler ran, and an operator who sees that its
process is gone removes it (`ClearLock`, `RemoveLock`). A run goes on with what it read
before. The number of starts, setups, snapshots and breakdowns is bounded by `MaxStarts`,
`MaxSetups`, `MaxSnapshots`, `MaxBreaks`.

A killed run leaves what it had started. In `Deployment` the prover or `forge` goes on as
an orphan (`OrphanWrites`, `OrphanEnds`) and writes its files over whatever is there by
then; in `OperatorApproval` an issue command that was left behind may still reserve an
index and write the credential (`AbandonedReserves`, `AbandonedWrites`, `AbandonedEnds`).
A JSON file that is created or rewritten is first truncated and then filled, and a kill in
between leaves it `Torn`: `prepared.json` and, for a deployment as for a
snapshot command, `deployment.json`, which then stays unreadable.

`ProverWaitedFor` is an assumption about the operator: no lock is removed while the prover
of the killed run is at work. Nothing in the code enforces it. Without it an orphan
may overwrite the setup, or the verifier source, that another run has checked
and is deploying, and TLC finds `ManifestIsDeployed` violated, in a behaviour of 30 states.
`DeployedOnce` and `ReferenceIsFinal` do not need it.

## 3. Runs

| run | instance | shows |
| --- | --- | --- |
| `escrow` | one job, three accounts, three windows (one out of order), fees, gifts, three roots, time 0..5; or two jobs over one pool, two holders, two roots | `Solvency`; `DeliveredIsNeverRefunded`; `OfferedExactlyWhenAllowed`: the page offers a step exactly when the contract accepts it, and no instant lets two parties race; `QualifiedAdmission`: only a current credential; `KeepsPromise` (`EscrowPromise`); `EventuallySettled` under fairness |
| `issuers` | hosted: four calls for three tickets, one ticket with two applications, two free indexes, two attempts; registry: two inits, two issues, two revocations, kills and power loss anywhere | `IndexesPartitioned`, `BusyMeansServed`, `KeepsPromise` (`CredentialPromise`); `NoIndexSignedTwice`, `RevocationSticks` |
| `enroll_tabs` | two tabs, three tickets, two requests, three days, a fault, a restore | `HolderKept`: the secret behind a ticket stays, and the credential beside it is one granted for it; `SubmittedIsQueued`: "submitted" means that there is a row |
| `enroll_renewal` | one tab, one instance, four days, five tickets, two faults, fairness | `ConfirmedOnce`: a ticket has one confirmed row, a second takes a creation that was given up; `CredentialKept`; `SetupCompletes`: asking again ends in a credential, while the wallet's rows are below their limit |
| `board` | two rival announcements, two filters, two sessions; or one listing over three blocks with lost events, a lost connection and a failed read, fairness | `OnlyThisFilter`, `NothingMissed`, `DeletionIsNotExpiry`, `Converges` |
| `report_delivery` | one profile, two tabs, both wallets, three key pairs, two calls per wallet, registrations that expire | `RegisteredIsKept`, `DeliveredIsReadable`, `RecipientsAreCurrent` |
| `finality` | two blocks, one reorganisation, a wait in either mode and a request of any route | `SettlementKeepsPromise`, `WaitEnds`; `ServedIsSettled`; `SettledIsReadable`: after the wait said "settled", the API does not answer that there is no such job |
| `page` | two wallets, one task, one switch, one unheard event, one late transaction | `SentForSender`, `ViewsAreOwn`, `ListedByClient`, `TakeEnds` |
| `programs` | see below | `ReferenceIsKept`, `NoResultAcrossAccounts`, `PaidOnce`, `QuotasHold`, `LockedWhileUploading`, `AnswersAreOwn`, `DeployedOnce`, `ManifestIsDeployed`, `IndexesSpent` |

Three runs end in a violation, each of a sentence found in the code or its docs:

* `enroll_overwrite` — "Concurrent tabs cannot silently overwrite a different
  holder or credential" (`pilot/credential-vault.ts:170`): the answer to one tab's
  request arrives after another tab has collected, and the entry loaded before is
  saved with `replace: true`. The credential is fetched again by the next setup;
  the *holder* is never lost (`HolderKept`).
* `enroll_two_instances` — "Cross-instance retries are deduplicated by ticket"
  (`pilot/hosting/enrollment-api.ts:17`): query and create are separate, so two
  instances may both create the row. The issuer still gives that ticket one
  credential (`issuers`), but the row counts twice against the quota. (A creation
  that was given up and mined later has the same effect with a single
  instance; `ConfirmedOnce` is what remains true.)
* `board_deletion_missed` — "Event during initial snapshot sets dirty
  reconciliation" (`src/docs/review-pass/arkiv/implementation.md:63`): a deletion
  heard while the snapshot that contains the listing is being verified marks
  nothing, and the deleted listing is shown until its lease ends. That step
  (`Overtaken`) is the only cause: `DeletionsAreShown`, below.

### Bounds, and why they are enough

Two actors are what every race here needs: two tabs, two instances, two rival
announcements, two jobs on one pool, two uploads, two operators; a third ticket and
a third call make the allocation conflict and find the range exhausted, and a third
request makes the server's quota bite while two are under way. Times are few but
every comparison has an instant before, at and after its boundary, and windows
differ. Each fault budget (`MaxFaults`, `MaxForks`, `MaxRestarts`, `MaxBreaks`) allows the fault and
a second one during its recovery where the state space permits it. Limits of the
code (attempts, backlog, rounds, retries, history, capacity, quotas) are constants
set to one or two, so that they are reached. Deadlock checking is off where a run
stops at its bounds.

* `finality`: two blocks give a receipt a block that is replaced, one that settles and
  one after it. `InTurn` keeps the request from interleaving with the reads of the wait,
  with which it shares nothing but the chain; it runs before them or after them.
* `page`: one switch at any await is what every check of a session is about; more
  events under way (`MaxUnheard`) or abandoned transactions (`MaxLate`) than one add no
  step that one does not take.
* `programs`: six starts of deployment commands over two runs at a time; two setups
  and two snapshots; two operators and three breakdowns; two uploads with two pauses
  and two disconnections; two identities with three switches; three requests for three
  documents under quotas of two; two jobs and six actions of the workbench.
  `StillOpen` drops states of a closed page in which nothing is under way, and
  `ProverWaitedFor` is the assumption about the operator explained above. A failed load of
  the client is one of the three switches.

Some clauses are out of the instances' reach and hold by proof only: in
`report_delivery` there is one profile, so keys held in another profile occur only
in the theorems. Its two constraints drop operations that can do nothing but
fail, and let time pass only once both parties have used the directory and nobody
is connecting.

### Fairness

* Escrow (`Exits`): time passes, and refund, claim and resolve are eventually called
  while they stay possible. Nobody is assumed to relay a proof, deliver, approve or
  dispute. The arbitrator's fairness is the contract's own assumption.
* Enrollment: a setup on the page goes on (its next step stays enabled until
  taken), the handler of a request that arrived answers, and the user who has no
  credential asks again (strong fairness, since other steps disable `Load` in
  between). Faults are budgeted, so eventually they stop; the clock is not forced, and
  a transaction that was given up need not be mined. `SetupCompletes` is conditional on
  `QuotaLeft`: renewals and rows mined late can fill the wallet's three places,
  and the API then refuses until one expires.
* Board (`Deliveries`): queries, hydrations and subscriptions are answered, events
  arrive, and the newest head is delivered. Start, stop, owners and faults are not
  obliged.
* Settlement: only the deadline is fair (`GiveUp`): each await is raced against the
  time that remains, by a timer of the process itself. Nothing obliges the chain or
  its endpoint.
* Page: the five-minute timer of a proof attempt fires (`Timeout`), a step under an
  aborted signal ends (`Stop`), and the wallet's user answers the one prompt that cannot
  be withdrawn (`PassReady`): while that prompt is unanswered the attempt holds the page
  past its five minutes. Nothing makes the prover or the network answer. `TakeEnds`
  is about the attempt itself; the refresh after a success, which still runs under
  `run()`, is not part of it.

## 4. What is proved

All theorems assume the named `ASSUME` of the module: finite or natural
bounds, distinct parties, and the shape of constant functions. TLC evaluates
each on its instances. The few with a hypothesis of their own are named below with it. Each module of proofs has one inductive invariant, one lemma per
action and lemmas for what the other actors leave alone.

* `QualificationEscrowProofs`: `TypeCorrect`, `OneAdmission`, `DeliveredSafe`,
  `AdmissionIsQualified`, `AgreementHolds`, `Solvent`, `ImplementsPromise`. Solvency is
  not inductive by itself: the sum over jobs is expressed as the cardinality of a
  set of units, and each release removes exactly the units of its job; the
  admission theorems need that a consumed nullifier belongs to a job that left
  `Open`. `OffersAreExact` proves the two halves of `OfferedExactlyWhenAllowed` that
  can be said without `ENABLED`: `OffersStand`, that a refund, submission, dispute
  or claim the page offers meets the contract's requirements and can be paid, and that
  rival parties are never offered theirs at the same instant; `OfferedStep`, that
  a job moves only by a step that is offered. (An acceptance needs a proof as well,
  which is `AdmissionIsQualified`.)
* `IssuersProofs`, of the hosted issuer: `AllocationTyped`, `Durable`, `OneIndexPerTicket`,
  `BusyServesOthers`, `ImplementsPromise`. The strengthening: what a call saw is a past
  ledger with a smaller etag, or the present one, and a write sent is based on it.
  Of the registry: `RegistryTyped`, `SignedOnce`, `Recorded`, `RevocationHolds`. The
  strengthening relates disk, durable disk and lock holder: whatever is signed or
  released is covered by a state that a power loss cannot undo.
* `EnrollmentProofs`: `TypeCorrect`, `HolderIsKept`, `SubmittedHasRow`. Every copy of an
  entry that a tab or a backup may write back has the vault's holder, and no credential
  but a granted one (`CopiesGranted`); a row lives
  at least as long as an application stays fresh. Two results say exactly how far
  the sentences go that the runs refute in general. `InstanceMakesOneRow`: for any
  number of instances, each has at most one live row per ticket confirmed, because at
  most one request is past the look-up in each, and that one found no confirmed row of
  its own instance; hence `TicketHasOneRow` (`ConfirmedOnce`) under the hypothesis that
  there is one instance, the hypothesis `enroll_two_instances` lacks. Rows of creations that
  were given up may come beside it. `CredentialStays`: for any
  number of tabs, `CredentialKept` follows if at most one setup runs at a time and no
  backup is restored during one, because a setup never holds an entry with a valid
  credential and the vault has none while it runs; with one tab both hypotheses hold
  (`OneTabKeepsCredential`). `enroll_overwrite` is what happens when setups overlap.
* `ListingBoardProofs`: `TypeCorrect`, `HydrationIsBounded`, `FilterIsRespected`,
  `LiveMeansConnected`, `DeletionIsReported`, `NothingIsMissed`, `DeletionsAreShown`. The hydration counter equals the reads of
  the current generation; no answer belongs to a later generation than the
  present; a task's filter is its generation's. The proof shows that the filter
  test in `refresh` can never fire beside the generation test. `NothingIsMissed` (for any
  number of listings, owners, sessions and blocks) needs `Remembered`: as long
  as the snapshot shown, or read and about to be shown, lacks a listing of the filter
  or has it with another expiry, either a query is due (one of the code's marks, a lost
  connection, or a query not yet answered) or word of that listing is on its way as an
  event, a queued key or a read. With it go that such word is of listings that exist,
  that a snapshot is never ahead of the chain, that no mark is dropped at the end of a
  flight, and that no head seen has reached the first expiry shown. At rest no word is
  on its way and no query due, so the picture is the chain's.
  `DeletionsAreShown` draws the line of what `board_deletion_missed` refutes: if no step is
  `Overtaken`, that is, no read finds an entity gone while a snapshot that contains it and
  is not shown yet is being verified with no mark to query again, then `DeletionsShown`
  holds. Its invariant is the counterpart of `Remembered` for entities that were
  deleted (`WithdrawnKnown`): while one is in the snapshot shown or about to be, a query is due
  or word of it is on its way.
* `ReportDeliveryProofs`: `TypeCorrect`, `DeviceKept`, `RegisteredKept`,
  `DeliveredReadable`, `RecipientsCurrent`, for any number of wallets, profiles, tabs
  and pending calls. Histories only grow and hold their current key; every key a
  tab is about to use or a pending call names is in a history; a report waiting
  for its transaction saw no binding older than those in force when its upload
  ended.
* `FinalityProofs`: `SettlementTyped`, `WaitKeepsPromise`, `RequestTyped`, `ServedSettled`,
  `EachAsAlone`, `SettledJobIsFound`, for
  any number of blocks and reorganisations. For the refinement: settled blocks are
  never replaced, hence the fate of the nonce, once settled, stays; and a receipt
  that is compared with the canonical block at or below the finalized height is a
  block of the settled chain. For the request: the pinned block lies in the settled
  chain, so each of the two reads, though made at different times, is of one state;
  a delivery is executed once, so what is committed there stays committed. Of the
  composition: every behaviour is one of each component alone (a step of one is, for
  the other, a step of the chain or a stutter), so the four theorems hold of it; and
  `SettledIsReadable`, since the settled prefix the wait relied on is a prefix of the
  one a later request pins, in any interleaving, not only `InTurn`'s.
* `ProgramsProofs`, one invariant per module: `DeploymentIsTyped`, `ContractsDeployedOnce`,
  `ManifestStandsForContracts`, `ReferenceStays`; `IndexesAreSpentOnce`, `ApprovalImplementsPromise`;
  `ServerIsTyped`, `LocksFollowUploads`, `DocumentStoredOnce`, `QuotasAreKept`; `WorkbenchIsTyped`,
  `AnswersAreAboutTheirJob`; `ReferenceStaysKnown`; `NoResultOfAnotherSession`,
  `SnapshotPaidOnce`. The deployment's invariant says what a run at each stage knows of the
  files while it holds the lock, and that whoever is past the journal is alone;
  `ManifestStandsForContracts` is proved under the hypothesis that `ProverWaitedFor` always
  holds, with a second invariant that adds what a prover at work may still write; and
  `ReferenceStays` says that a reference once in the manifest is never replaced by another and
  the file never gone, though a rewrite cut short may leave it unreadable. The
  approval's, that every index spent is the ticket's credential, held by the run inside
  the lock, or accounted to a breakdown, whose command may spend it later (and as the credential file is written once and
  the inbox record only ever holds what that file says, approval by hand implements the
  same `CredentialPromise` as the hosted issuer, the issuer `Enrollment` assumes); the
  server's, that a lock, a pending upload and the absence of a cache entry go together,
  and that each counter equals the uploads it counts (the
  cardinality of a set of numbered uploads, which a proof can follow upload by upload
  where a sum over documents would need induction); the workbench's, that at most one request is past the
  busy flag and what it has established of the escrow cannot be undone by another.
* `PageJourneyProofs`: `PageTyped`, `PromptsAreForSender`, `ViewsStayOwn`, `ListingsAreClients`,
  for any number of wallets, tasks, wallet changes and unheard events. None of the three
  properties is inductive by itself. The invariant adds three ideas: an operation still in
  its session was begun by the account the page shows; that account is the wallet's
  unless an event is on its way; and a task, once funded, keeps its client and terms, so
  what a publication verified before it left its session still holds when it signs.

Every property of a passing run that is not listed next is both checked and proved,
`ConfirmedOnce`, `CredentialKept` and `ManifestIsDeployed` under the hypotheses given;
`DeletionsShown`, which a run refutes, is proved under its hypothesis as well.
Some theorems state what no run checks, since it would repeat another property on
the instances: `OneAdmissionPerJob`, `AgreementIsFinal`, `ReleasedIsRecorded`,
`SignedIsRecorded`, `HydrationBounded`, `LiveIsConnected`, `DeviceIsKept`, `ReferenceIsFinal`,
`ApprovalKeepsPromise`, and the type invariants.

Only model-checked:

* liveness (`EventuallySettled`, `SetupCompletes`, `Converges`, `WaitEnds`, `TakeEnds`), which
  rests on fairness and therefore on `ENABLED`: out of the prover's reach;
* `OfferedExactlyWhenAllowed` as the run states it, with `ENABLED` of the contract's actions;
  `OffersAreExact` proves its content in terms of their guards and steps;
* what the three violations refute, beyond the hypotheses named above.

## 5. Open ends

* `Enrollment` with `CredentialAllocation` in place of the `granted` set, and the operator's
  path composed with the hosted issuer over the migration marker
  (`pilot/issue-enrollment.mjs:58`), the two hazards of which only one half is covered.
* The page after a funding that was given up (`pilot/web/main.ts:1724`): the code keeps no
  record of it, so there is nothing to check it against.

## 6. Not modelled

* Cryptography: hashes, Merkle paths, signatures, the Groth16 argument and
  envelope encryption are replaced by what they promise. The circuit's relation is
  `Provable` in `QualificationEscrow`.
* Validation of formats and sizes (`pilot/terms.ts`, `pilot/proof-files.ts`, `transport/bytes.ts`,
  parts of `pilot/listings.ts`), wording and rendering (`pilot/web/shell.ts`, `demo.ts`,
  `thermal.ts`, `pilot/board-presentation.ts`, the greater part of `render` in
  `pilot/web/main.ts`): pure functions and layout, with no state that a property could
  tell apart.
* `pilot/hosting/build.mjs`, `pilot/deploy-local.mjs`, `pilot/preflight.mjs`, `pilot/seed-local-task.mjs`, the
  probes and `transport/` experiments: they run once, in order, and keep nothing a second
  run reads.
* The patch that copies an approval into an inbox row: the issuer answers the same again.
* Tests (`pilot/browser-test.mjs` and the `*.test.*` files) and vendored code.

## 7. Running

`tlc -workers 2 -config MCIssuers.cfg MCIssuers.tla` checks one run (the
`PROJECT.json` entry names module and configuration); `tlapm IssuersProofs.tla`
checks the proofs of a module. The longest run takes a few minutes on two cores.
