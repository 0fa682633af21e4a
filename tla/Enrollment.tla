----------------------------- MODULE Enrollment -----------------------------
(***************************************************************************)
(* How a reviewer's browser obtains a credential: the setup operation of   *)
(* pilot/web/enrollment.ts over the IndexedDB vault of                     *)
(* pilot/credential-vault.ts, and the admission handler of                 *)
(* pilot/hosting/enrollment-api.ts over the inbox it shares with the       *)
(* issuer.                                                                 *)
(*                                                                         *)
(* One wallet, several tabs of one origin.  The tabs share only the vault, *)
(* whose transactions are atomic; everything else a setup knows it read    *)
(* before an await.  A setup that clear() abandoned while its save was on  *)
(* the way is another tab of the model.  Requests outlive the tab that     *)
(* sent them, and a row's transaction the call that sent it: a creation    *)
(* that was not confirmed may still be mined, on any later day.  A         *)
(* confirmed row is there for the next query.  The issuer behind the       *)
(* handler is an atomic grant, what CredentialPromise states of it.        *)
(*                                                                         *)
(* The clock counts days: a credential lives one, a pending application    *)
(* and an inbox row two.                                                   *)
(***************************************************************************)
EXTENDS Integers, Sequences, FiniteSets

CONSTANTS
    Tabs,           \* setups that may run at once
    Instances,      \* function instances of the enrollment API
    PassLife,       \* 86400 s
    PendingLife,    \* 172800 s
    RowLife,        \* 172800 s
    RowsPerWallet,  \* three in the code
    MaxDay, MaxTickets, MaxPosts, MaxFaults, MaxRestores     \* bounds

ASSUME EnrollmentAssumptions ==
    /\ PassLife \in Nat /\ RowsPerWallet \in Nat
    /\ PendingLife \in Nat /\ RowLife \in Nat /\ PendingLife <= RowLife
    /\ MaxDay \in Nat /\ MaxTickets \in Nat /\ MaxPosts \in Nat
    /\ MaxFaults \in Nat /\ MaxRestores \in Nat

\* Tickets, holders and requests are numbered from 1 in the order they are
\* made; 0 is none.
Credential == [ticket : Nat, expiry : Nat]
NoCredential == [ticket |-> 0, expiry |-> 0]

\* A vault entry; holder 0 is an empty vault.
Entry == [holder : Nat, credential : Credential, pending : Nat,
          submitted : {"yes", "no"}]
Empty == [holder |-> 0, credential |-> NoCredential, pending |-> 0, submitted |-> "no"]
Bare(h) == [Empty EXCEPT !.holder = h]

Steps == {"idle", "drop", "stage", "sign", "post", "poll", "collect"}

VARIABLES
    now,        \* the day
    sealed,     \* by ticket: the holder and the day inside its envelope
    vault,      \* the vault entry of this wallet and deployment
    file,       \* the private backup the user saved
    tab,        \* each tab's setup
    posts,      \* requests to enroll, in the order they were sent
    rows,       \* inbox entities: ticket, day and the request that made them
    granted,    \* credentials the issuer's ledger holds
    faults, restores

vars == <<now, sealed, vault, file, tab, posts, rows, granted, faults, restores>>

Idle == [step |-> "idle", entry |-> Empty, ask |-> "no", resent |-> "no", post |-> 0]

Init ==
    /\ now = 0
    /\ sealed = << >>
    /\ vault = Empty
    /\ file = Empty
    /\ tab = [t \in Tabs |-> Idle]
    /\ posts = << >>
    /\ rows = {}
    /\ granted = {}
    /\ faults = 0
    /\ restores = 0

Valid(c) == c.expiry > now

\* A pending application is dropped when it is more than 48 hours old.
MutStale(k) == FALSE
Stale(k) == now - sealed[k].at > PendingLife

Live(r) == now <= r.at + RowLife
LiveRowsOf(k) == {r \in rows : r.ticket = k /\ Live(r)}
LiveRows == {r \in rows : Live(r)}

-----------------------------------------------------------------------------
(* The vault.                                                              *)

\* saveCredentialVault is one transaction.  Without replace it refuses
\* another holder, or another credential than one already there.
Accepts(e, replace) ==
    \/ vault.holder = 0
    \/ replace
    \/ /\ vault.holder = e.holder
       /\ vault.credential \in {NoCredential, e.credential}

-----------------------------------------------------------------------------
(* Setup, from its load of the vault.                                      *)

Become(t, s) == tab' = [tab EXCEPT ![t] = s]
Return(t) == Become(t, Idle)

MutNeedsPass == TRUE
NeedsPass == ~Valid(vault.credential)

\* A click asks for signatures; the resumption after a reload, of an entry
\* that has a pending ticket, does not.
Load(t, ask) ==
    /\ tab[t].step = "idle"
    /\ NeedsPass
    /\ ask = "yes" \/ vault.pending # 0
    /\ \E step \in {"stage", "drop", "poll"} :
         /\ CASE step = "stage" -> vault.pending = 0
              [] step = "drop" -> vault.pending # 0 /\ Stale(vault.pending)
              [] OTHER -> vault.pending # 0 /\ ~Stale(vault.pending)
         /\ Become(t, [Idle EXCEPT !.step = step, !.entry = vault, !.ask = ask])
    /\ UNCHANGED <<now, sealed, vault, file, posts, rows, granted, faults, restores>>

\* The stale application is dropped by an unconditional save of the holder
\* that was loaded with it.
Drop(t) ==
    /\ tab[t].step = "drop"
    /\ LET bare == Bare(tab[t].entry.holder) IN
         /\ vault' = bare
         /\ IF tab[t].ask = "yes"
            THEN Become(t, [tab[t] EXCEPT !.step = "stage", !.entry = bare])
            ELSE Return(t)
    /\ UNCHANGED <<now, sealed, file, posts, rows, granted, faults, restores>>

\* The holder is reused if the loaded entry has one.
HolderOf(e, k) == IF e.holder # 0 THEN e.holder ELSE k

\* A fresh ticket and its sealed application are saved before anything is
\* sent; the save replaces only if the load found an entry.
MutReplaces(e) == TRUE
Replaces(e) == e.holder # 0

Stage(t) ==
    /\ tab[t].step = "stage" /\ Len(sealed) < MaxTickets
    /\ LET k == Len(sealed) + 1
           h == HolderOf(tab[t].entry, k)
           e == [Bare(h) EXCEPT !.pending = k]
       IN /\ sealed' = Append(sealed, [holder |-> h, at |-> now])
          /\ IF Accepts(e, Replaces(tab[t].entry))
             THEN /\ vault' = e
                  /\ Become(t, [tab[t] EXCEPT !.step = "sign", !.entry = e])
             ELSE Return(t) /\ UNCHANGED vault
    /\ UNCHANGED <<now, file, posts, rows, granted, faults, restores>>

\* The user signs and the request leaves.
Sign(t) ==
    /\ tab[t].step = "sign" /\ Len(posts) < MaxPosts
    /\ \E i \in Instances :
         posts' = Append(posts, [ticket |-> tab[t].entry.pending, day |-> now,
                                 at |-> i, stage |-> "sent", answer |-> "none"])
    /\ Become(t, [tab[t] EXCEPT !.step = "post", !.post = Len(posts) + 1])
    /\ UNCHANGED <<now, sealed, vault, file, rows, granted, faults, restores>>

\* The request was confirmed: the entry this setup holds is saved over
\* whatever the vault holds, or the refusal ends the setup.
Submitted(e) == [e EXCEPT !.submitted = "yes"]
Mark(t) ==
    /\ tab[t].step = "post" /\ posts[tab[t].post].answer # "none"
    /\ IF posts[tab[t].post].answer = "ok"
       THEN LET e == Submitted(tab[t].entry) IN
              /\ vault' = e
              /\ Become(t, [tab[t] EXCEPT !.step = "poll", !.entry = e])
       ELSE Return(t) /\ UNCHANGED vault
    /\ UNCHANGED <<now, sealed, file, posts, rows, granted, faults, restores>>

\* Polling: the service has no row of the ticket.  An application not known
\* to be submitted is sent again once, if signatures may be asked for.
MutMissing(t) ==
    /\ tab[t].step = "poll"
    /\ LiveRowsOf(tab[t].entry.pending) = {}
    /\ tab[t].entry.submitted = "no" /\ tab[t].resent = "no"
    /\ Return(t)
    /\ UNCHANGED <<now, sealed, vault, file, posts, rows, granted, faults, restores>>
Missing(t) ==
    /\ tab[t].step = "poll"
    /\ LiveRowsOf(tab[t].entry.pending) = {}
    /\ tab[t].entry.submitted = "no" /\ tab[t].resent = "no"
    /\ IF tab[t].ask = "yes"
       THEN Become(t, [tab[t] EXCEPT !.step = "sign", !.resent = "yes"])
       ELSE Return(t)
    /\ UNCHANGED <<now, sealed, vault, file, posts, rows, granted, faults, restores>>

\* Nothing came of 110 seconds of polling.
TimedOut(t) ==
    /\ tab[t].step = "poll"
    /\ LiveRowsOf(tab[t].entry.pending) = {}
    /\ tab[t].entry.submitted = "yes" \/ tab[t].resent = "yes"
    /\ Return(t)
    /\ UNCHANGED <<now, sealed, vault, file, posts, rows, granted, faults, restores>>

\* Polling: the service has a row and the issuer grants its ticket, once.
Grant(k) ==
    granted' = IF \E c \in granted : c.ticket = k THEN granted
               ELSE granted \cup {[ticket |-> k, expiry |-> now + PassLife]}

Approved(t) ==
    /\ tab[t].step = "poll"
    /\ LiveRowsOf(tab[t].entry.pending) # {}
    /\ Grant(tab[t].entry.pending)
    /\ \/ Become(t, [tab[t] EXCEPT !.step = "collect"]) /\ UNCHANGED faults
       \/ faults < MaxFaults /\ faults' = faults + 1 /\ UNCHANGED tab
    /\ UNCHANGED <<now, sealed, vault, file, posts, rows, restores>>

\* The approval of this setup's ticket is opened, checked and saved.  An
\* expired one leaves the holder alone.
Collect(t) ==
    /\ tab[t].step = "collect"
    /\ \E c \in granted :
         /\ c.ticket = tab[t].entry.pending
         /\ IF ~Valid(c)
            THEN vault' = Bare(tab[t].entry.holder)
            ELSE LET e == [Bare(tab[t].entry.holder) EXCEPT !.credential = c]
                 IN IF Accepts(e, tab[t].entry.credential # NoCredential)
                    THEN vault' = e
                    ELSE UNCHANGED vault
    /\ Return(t)
    /\ UNCHANGED <<now, sealed, file, posts, rows, granted, faults, restores>>

\* The signature is declined, an answer is lost, a call times out, the
\* wallet session changes or the page is closed.
Interrupt(t) ==
    /\ tab[t].step # "idle" /\ faults < MaxFaults
    /\ faults' = faults + 1
    /\ Return(t)
    /\ UNCHANGED <<now, sealed, vault, file, posts, rows, granted, restores>>

\* The user saves a backup, and later restores it.
Backup ==
    /\ \E t \in Tabs : tab[t].step = "idle"
    /\ vault # Empty /\ restores < MaxRestores
    /\ file' = vault
    /\ UNCHANGED <<now, sealed, vault, tab, posts, rows, granted, faults, restores>>

Restore ==
    /\ \E t \in Tabs : tab[t].step = "idle"
    /\ file # Empty /\ restores < MaxRestores
    /\ Accepts(file, FALSE)
    /\ vault' = file
    /\ restores' = restores + 1
    /\ UNCHANGED <<now, sealed, file, tab, posts, rows, granted, faults>>

-----------------------------------------------------------------------------
(* The API.                                                                *)

Answer(p, stage, a) == posts' = [posts EXCEPT ![p] = [@ EXCEPT !.stage = stage, !.answer = a]]

\* The calls of one instance run one at a time.
MutMyTurn(p) == TRUE
MyTurn(p) == \A q \in 1..Len(posts) : posts[q].at = posts[p].at => posts[q].stage # "admitted"

\* The queries that precede the creation of a row: the ticket's own rows,
\* then the rows of the wallet.  A late request carries an expired signature.
QuotaLeft == Cardinality(LiveRows) < RowsPerWallet

Admit(p) ==
    /\ posts[p].stage = "sent" /\ MyTurn(p)
    /\ \/ posts[p].day # now /\ Answer(p, "done", "refused")
       \/ /\ posts[p].day = now /\ LiveRowsOf(posts[p].ticket) # {}
          /\ Answer(p, "done", "ok")
       \/ /\ posts[p].day = now /\ LiveRowsOf(posts[p].ticket) = {}
          /\ QuotaLeft
          /\ Answer(p, "admitted", "none")
       \/ /\ posts[p].day = now /\ LiveRowsOf(posts[p].ticket) = {}
          /\ ~QuotaLeft
          /\ Answer(p, "done", "refused")
    /\ UNCHANGED <<now, sealed, vault, file, tab, rows, granted, faults, restores>>

\* The row is created and confirmed; or its transaction was sent and nothing
\* is known of it when the call fails, which answers the request and lets
\* the next one in.
Store(p) == rows' = rows \cup {[ticket |-> posts[p].ticket, at |-> now, post |-> p]}

Create(p) ==
    /\ posts[p].stage = "admitted"
    /\ \/ Store(p) /\ Answer(p, "done", "ok") /\ UNCHANGED faults
       \/ /\ faults < MaxFaults /\ faults' = faults + 1
          /\ Answer(p, "lost", "refused") /\ UNCHANGED rows
    /\ UNCHANGED <<now, sealed, vault, file, tab, granted, restores>>

\* The transaction nobody waits for any more is mined after all.
Mine(p) ==
    /\ posts[p].stage = "lost"
    /\ Store(p) /\ Answer(p, "done", "refused")
    /\ UNCHANGED <<now, sealed, vault, file, tab, granted, faults, restores>>

\* The inbox is full, the wallet unfunded, the signer or the chain failed,
\* or the request never arrived.
Refuse(p) ==
    /\ posts[p].stage \in {"sent", "admitted"} /\ faults < MaxFaults
    /\ faults' = faults + 1
    /\ Answer(p, "done", "refused")
    /\ UNCHANGED <<now, sealed, vault, file, tab, rows, granted, restores>>

\* A call of a function lives minutes, not days.
Tick ==
    /\ now < MaxDay
    /\ \A p \in 1..Len(posts) : posts[p].stage # "admitted"
    /\ now' = now + 1
    /\ UNCHANGED <<sealed, vault, file, tab, posts, rows, granted, faults, restores>>

Next ==
    \/ \E t \in Tabs :
         \/ \E ask \in {"yes", "no"} : Load(t, ask)
         \/ Drop(t) \/ Stage(t) \/ Sign(t) \/ Mark(t)
         \/ Missing(t) \/ TimedOut(t) \/ Approved(t) \/ Collect(t)
         \/ Interrupt(t)
    \/ \E p \in 1..Len(posts) : Admit(p) \/ Create(p) \/ Mine(p) \/ Refuse(p)
    \/ Backup \/ Restore \/ Tick

\* A started setup goes on, the handler answers, and the user who has no
\* credential asks again.  Nothing forces the clock.
Fairness ==
    /\ \A t \in Tabs :
         /\ WF_vars(Drop(t) \/ Stage(t) \/ Sign(t) \/ Mark(t) \/ Missing(t)
                     \/ TimedOut(t) \/ Approved(t) \/ Collect(t))
         /\ SF_vars(Load(t, "yes"))
    /\ \A p \in 1..MaxPosts : WF_vars(p <= Len(posts) /\ (Admit(p) \/ Create(p)))

Spec == Init /\ [][Next]_vars
FairSpec == Spec /\ Fairness

-----------------------------------------------------------------------------
(* Properties.                                                             *)

Tickets == 1..Len(sealed)
Tab == [step : Steps, entry : Entry, ask : {"yes", "no"}, resent : {"yes", "no"},
        post : Nat]
Post == [ticket : Nat, day : Nat, at : Instances,
         stage : {"sent", "admitted", "lost", "done"}, answer : {"none", "ok", "refused"}]
Row == [ticket : Nat, at : Nat, post : Nat]

Typed ==
    /\ now \in Nat /\ faults \in Nat /\ restores \in Nat
    /\ sealed \in Seq([holder : Nat \ {0}, at : Nat])
    /\ vault \in Entry /\ file \in Entry
    /\ tab \in [Tabs -> Tab]
    /\ posts \in Seq(Post)
    /\ rows \subseteq Row
    /\ granted \subseteq Credential

\* Tickets, requests and days that are referred to exist, a request is
\* answered when the handler has ended, and only then, and a setup past its
\* first save holds the ticket it works for.
TypeOK ==
    /\ Typed
    /\ \A k \in Tickets : sealed[k].at <= now
    /\ vault.pending <= Len(sealed) /\ file.pending <= Len(sealed)
    /\ \A r \in rows : r.ticket \in Tickets
    /\ \A c \in granted : c.ticket \in Tickets
    /\ \A p \in 1..Len(posts) :
         /\ posts[p].ticket \in Tickets
         /\ posts[p].answer = "none" <=> posts[p].stage \in {"sent", "admitted"}
    /\ \A t \in Tabs :
         /\ tab[t].entry.pending <= Len(sealed)
         /\ tab[t].step \in {"sign", "post", "poll", "collect"} => tab[t].entry.pending # 0
         /\ tab[t].step = "post" => tab[t].post \in 1..Len(posts)

TicketsAgree ==
    /\ \A p \in 1..Len(posts) : sealed[posts[p].ticket].holder = vault.holder
    /\ \A r \in rows : sealed[r.ticket].holder = vault.holder
    /\ \A c \in granted : sealed[c.ticket].holder = vault.holder

\* Whatever tabs, reloads and restored backups interleave, every ticket that
\* left the browser and every credential the issuer granted was made for
\* the private holder that the vault still keeps, and the credential beside
\* that holder is one of them: none is issued to a secret another tab
\* overwrote, and none is kept that the secret does not open
\* (enrollment.ts:62-69, credential-vault.ts:180-182).
HolderKept == TicketsAgree /\ vault.credential \in granted \cup {NoCredential}

\* An application the vault calls submitted, and does not yet call stale, has
\* a row the issuer can still grant: a 404 can be taken for a delay without
\* asking for another signature (enrollment.ts:57, 97, enrollment-inbox.ts:22).
SubmittedIsQueued ==
    vault.submitted = "yes" /\ ~Stale(vault.pending) => LiveRowsOf(vault.pending) # {}

\* Repeated requests of one ticket share one inbox row
\* (enrollment-api.ts:17, 53-54).
OneRowPerTicket ==
    \A r, s \in LiveRows : r.ticket = s.ticket => r = s

\* What one instance can keep of it: of the live rows of a ticket at most one
\* had its creation confirmed, so that a second row, which counts against
\* the three of the wallet, takes a creation that was given up
\* (enrollment-api.ts:17, 53-57, 63-65).
Confirmed(r) == posts[r.post].answer = "ok"
ConfirmedOnce ==
    \A r, s \in LiveRows :
        r.ticket = s.ticket /\ Confirmed(r) /\ Confirmed(s) => r = s

\* An unexpired credential stays in the vault until it expires: concurrent
\* setups do not silently overwrite it (credential-vault.ts:170).
CredentialKept ==
    [][Valid(vault.credential) /\ now' = now => vault'.credential = vault.credential]_vars

\* A reviewer without a credential who goes on asking and signing gets one,
\* from whatever an interrupted setup, a lost answer, a creation mined late
\* or an expired application left behind, unless the wallet's rows once
\* reach their limit, where the API refuses until one expires
\* (enrollment.ts:52-115, enrollment-api.ts:57).
SetupCompletes ==
    []QuotaLeft => (~Valid(vault.credential) ~> Valid(vault.credential))

-----------------------------------------------------------------------------
(* What the properties rest on.                                            *)

Made(e) == e.pending # 0 => sealed[e.pending].holder = e.holder

\* Every copy of an entry, in a tab or in the backup, has the vault's holder.
CopiesAgree ==
    /\ Made(vault) /\ Made(file)
    /\ vault.holder = 0 => vault = Empty
    /\ file.holder \in {0, vault.holder}
    /\ file.holder = 0 => file = Empty
    /\ \A t \in Tabs :
         /\ Made(tab[t].entry)
         /\ tab[t].entry.holder \in {0, vault.holder}
         /\ tab[t].step \in {"drop", "sign", "post", "poll", "collect"}
              => tab[t].entry.holder # 0

HolderInv == CopiesAgree /\ TicketsAgree

\* No copy of an entry has a credential that was not granted.
CopiesGranted ==
    {vault.credential, file.credential} \cup {tab[t].entry.credential : t \in Tabs}
      \subseteq granted \cup {NoCredential}

HasRow(k) == k # 0 /\ \E r \in rows : r.ticket = k

\* Whatever calls itself submitted has a row, live or not, and no row is
\* older than its ticket.
RowsInv ==
    /\ vault.submitted = "yes" => HasRow(vault.pending)
    /\ file.submitted = "yes" => HasRow(file.pending)
    /\ \A t \in Tabs :
         /\ tab[t].entry.submitted = "yes" => HasRow(tab[t].entry.pending)
         /\ tab[t].step = "post" => posts[tab[t].post].ticket = tab[t].entry.pending
    /\ \A p \in 1..Len(posts) : posts[p].answer = "ok" => HasRow(posts[p].ticket)
    /\ \A r \in rows : r.at >= sealed[r.ticket].at

\* What the queue of one instance gives, with any number of them: confirmed
\* rows made through one instance are one to a ticket.
OneRowPerInstance ==
    \A r, s \in LiveRows :
        /\ r.ticket = s.ticket /\ posts[r.post].at = posts[s.post].at
        /\ Confirmed(r) /\ Confirmed(s)
        => r = s

\* A row was made by a request that is done.  An instance holds one admitted
\* request, and confirmed no row of its ticket since it looked for one.
AdmitInv ==
    /\ \A r \in rows : r.post \in 1..Len(posts) /\ posts[r.post].stage = "done"
    /\ \A p, q \in 1..Len(posts) :
         /\ posts[p].stage = "admitted" /\ posts[q].stage = "admitted"
         /\ posts[p].at = posts[q].at
         => p = q
    /\ \A p \in 1..Len(posts) : posts[p].stage = "admitted" =>
         \A r \in LiveRowsOf(posts[p].ticket) :
             Confirmed(r) => posts[r.post].at # posts[p].at
    /\ OneRowPerInstance

\* While a setup runs the vault has no valid credential, and the entry a
\* setup may write back never has one.
CredentialInv ==
    \A t \in Tabs :
        /\ ~Valid(tab[t].entry.credential)
        /\ tab[t].step # "idle" => ~Valid(vault.credential)

=============================================================================
