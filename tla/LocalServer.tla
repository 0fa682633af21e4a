---------------------------- MODULE LocalServer -----------------------------
(***************************************************************************)
(* The local pilot's upload endpoints (pilot/start.mjs): POST /api/terms   *)
(* and POST /api/upload.  Requests are served concurrently by one process; *)
(* each reads its body and the chain, verifies the wallet's signature and  *)
(* then, without an await, consults the cache, the locks and the counters  *)
(* before it awaits the storage node.                                      *)
(***************************************************************************)
EXTENDS Integers, FiniteSets

CONSTANTS
    Requests,                  \* requests served at the same time
    Owners, Contents,         \* clients or jobs; contents
    TermsQuota, ReportQuota,   \* 10 scopes of a client, 3 reports of a job
    MaxServed, MaxRestarts     \* bounds

ASSUME ServerAssumptions ==
    /\ TermsQuota \in Nat /\ ReportQuota \in Nat
    /\ MaxServed \in Nat /\ MaxRestarts \in Nat
    /\ IsFiniteSet(Contents)

\* A terms request is keyed by client and scope, a report by job and digest.
Kinds == {"terms", "report"}
Items == [kind : Kinds, owner : Owners, document : Contents]
NoUpload == [kind |-> "none"]

VARIABLES
    serving, phase,            \* requests
    cached, locked, counted,   \* uploads, locks, termsQuota and uploadCounts
    served, restarts,          \* bounds
    started, succeeded         \* history of this process: storage uploads
serverVars == <<serving, phase, cached, locked, counted, served, restarts, started, succeeded>>

\* What an upload locks: its own key, or all reports of the job.
LockOf(u) == IF u.kind = "terms" THEN u ELSE [kind |-> "report", owner |-> u.owner]
Locks == {LockOf(u) : u \in Items}
Counters == Kinds \X Owners
Counter(u) == <<u.kind, u.owner>>
Quota(u) == IF u.kind = "terms" THEN TermsQuota ELSE ReportQuota

ServerTypeOK ==
    /\ serving \in [Requests -> Items \union {NoUpload}]
    /\ phase \in [Requests -> {"idle", "reading", "uploading"}]
    /\ cached \subseteq Items /\ locked \subseteq Locks
    /\ counted \in [Counters -> Nat]
    /\ served \in 0 .. MaxServed /\ restarts \in 0 .. MaxRestarts
    /\ started \in [Items -> Nat] /\ succeeded \in [Items -> Nat]

ServerInit ==
    /\ serving = [r \in Requests |-> NoUpload] /\ phase = [r \in Requests |-> "idle"]
    /\ cached = {} /\ locked = {} /\ counted = [c \in Counters |-> 0]
    /\ served = 0 /\ restarts = 0
    /\ started = [u \in Items |-> 0] /\ succeeded = [u \in Items |-> 0]

Quiet == <<cached, locked, counted, started, succeeded>>
Rest(r) ==
    /\ phase' = [phase EXCEPT ![r] = "idle"]
    /\ serving' = [serving EXCEPT ![r] = NoUpload]

Receive(r, kind) ==
    /\ phase[r] = "idle" /\ served < MaxServed
    /\ phase' = [phase EXCEPT ![r] = "reading"]
    /\ \E u \in Items : u.kind = kind /\ serving' = [serving EXCEPT ![r] = u]
    /\ served' = served + 1
    /\ UNCHANGED <<Quiet, restarts>>

Refuse(r, kind) ==
    /\ phase[r] = "reading" /\ serving[r].kind = kind
    /\ Rest(r)
    /\ UNCHANGED <<Quiet, served, restarts>>

\* Refused: another network or token, closed for acceptance, an expired
\* authorisation, or not signed by the client.
ReceiveTerms(r) == Receive(r, "terms")
RefuseTerms(r) == Refuse(r, "terms")

\* Refused: the job takes no report, the authorisation expired, the worker
\* did not sign it, or it is not for the parties under their current keys.
ReceiveReport(r) == Receive(r, "report")
RefuseReport(r) == Refuse(r, "report")

\* Answered from the cache; refused while locked or at the quota.
Uploadable(u) == u \notin cached /\ LockOf(u) \notin locked /\ counted[Counter(u)] < Quota(u)

Decline(r) ==
    /\ phase[r] = "reading" /\ ~Uploadable(serving[r])
    /\ Rest(r)
    /\ UNCHANGED <<Quiet, served, restarts>>

CountUpload(u) == counted' = [counted EXCEPT ![Counter(u)] = @ + 1]

\* The quota of scopes is reserved before the upload, that of reports is
\* charged when one succeeds.
MutReserved(u) == FALSE
Reserved(u) == u.kind = "terms"

Upload(r) ==
    /\ phase[r] = "reading" /\ Uploadable(serving[r])
    /\ phase' = [phase EXCEPT ![r] = "uploading"]
    /\ locked' = locked \union {LockOf(serving[r])}
    /\ IF Reserved(serving[r]) THEN CountUpload(serving[r]) ELSE UNCHANGED counted
    /\ started' = [started EXCEPT ![serving[r]] = @ + 1]
    /\ UNCHANGED <<serving, cached, succeeded, served, restarts>>

Stored(r) ==
    /\ phase[r] = "uploading"
    /\ cached' = cached \union {serving[r]}
    /\ IF Reserved(serving[r]) THEN UNCHANGED counted ELSE CountUpload(serving[r])
    /\ locked' = locked \ {LockOf(serving[r])}
    /\ succeeded' = [succeeded EXCEPT ![serving[r]] = @ + 1]
    /\ Rest(r)
    /\ UNCHANGED <<started, served, restarts>>

\* Storage failed; the lock is released, the reserved quota is not.
MutReleased(u) == {}
Released(u) == {LockOf(u)}

NotStored(r) ==
    /\ phase[r] = "uploading"
    /\ locked' = locked \ Released(serving[r])
    /\ Rest(r)
    /\ UNCHANGED <<cached, counted, started, succeeded, served, restarts>>

\* Nothing is persisted: another process starts from empty maps.
Restart ==
    /\ restarts < MaxRestarts /\ restarts' = restarts + 1
    /\ serving' = [r \in Requests |-> NoUpload] /\ phase' = [r \in Requests |-> "idle"]
    /\ cached' = {} /\ locked' = {} /\ counted' = [c \in Counters |-> 0]
    /\ started' = [u \in Items |-> 0] /\ succeeded' = [u \in Items |-> 0]
    /\ UNCHANGED served

ServerNext ==
    \/ \E r \in Requests :
         \/ ReceiveTerms(r) \/ RefuseTerms(r)
         \/ ReceiveReport(r) \/ RefuseReport(r) \/ Decline(r)
         \/ Upload(r) \/ Stored(r) \/ NotStored(r)
    \/ Restart

ServerSpec == ServerInit /\ [][ServerNext]_serverVars

(***************************************************************************)
(* Properties.                                                             *)
(***************************************************************************)

\* The uploads counted for an owner, those of a document numbered from one.
Numbered(count, kind, o) ==
    UNION {{d} \X (1 .. count[[kind |-> kind, owner |-> o, document |-> d]]) : d \in Contents}
Total(count, kind, o) == Cardinality(Numbered(count, kind, o))

\* Safety: whatever requests run in parallel, a client starts at most its
\* quota of scope uploads, a job gets at most its allowance of reports, and a
\* document is stored once and then answered from the cache.
QuotasHold ==
    /\ \A o \in Owners : /\ Total(started, "terms", o) <= TermsQuota
                         /\ Total(succeeded, "report", o) <= ReportQuota
    /\ \A u \in Items : succeeded[u] <= 1

\* Safety: a lock is held exactly while the upload it protects runs, so a
\* failed upload can be retried and two never run for one key.
LockedWhileUploading ==
    /\ locked = {LockOf(serving[r]) : r \in {q \in Requests : phase[q] = "uploading"}}
    /\ \A r, q \in Requests :
         phase[r] = "uploading" /\ phase[q] = "uploading" /\ r # q
            => LockOf(serving[r]) # LockOf(serving[q])
=============================================================================
