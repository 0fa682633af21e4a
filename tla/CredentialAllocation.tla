------------------------ MODULE CredentialAllocation ------------------------
(***************************************************************************)
(* The hosted issuer (pilot/hosting/automatic-issuer.ts): any number of    *)
(* serverless calls share one encrypted ledger in blob storage, and each   *)
(* allocates a credential by reading the ledger, signing at its next index *)
(* and writing the ledger back under the ETag it read.                     *)
(*                                                                         *)
(* The calls hold no lock.  A write is a message: the store may process it *)
(* long after the call that sent it has given up, or twice, and its answer *)
(* may be lost.  A call stops at any line when the platform kills it.      *)
(***************************************************************************)
EXTENDS Integers, FiniteSets

CONSTANTS
    Tickets,        \* enrollment tickets
    Digests,        \* digests of sealed applications
    Calls,          \* invocations whose envelope is genuine, retries included
    TicketOf,       \* record.ticket of each call
    DigestOf,       \* the digest of each call's envelope
    MaxAttempts,    \* six in the code
    Capacity,       \* leaves of the status tree, 2^16 in the code
    NoEntry, NoAnswer

ASSUME AllocationAssumptions ==
    /\ TicketOf \in [Calls -> Tickets]
    /\ DigestOf \in [Calls -> Digests]
    /\ MaxAttempts \in Nat \ {0}
    /\ Capacity \in Nat

Indexes == 0..Capacity

\* A credential: its index, and the application whose holder it was made for.
Credential == [index : Indexes, holder : Digests]
Entry == [digest : Digests, credential : Credential]

ASSUME NullAssumptions == NoEntry \notin Entry /\ NoAnswer \notin Credential

\* The ledger blob: etag numbers its versions, next is registry.nextIndex.
Ledger == [etag : Nat, next : Indexes, issued : [Tickets -> Entry \cup {NoEntry}]]

EmptyLedger == [etag |-> 0, next |-> 0, issued |-> [t \in Tickets |-> NoEntry]]

Phases == {"reading", "committing", "answered", "failed"}

VARIABLES
    ledger,     \* the blob
    phase,      \* where each call is
    attempt,    \* its loop counter
    seen,       \* {state, etag} of its last read
    write,      \* its last put: not sent, on the way, stored or refused
    answer      \* what it returned

vars == <<ledger, phase, attempt, seen, write, answer>>

\* A call has opened a genuine application and may be anywhere before its
\* first read.
Init ==
    /\ ledger = EmptyLedger
    /\ phase = [c \in Calls |-> "reading"]
    /\ attempt = [c \in Calls |-> 0]
    /\ seen = [c \in Calls |-> EmptyLedger]
    /\ write = [c \in Calls |-> "none"]
    /\ answer = [c \in Calls |-> NoAnswer]

Goto(c, p) == phase' = [phase EXCEPT ![c] = p]

-----------------------------------------------------------------------------
(* One call.                                                               *)

\* The entry a ticket already has is answered only to the same application.
MutSameApplication(e, d) == TRUE
SameApplication(e, d) == e.digest = d

\* The registry has a leaf left to issue.
LeafLeft(registry) == registry.next < Capacity

\* deps.read, the lookup of the ticket, and deps.issue signing at the
\* registry's next index: nothing is shared between the read and the put.
Read(c) ==
    /\ phase[c] = "reading"
    /\ seen' = [seen EXCEPT ![c] = ledger]
    /\ LET previous == ledger.issued[TicketOf[c]] IN
       \/ /\ previous = NoEntry /\ LeafLeft(ledger)
          /\ Goto(c, "committing")
          /\ write' = [write EXCEPT ![c] = "sent"]
          /\ UNCHANGED answer
       \/ /\ previous = NoEntry /\ ~LeafLeft(ledger)
          /\ Goto(c, "failed")
          /\ UNCHANGED <<write, answer>>
       \/ /\ previous # NoEntry /\ SameApplication(previous, DigestOf[c])
          /\ Goto(c, "answered")
          /\ answer' = [answer EXCEPT ![c] = previous.credential]
          /\ UNCHANGED write
       \/ /\ previous # NoEntry /\ ~SameApplication(previous, DigestOf[c])
          /\ Goto(c, "failed")
          /\ UNCHANGED <<write, answer>>
    /\ UNCHANGED <<ledger, attempt>>

\* The credential call c signed, and the ledger it asks the store to keep.
Signed(c) == [index |-> seen[c].next, holder |-> DigestOf[c]]

MutNextLedger(c) ==
    [etag |-> seen[c].etag + 1,
     next |-> seen[c].next,
     issued |-> [seen[c].issued EXCEPT ![TicketOf[c]] =
                    [digest |-> DigestOf[c], credential |-> Signed(c)]]]
NextLedger(c) ==
    [etag |-> seen[c].etag + 1,
     next |-> seen[c].next + 1,
     issued |-> [seen[c].issued EXCEPT ![TicketOf[c]] =
                    [digest |-> DigestOf[c], credential |-> Signed(c)]]]

\* The put returned, or failed with BlobPreconditionFailedError.
Committed(c) ==
    /\ phase[c] = "committing" /\ write[c] = "stored"
    /\ Goto(c, "answered")
    /\ answer' = [answer EXCEPT ![c] = Signed(c)]
    /\ UNCHANGED <<ledger, attempt, seen, write>>

Conflict(c) ==
    /\ phase[c] = "committing" /\ write[c] = "refused"
    /\ attempt' = [attempt EXCEPT ![c] = @ + 1]
    /\ Goto(c, IF attempt[c] + 1 < MaxAttempts THEN "reading" ELSE "failed")
    /\ UNCHANGED <<ledger, seen, write, answer>>

\* Any other error, a timeout or the end of the function's time.  What it
\* sent stays sent.
MutThrow(c) ==
    /\ phase[c] \in {"reading", "committing"}
    /\ attempt' = [attempt EXCEPT ![c] = @ + 1]
    /\ Goto(c, IF attempt[c] + 1 < MaxAttempts THEN "reading" ELSE "failed")
    /\ UNCHANGED <<ledger, seen, write, answer>>
Throw(c) ==
    /\ phase[c] \in {"reading", "committing"}
    /\ Goto(c, "failed")
    /\ UNCHANGED <<ledger, attempt, seen, write, answer>>

-----------------------------------------------------------------------------
(* The blob store.                                                         *)

\* ifMatch: the put is applied to the version it was computed from, or to
\* none.
IfMatch(c) == ledger.etag = seen[c].etag

Apply(c) ==
    /\ write[c] = "sent"
    /\ IF IfMatch(c)
       THEN /\ ledger' = NextLedger(c)
            /\ write' = [write EXCEPT ![c] = "stored"]
       ELSE /\ write' = [write EXCEPT ![c] = "refused"]
            /\ UNCHANGED ledger
    /\ UNCHANGED <<phase, attempt, seen, answer>>

\* The store's client repeats a request whose answer it did not get.
Resend(c) ==
    /\ phase[c] = "committing" /\ write[c] = "stored"
    /\ write' = [write EXCEPT ![c] = "sent"]
    /\ UNCHANGED <<ledger, phase, attempt, seen, answer>>

-----------------------------------------------------------------------------
Next == \E c \in Calls :
    \/ Read(c)
    \/ Committed(c)
    \/ Conflict(c)
    \/ Throw(c)
    \/ Apply(c)
    \/ Resend(c)

Spec == Init /\ [][Next]_vars

-----------------------------------------------------------------------------
(* Properties.                                                             *)

TypeOK ==
    /\ ledger \in Ledger
    /\ phase \in [Calls -> Phases]
    /\ attempt \in [Calls -> 0..MaxAttempts]
    /\ seen \in [Calls -> Ledger]
    /\ write \in [Calls -> {"none", "sent", "stored", "refused"}]
    /\ answer \in [Calls -> Credential \cup {NoAnswer}]

\* A credential leaves the issuer only after the ledger durably holds it for
\* that ticket, and for the application the call presented: a later retry
\* finds the same one (allocateCredential, "Credential release follows a
\* durable CAS commit").
ReleasedIsRecorded ==
    \A c \in Calls : answer[c] # NoAnswer =>
        ledger.issued[TicketOf[c]] =
            [digest |-> DigestOf[c], credential |-> answer[c]]

Issued == {t \in Tickets : ledger.issued[t] # NoEntry}

\* No two tickets share a status index, whatever races, repeats or late
\* writes happened, and every index below registry.nextIndex is somebody's:
\* a revocation hits one holder, and the tree loses no leaf to a lost race.
IndexesPartitioned ==
    /\ \A t, u \in Issued :
         ledger.issued[t].credential.index = ledger.issued[u].credential.index
             => t = u
    /\ {ledger.issued[t].credential.index : t \in Issued}
         = 0..(ledger.next - 1)

\* A call loses a race only to another's success: it reports the issuer busy
\* after at least MaxAttempts tickets were served, never because of faults
\* of the store (the conflict test of the catch clause).
BusyMeansServed == \A c \in Calls : attempt[c] <= Cardinality(Issued)

\* Calls that share the ledger implement one credential per ticket.
Promise == INSTANCE CredentialPromise WITH
    granted <- ledger.issued, answers <- answer

KeepsPromise == Promise!PSpec

=============================================================================
