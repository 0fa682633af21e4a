---------------------------- MODULE IssuersProofs ---------------------------
(***************************************************************************)
(* Proofs about the two issuers of credential indexes.                     *)
(*                                                                         *)
(* CredentialAllocation: the inductive invariant LedgerInv says what a     *)
(* call's snapshot of the ledger is worth: it is a past version, it is the *)
(* present one if the versions agree, and a put that is still on its way   *)
(* was computed from a ledger in which the call's ticket had no entry.     *)
(*                                                                         *)
(* IssuerRegistry: two ideas carry RegistryInv.  Whatever a command        *)
(* publishes only adds to the state (Grows), and what a signature or a     *)
(* finished command relies on is in the durable state too, so that a power *)
(* loss, which picks one of the two, cannot lose it.                       *)
(***************************************************************************)
EXTENDS CredentialAllocation, IssuerRegistry, FiniteSetTheorems, TLAPS

-----------------------------------------------------------------------------
(* The hosted issuer.                                                      *)

Pending(c) == write[c] \in {"sent", "stored"}

\* The snapshot of a put that may still be applied.
SnapshotIsPast(c) ==
    /\ seen[c].etag <= ledger.etag
    /\ seen[c].etag = ledger.etag => seen[c] = ledger
    /\ seen[c].issued[TicketOf[c]] = NoEntry
    /\ seen[c].next < Capacity

CallInv(c) ==
    /\ attempt[c] <= ledger.etag
    /\ phase[c] \in {"reading", "committing"} => attempt[c] < MaxAttempts
    /\ Pending(c) => SnapshotIsPast(c)
    /\ write[c] = "stored" =>
         /\ seen[c].etag < ledger.etag
         /\ ledger.issued[TicketOf[c]] =
              [digest |-> DigestOf[c], credential |-> Signed(c)]
    /\ phase[c] = "committing" => /\ attempt[c] <= seen[c].etag
                                  /\ write[c] # "none"
    /\ phase[c] = "committing" /\ write[c] = "refused" =>
         seen[c].etag < ledger.etag
    /\ phase[c] = "reading" => write[c] \in {"none", "refused"}
    /\ phase[c] # "answered" => answer[c] = NoAnswer

\* Every version of the ledger serves one more ticket.
VersionsCount ==
    /\ IsFiniteSet(Issued)
    /\ Cardinality(Issued) = ledger.etag

LedgerInv ==
    /\ TypeOK
    /\ ReleasedIsRecorded
    /\ IndexesPartitioned
    /\ VersionsCount
    /\ \A c \in Calls : CallInv(c)

-----------------------------------------------------------------------------
LEMMA InitLedgerInv == Init => LedgerInv
<1> SUFFICES ASSUME Init PROVE LedgerInv
  OBVIOUS
<1> USE AllocationAssumptions, NullAssumptions
<1>1. TypeOK
  BY DEF Init, TypeOK, EmptyLedger, Ledger, Indexes, Phases
<1>2. ReleasedIsRecorded
  BY DEF Init, ReleasedIsRecorded
<1>3. Issued = {}
  BY DEF Init, EmptyLedger, Issued
<1>4. IndexesPartitioned
  BY <1>3 DEF Init, EmptyLedger, IndexesPartitioned
<1>5. VersionsCount
  BY <1>3, FS_EmptySet DEF Init, EmptyLedger, VersionsCount
<1>6. ASSUME NEW c \in Calls PROVE CallInv(c)
  BY DEF Init, CallInv, Pending, EmptyLedger
<1> QED
  BY <1>1, <1>2, <1>4, <1>5, <1>6 DEF LedgerInv

\* A put that is still on its way and finds the version it was computed from
\* adds one entry, at the next index, for a ticket that had none.
LEMMA ApplyGrants ==
    ASSUME LedgerInv, NEW c \in Calls, write[c] = "sent", IfMatch(c)
    PROVE  /\ seen[c] = ledger
           /\ ledger.issued[TicketOf[c]] = NoEntry
           /\ ledger.next < Capacity
           /\ NextLedger(c) =
                [etag |-> ledger.etag + 1,
                 next |-> ledger.next + 1,
                 issued |-> [ledger.issued EXCEPT ![TicketOf[c]] =
                    [digest |-> DigestOf[c],
                     credential |-> [index |-> ledger.next,
                                     holder |-> DigestOf[c]]]]]
<1>1. SnapshotIsPast(c)
  BY DEF LedgerInv, CallInv, Pending
<1>2. seen[c] = ledger
  BY <1>1 DEF SnapshotIsPast, IfMatch
<1> QED
  BY <1>1, <1>2 DEF SnapshotIsPast, NextLedger, Signed

\* The effect of storing a put on the ledger's own invariants.
LEMMA GrantPreserves ==
    ASSUME LedgerInv, NEW c \in Calls, write[c] = "sent", IfMatch(c),
           ledger' = NextLedger(c)
    PROVE  /\ ledger' \in Ledger
           /\ ledger'.etag = ledger.etag + 1
           /\ \A t \in Tickets : ledger.issued[t] # NoEntry =>
                ledger'.issued[t] = ledger.issued[t]
           /\ ledger'.issued[TicketOf[c]] =
                [digest |-> DigestOf[c], credential |-> Signed(c)]
           /\ IndexesPartitioned'
           /\ VersionsCount'
<1> USE AllocationAssumptions, NullAssumptions
<1>0. /\ TypeOK /\ IndexesPartitioned /\ VersionsCount
      /\ TicketOf[c] \in Tickets /\ DigestOf[c] \in Digests
  BY DEF LedgerInv
<1> DEFINE t0 == TicketOf[c]
           e0 == [digest |-> DigestOf[c],
                  credential |-> [index |-> ledger.next,
                                  holder |-> DigestOf[c]]]
<1>1. /\ seen[c] = ledger
      /\ ledger.issued[t0] = NoEntry
      /\ ledger.next < Capacity
      /\ ledger' = [etag |-> ledger.etag + 1, next |-> ledger.next + 1,
                    issued |-> [ledger.issued EXCEPT ![t0] = e0]]
  BY ApplyGrants
<1>2. /\ ledger.etag \in Nat /\ ledger.next \in 0..Capacity
      /\ ledger.issued \in [Tickets -> Entry \cup {NoEntry}]
  BY <1>0 DEF TypeOK, Ledger, Indexes
<1>3. e0 \in Entry /\ e0 # NoEntry
  BY <1>0, <1>2 DEF Entry, Credential, Indexes
<1> HIDE DEF t0, e0
<1>4. ledger' \in Ledger
  <2>1. ledger.next + 1 \in 0..Capacity /\ ledger.etag + 1 \in Nat
    BY <1>1, <1>2
  <2>2. [ledger.issued EXCEPT ![t0] = e0] \in [Tickets -> Entry \cup {NoEntry}]
    BY <1>2, <1>3
  <2> QED BY <1>1, <2>1, <2>2 DEF Ledger, Indexes
<1>5. /\ ledger'.etag = ledger.etag + 1 /\ ledger'.next = ledger.next + 1
      /\ \A t \in Tickets :
           ledger'.issued[t] = IF t = t0 THEN e0 ELSE ledger.issued[t]
  BY <1>1, <1>2
<1>6. Issued' = Issued \cup {t0} /\ t0 \notin Issued
  BY <1>0, <1>1, <1>3, <1>5 DEF Issued, t0
<1>7. VersionsCount'
  BY <1>0, <1>2, <1>5, <1>6, FS_AddElement DEF VersionsCount
<1>8. IndexesPartitioned'
  <2>1. \A t \in Issued : /\ ledger.issued[t].credential.index \in 0..(ledger.next - 1)
                          /\ ledger'.issued[t] = ledger.issued[t]
    BY <1>0, <1>5, <1>6 DEF IndexesPartitioned, Issued
  <2>2. ledger'.issued[t0].credential.index = ledger.next
    BY <1>0, <1>5 DEF t0, e0
  <2>3. ASSUME NEW t \in Issued', NEW u \in Issued',
               ledger'.issued[t].credential.index
                 = ledger'.issued[u].credential.index
        PROVE  t = u
    BY <1>0, <1>2, <1>6, <2>1, <2>2, <2>3 DEF IndexesPartitioned
  <2>4. {ledger'.issued[t].credential.index : t \in Issued'}
          = {ledger.issued[t].credential.index : t \in Issued}
              \cup {ledger.next}
    BY <1>6, <2>1, <2>2
  <2>5. 0..(ledger'.next - 1) = 0..(ledger.next - 1) \cup {ledger.next}
    BY <1>2, <1>5
  <2> QED
    BY <1>0, <2>3, <2>4, <2>5 DEF IndexesPartitioned
<1>9. ledger'.issued[TicketOf[c]] =
        [digest |-> DigestOf[c], credential |-> Signed(c)]
  BY <1>0, <1>1, <1>5 DEF t0, e0, Signed
<1>10. \A t \in Tickets : ledger.issued[t] # NoEntry =>
         ledger'.issued[t] = ledger.issued[t]
  BY <1>1, <1>5
<1> QED
  BY <1>4, <1>5, <1>7, <1>8, <1>9, <1>10

LEMMA NextLedgerInv == LedgerInv /\ [Next]_vars => LedgerInv'
<1> SUFFICES ASSUME LedgerInv, [Next]_vars PROVE LedgerInv'
  OBVIOUS
<1> USE AllocationAssumptions, NullAssumptions
<1>0. /\ TypeOK /\ ReleasedIsRecorded /\ IndexesPartitioned /\ VersionsCount
      /\ \A c \in Calls : CallInv(c)
      /\ ledger.etag \in Nat
  BY DEF LedgerInv, TypeOK, Ledger
\* Steps that leave the ledger alone owe only what they change about calls.
<1>1. ASSUME UNCHANGED ledger, TypeOK', ReleasedIsRecorded',
             \A c \in Calls : CallInv(c)'
      PROVE  LedgerInv'
  BY <1>0, <1>1 DEF LedgerInv, IndexesPartitioned, VersionsCount, Issued
<1>2. ASSUME NEW c \in Calls, Read(c) PROVE LedgerInv'
  <2>1. TypeOK'
    BY <1>0, <1>2 DEF TypeOK, Read, Goto, Phases, Ledger, Entry, SameApplication
  <2>2. ReleasedIsRecorded'
    BY <1>0, <1>2 DEF ReleasedIsRecorded, Read, SameApplication, TypeOK,
                      Ledger, Entry, Credential
  <2>3. ASSUME NEW d \in Calls PROVE CallInv(d)'
    <3>1. CASE d = c
      <4>1. /\ phase[c] = "reading" /\ seen'[c] = ledger /\ ledger' = ledger
            /\ attempt' = attempt /\ attempt[c] <= ledger.etag
            /\ attempt[c] < MaxAttempts
            /\ write[c] \in {"none", "refused"} /\ answer[c] = NoAnswer
        BY <1>0, <1>2 DEF Read, CallInv, TypeOK
      <4>2. CASE /\ ledger.issued[TicketOf[c]] = NoEntry /\ LeafLeft(ledger)
                 /\ phase'[c] = "committing" /\ write'[c] = "sent"
                 /\ answer' = answer
        BY <1>0, <3>1, <4>1, <4>2 DEF CallInv, Pending, SnapshotIsPast,
                                      LeafLeft
      <4>3. CASE phase'[c] = "answered" /\ write' = write
        BY <3>1, <4>1, <4>3 DEF CallInv, Pending
      <4>4. CASE phase'[c] = "failed" /\ UNCHANGED <<write, answer>>
        BY <3>1, <4>1, <4>4 DEF CallInv, Pending
      <4> QED
        BY <1>0, <1>2, <4>1, <4>2, <4>3, <4>4 DEF Read, Goto, TypeOK
    <3>2. CASE d # c
      BY <1>0, <1>2, <3>2 DEF Read, Goto, TypeOK, CallInv, Pending,
                              SnapshotIsPast, Signed
    <3> QED BY <3>1, <3>2
  <2> QED BY <1>1, <1>2, <2>1, <2>2, <2>3 DEF Read
<1>3. ASSUME NEW c \in Calls, Committed(c) PROVE LedgerInv'
  <2>1. /\ Signed(c) \in Credential
        /\ ledger.issued[TicketOf[c]] =
             [digest |-> DigestOf[c], credential |-> Signed(c)]
    BY <1>0, <1>3 DEF Committed, CallInv, Pending, SnapshotIsPast, Signed,
                      Credential, TypeOK, Ledger, Indexes
  <2>2. TypeOK'
    BY <1>0, <1>3, <2>1 DEF TypeOK, Committed, Goto, Phases
  <2>3. ReleasedIsRecorded'
    BY <1>0, <1>3, <2>1 DEF ReleasedIsRecorded, Committed, TypeOK
  <2>4. ASSUME NEW d \in Calls PROVE CallInv(d)'
    BY <1>0, <1>3 DEF Committed, Goto, TypeOK, CallInv, Pending,
                      SnapshotIsPast, Signed
  <2> QED BY <1>1, <1>3, <2>2, <2>3, <2>4 DEF Committed
<1>4. ASSUME NEW c \in Calls, Conflict(c) PROVE LedgerInv'
  <2>0. /\ attempt[c] \in 0..MaxAttempts /\ seen[c] \in Ledger
        /\ attempt[c] <= seen[c].etag /\ seen[c].etag < ledger.etag
    BY <1>0, <1>4 DEF Conflict, CallInv, TypeOK
  <2>1. attempt[c] + 1 <= ledger.etag /\ attempt[c] \in 0..MaxAttempts
    BY <1>0, <2>0 DEF Ledger
  <2>2. attempt[c] < MaxAttempts
    BY <1>0, <1>4 DEF Conflict, CallInv, TypeOK
  <2>3. TypeOK'
    BY <1>0, <1>4, <2>1, <2>2 DEF TypeOK, Conflict, Goto, Phases
  <2>4. ReleasedIsRecorded'
    BY <1>0, <1>4 DEF ReleasedIsRecorded, Conflict
  <2>5. ASSUME NEW d \in Calls PROVE CallInv(d)'
    BY <1>0, <1>4, <2>1 DEF Conflict, Goto, TypeOK, CallInv, Pending,
                            SnapshotIsPast, Signed
  <2> QED BY <1>1, <1>4, <2>3, <2>4, <2>5 DEF Conflict
<1>5. ASSUME NEW c \in Calls, Throw(c) PROVE LedgerInv'
  <2>1. TypeOK'
    BY <1>0, <1>5 DEF TypeOK, Throw, Goto, Phases
  <2>2. ReleasedIsRecorded'
    BY <1>0, <1>5 DEF ReleasedIsRecorded, Throw
  <2>3. ASSUME NEW d \in Calls PROVE CallInv(d)'
    BY <1>0, <1>5 DEF Throw, Goto, TypeOK, CallInv, Pending, SnapshotIsPast,
                      Signed
  <2> QED BY <1>1, <1>5, <2>1, <2>2, <2>3 DEF Throw
<1>6. ASSUME NEW c \in Calls, Apply(c) PROVE LedgerInv'
  <2>1. CASE IfMatch(c)
    <3>1. /\ write[c] = "sent" /\ ledger' = NextLedger(c)
          /\ write' = [write EXCEPT ![c] = "stored"]
          /\ UNCHANGED <<phase, attempt, seen, answer>>
      BY <1>6, <2>1 DEF Apply
    <3>2. /\ ledger' \in Ledger
          /\ ledger'.etag = ledger.etag + 1
          /\ \A t \in Tickets : ledger.issued[t] # NoEntry =>
               ledger'.issued[t] = ledger.issued[t]
          /\ ledger'.issued[TicketOf[c]] =
               [digest |-> DigestOf[c], credential |-> Signed(c)]
          /\ IndexesPartitioned' /\ VersionsCount'
      BY <2>1, <3>1, GrantPreserves
    <3>3. TypeOK'
      BY <1>0, <3>1, <3>2 DEF TypeOK
    <3>4. ReleasedIsRecorded'
      <4> SUFFICES ASSUME NEW d \in Calls, answer[d] # NoAnswer
                   PROVE  ledger'.issued[TicketOf[d]] =
                            [digest |-> DigestOf[d], credential |-> answer[d]]
        BY <3>1 DEF ReleasedIsRecorded
      <4>1. ledger.issued[TicketOf[d]] =
              [digest |-> DigestOf[d], credential |-> answer[d]]
        BY <1>0 DEF ReleasedIsRecorded
      <4>2. [digest |-> DigestOf[d], credential |-> answer[d]] \in Entry
        BY <1>0 DEF TypeOK, Entry
      <4> QED BY <3>2, <4>1, <4>2
    <3>5. ASSUME NEW d \in Calls PROVE CallInv(d)'
      <4>1. /\ CallInv(d) /\ attempt[d] \in Nat /\ seen[d].etag \in Nat
            /\ TicketOf[d] \in Tickets
        BY <1>0 DEF TypeOK, Ledger
      <4>2. seen[d].etag <= ledger.etag => seen[d].etag < ledger'.etag
        BY <1>0, <3>2, <4>1
      <4>3. CASE d = c
        BY <1>0, <3>1, <3>2, <4>1, <4>2, <4>3
           DEF TypeOK, CallInv, Pending, SnapshotIsPast, Signed
      <4>4. CASE d # c
        <5>1. write'[d] = write[d]
          BY <1>0, <3>1, <4>4 DEF TypeOK
        <5>2. write[d] = "stored" =>
                /\ ledger.issued[TicketOf[d]] # NoEntry
                /\ ledger'.issued[TicketOf[d]] = ledger.issued[TicketOf[d]]
          <6> SUFFICES ASSUME write[d] = "stored"
                       PROVE  ledger.issued[TicketOf[d]] # NoEntry
            BY <3>2, <4>1
          <6>1. SnapshotIsPast(d) /\ Signed(d) \in Credential
            BY <1>0, <4>1 DEF CallInv, Pending, SnapshotIsPast, TypeOK,
                              Ledger, Indexes, Signed, Credential
          <6>2. [digest |-> DigestOf[d], credential |-> Signed(d)] \in Entry
            BY <6>1 DEF Entry
          <6> QED BY <4>1, <6>2 DEF CallInv
        <5> QED
          BY <1>0, <3>1, <3>2, <4>1, <4>2, <5>1, <5>2
             DEF CallInv, Pending, SnapshotIsPast, Signed
      <4> QED BY <4>3, <4>4
    <3> QED BY <3>2, <3>3, <3>4, <3>5 DEF LedgerInv
  <2>2. CASE ~IfMatch(c)
    <3>1. /\ write[c] = "sent" /\ write' = [write EXCEPT ![c] = "refused"]
          /\ UNCHANGED <<ledger, phase, attempt, seen, answer>>
      BY <1>6, <2>2 DEF Apply
    <3>2. seen[c].etag < ledger.etag
      <4>1. /\ seen[c].etag <= ledger.etag /\ seen[c].etag # ledger.etag
            /\ seen[c] \in Ledger
        BY <1>0, <2>2, <3>1 DEF CallInv, Pending, SnapshotIsPast, IfMatch,
                                TypeOK
      <4> QED BY <1>0, <4>1 DEF Ledger
    <3>3. TypeOK'
      BY <1>0, <3>1 DEF TypeOK
    <3>4. ReleasedIsRecorded'
      BY <1>0, <3>1 DEF ReleasedIsRecorded
    <3>5. ASSUME NEW d \in Calls PROVE CallInv(d)'
      BY <1>0, <3>1, <3>2 DEF TypeOK, CallInv, Pending, SnapshotIsPast, Signed
    <3> QED BY <1>1, <3>1, <3>3, <3>4, <3>5
  <2> QED BY <2>1, <2>2
<1>7. ASSUME NEW c \in Calls, Resend(c) PROVE LedgerInv'
  <2>1. TypeOK'
    BY <1>0, <1>7 DEF TypeOK, Resend
  <2>2. ReleasedIsRecorded'
    BY <1>0, <1>7 DEF ReleasedIsRecorded, Resend
  <2>3. ASSUME NEW d \in Calls PROVE CallInv(d)'
    BY <1>0, <1>7 DEF Resend, TypeOK, CallInv, Pending, SnapshotIsPast, Signed
  <2> QED BY <1>1, <1>7, <2>1, <2>2, <2>3 DEF Resend
<1>8. ASSUME UNCHANGED vars PROVE LedgerInv'
  <2>1. TypeOK' /\ ReleasedIsRecorded'
    BY <1>0, <1>8 DEF vars, TypeOK, ReleasedIsRecorded
  <2>2. ASSUME NEW d \in Calls PROVE CallInv(d)'
    BY <1>0, <1>8 DEF vars, CallInv, Pending, SnapshotIsPast, Signed
  <2> QED BY <1>1, <1>8, <2>1, <2>2 DEF vars
<1> QED
  BY <1>2, <1>3, <1>4, <1>5, <1>6, <1>7, <1>8 DEF Next

THEOREM LedgerInvariance == Spec => []LedgerInv
  BY InitLedgerInv, NextLedgerInv, PTL DEF Spec

-----------------------------------------------------------------------------
\* Every reachable state of the issuer is well typed: no call draws an index
\* past the last leaf, none loops more than MaxAttempts times.
THEOREM AllocationTyped == Spec => []TypeOK
<1>1. LedgerInv => TypeOK
  BY DEF LedgerInv
<1> QED BY <1>1, LedgerInvariance, PTL

\* What a call returns is what the ledger holds for its ticket, for ever.
THEOREM Durable == Spec => []ReleasedIsRecorded
<1>1. LedgerInv => ReleasedIsRecorded
  BY DEF LedgerInv
<1> QED BY <1>1, LedgerInvariance, PTL

\* Tickets and indexes below registry.nextIndex correspond one to one.
THEOREM OneIndexPerTicket == Spec => []IndexesPartitioned
<1>1. LedgerInv => IndexesPartitioned
  BY DEF LedgerInv
<1> QED BY <1>1, LedgerInvariance, PTL

\* A call gives up as busy only after MaxAttempts tickets were served.
THEOREM BusyServesOthers == Spec => []BusyMeansServed
<1>1. LedgerInv => BusyMeansServed
  BY DEF LedgerInv, BusyMeansServed, VersionsCount, CallInv
<1> QED BY <1>1, LedgerInvariance, PTL

-----------------------------------------------------------------------------
\* Whatever calls race, repeat or die, the ledger in the blob implements one
\* credential per ticket (CredentialPromise).
THEOREM ImplementsPromise == Spec => KeepsPromise
<1> USE AllocationAssumptions, NullAssumptions
<1>1. Init => Promise!PInit
  BY DEF Init, EmptyLedger, Promise!PInit
<1>2. ASSUME LedgerInv, [Next]_vars
      PROVE  [Promise!PNext]_(Promise!pvars)
  <2>0. /\ TypeOK /\ IndexesPartitioned
        /\ \A c \in Calls : CallInv(c) /\ TicketOf[c] \in Tickets
    BY <1>2 DEF LedgerInv
  <2>1. ASSUME NEW c \in Calls, Read(c)
        PROVE  Promise!Answer(c) \/ UNCHANGED Promise!pvars
    <3>1. phase[c] = "reading" /\ answer[c] = NoAnswer /\ ledger' = ledger
      BY <2>0, <2>1 DEF Read, CallInv
    <3> QED
      BY <2>0, <2>1, <3>1 DEF Read, SameApplication, Promise!Answer,
                              Promise!pvars
  <2>2. ASSUME NEW c \in Calls, Committed(c) PROVE Promise!Answer(c)
    <3>1. /\ phase[c] = "committing" /\ answer[c] = NoAnswer
          /\ ledger' = ledger
          /\ ledger.issued[TicketOf[c]] =
               [digest |-> DigestOf[c], credential |-> Signed(c)]
          /\ answer' = [answer EXCEPT ![c] = Signed(c)]
      BY <2>0, <2>2 DEF Committed, CallInv
    <3>2. [digest |-> DigestOf[c], credential |-> Signed(c)] \in Entry
      BY <2>0, <2>2 DEF Committed, CallInv, Pending, SnapshotIsPast, Signed,
                        Credential, Entry, TypeOK, Ledger, Indexes
    <3> QED
      BY <3>1, <3>2 DEF Promise!Answer
  <2>3. ASSUME NEW c \in Calls, Apply(c)
        PROVE  (\E i \in Indexes : Promise!Grant(c, i))
                 \/ UNCHANGED Promise!pvars
    <3>1. CASE IfMatch(c)
      <4>1. /\ write[c] = "sent" /\ ledger' = NextLedger(c)
            /\ answer' = answer
        BY <2>3, <3>1 DEF Apply
      <4>2. /\ ledger.issued[TicketOf[c]] = NoEntry
            /\ ledger.next < Capacity
            /\ ledger'.issued = [ledger.issued EXCEPT ![TicketOf[c]] =
                 Promise!EntryFor(DigestOf[c], ledger.next)]
        BY <1>2, <3>1, <4>1, ApplyGrants DEF Promise!EntryFor
      <4>3. ledger.next \in Indexes
        BY <2>0 DEF TypeOK, Ledger
      <4>4. ledger.next \notin Promise!Given
        BY <2>0, <4>3 DEF IndexesPartitioned, Issued, Promise!Given, Indexes
      <4> QED
        BY <4>1, <4>2, <4>3, <4>4 DEF Promise!Grant
    <3>2. CASE ~IfMatch(c)
      BY <2>3, <3>2 DEF Apply, Promise!pvars
    <3> QED BY <3>1, <3>2
  <2>4. ASSUME NEW c \in Calls, Conflict(c) \/ Throw(c) \/ Resend(c)
        PROVE  UNCHANGED Promise!pvars
    BY <2>4 DEF Conflict, Throw, Resend, Promise!pvars
  <2>5. ASSUME UNCHANGED vars PROVE UNCHANGED Promise!pvars
    BY <2>5 DEF vars, Promise!pvars
  <2> QED
    BY <1>2, <2>1, <2>2, <2>3, <2>4, <2>5 DEF Next, Promise!PNext
<1> QED
  BY <1>1, <1>2, LedgerInvariance, PTL DEF Spec, KeepsPromise, Promise!PSpec

-----------------------------------------------------------------------------
(* The registry.                                                           *)

Working == Steps \ {"start", "done", "failed"}

\* What a disk must hold for signature s to stay unique.
Keeps(d, s) ==
    /\ d.key = s.key
    /\ d.state # Absent /\ d.state.key = s.key
    /\ s.index < d.state.next
    /\ d.state.records[s.index] \in Record
    /\ d.state.records[s.index].holder = s.holder

\* ... and once the credential is out.
Backs(d, s) ==
    /\ Keeps(d, s)
    /\ d.state.records[s.index].signature = "made"

LockInv(c) == step[c] \in Working <=> lock = c

\* The registry is open to a command past load, or past init's save.
Opened ==
    /\ visible.key # Absent
    /\ visible.state # Absent /\ visible.state.key = visible.key

OpenInv(c) ==
    /\ Op[c] = "init" /\ step[c] = "locked" => DirectoryEmpty
    /\ step[c] \in {"keyed", "published"} =>
         Op[c] = "init" /\ visible.key = c /\ visible.state = Absent
    /\ step[c] \in {"reserved", "signed", "recorded"} => Op[c] = "issue"
    /\ step[c] = "saved" => Op[c] # "issue"
    /\ step[c] \in {"reserved", "signed", "recorded", "saved", "finishing"}
         => Opened
    /\ step[c] = "locked" /\ Op[c] # "init" => Opened

StateIsDurable == durable.key = visible.key /\ durable.state = visible.state

IssueInv(c) ==
    /\ step[c] = "reserved" =>
         /\ slot[c] < visible.state.next
         /\ visible.state.records[slot[c]]
              = [holder |-> Holder[c], signature |-> "none"]
         /\ \A s \in signatures : s.index # slot[c]
         /\ ~unsynced[c] => StateIsDurable
    /\ step[c] \in {"signed", "recorded"} => SignatureOf(c) \in signatures
    /\ step[c] = "recorded" =>
         /\ visible.state.records[slot[c]].signature = "made"
         /\ ~unsynced[c] => StateIsDurable

Revoked(d, i) == d.state # Absent /\ i \in d.state.revoked
Published(d, i) == d.snapshot # Absent /\ i \in d.snapshot.revoked

RevokeInv(c) == Op[c] = "revoke" =>
    /\ step[c] \in {"saved", "finishing", "done"} => Revoked(visible, Target[c])
    /\ step[c] \in {"finishing", "done"} => Published(visible, Target[c])
    /\ step[c] = "done" \/ (step[c] = "finishing" /\ ~unsynced[c]) =>
         Revoked(durable, Target[c]) /\ Published(durable, Target[c])

SignaturesKept ==
    \A s \in signatures : Keeps(visible, s) /\ Keeps(durable, s)

ReleasedBacked ==
    \A c \in Commands :
        \A o \in {visible.out[c], durable.out[c]} : o # Absent =>
            o \in signatures /\ Backs(visible, o) /\ Backs(durable, o)

RegistryInv ==
    /\ RegistryTypeOK
    /\ NoIndexSignedTwice
    /\ SignaturesKept
    /\ ReleasedBacked
    /\ \A c \in Commands :
         LockInv(c) /\ OpenInv(c) /\ IssueInv(c) /\ RevokeInv(c)

-----------------------------------------------------------------------------
(* Published state only grows.                                             *)

RecordGrows(r, q) ==
    r \in Record => /\ q \in Record /\ q.holder = r.holder
                    /\ r.signature = "made" => q.signature = "made"

Grows(a, b) ==
    /\ a.key # Absent => b.key = a.key
    /\ a.state # Absent =>
         /\ b.state # Absent /\ b.state.key = a.state.key
         /\ a.state.next <= b.state.next
         /\ a.state.revoked \subseteq b.state.revoked
         /\ \A i \in Slots : i < a.state.next =>
              RecordGrows(a.state.records[i], b.state.records[i])

LEMMA KeepsGrows ==
    ASSUME NEW a \in Disk, NEW b \in Disk, NEW s \in Signature, Grows(a, b)
    PROVE  /\ Keeps(a, s) => Keeps(b, s)
           /\ Backs(a, s) => Backs(b, s)
<1>1. /\ s.index \in Slots /\ s.key \in Keys
      /\ a.state # Absent => a.state.next \in 0..TreeSize
      /\ b.state # Absent => b.state.next \in 0..TreeSize
  BY DEF Signature, Disk, State, NextSlots
<1>2. s.key # Absent
  BY <1>1, RegistryNullAssumptions
<1>3. Keeps(a, s) => Keeps(b, s)
  BY <1>1, <1>2, RegistryAssumptions
     DEF Grows, Keeps, RecordGrows, Slots
<1>4. Backs(a, s) => Backs(b, s)
  BY <1>1, <1>3 DEF Grows, Keeps, Backs, RecordGrows
<1> QED BY <1>3, <1>4

\* One more record, or one more signature, makes a larger state.
LEMMA AppendedFacts ==
    ASSUME NEW st \in State, NEW r \in Record, st.next < TreeSize
    PROVE  /\ Appended(st, r) \in State
           /\ Appended(st, r).key = st.key
           /\ Appended(st, r).next = st.next + 1
           /\ Appended(st, r).revoked = st.revoked
           /\ Appended(st, r).records = [st.records EXCEPT ![st.next] = r]
<1>1. TreeSize \in Nat
  BY RegistryAssumptions
<1>2. /\ st.key \in Keys /\ st.next \in 0..TreeSize
      /\ st.records \in [Slots -> Record \cup {NoRecord}]
      /\ st.revoked \in SUBSET Slots
      /\ st = [key |-> st.key, next |-> st.next, records |-> st.records,
               revoked |-> st.revoked]
  BY DEF State, NextSlots
<1>3. st.next + 1 \in 0..TreeSize
  BY <1>1, <1>2
<1> DEFINE next == st.next + 1
           records == [st.records EXCEPT ![st.next] = r]
<1>4. records \in [Slots -> Record \cup {NoRecord}]
  BY <1>2
<1>5. Appended(st, r) = [st EXCEPT !.next = next, !.records = records]
  BY DEF Appended
<1> HIDE DEF next, records
<1>6. /\ Appended(st, r) \in State
      /\ Appended(st, r).key = st.key
      /\ Appended(st, r).next = next
      /\ Appended(st, r).revoked = st.revoked
      /\ Appended(st, r).records = records
  BY <1>3, <1>4, <1>5 DEF State, NextSlots, next
<1> QED BY <1>6 DEF next, records

LEMMA CompletedFacts ==
    ASSUME NEW st \in State, NEW i \in Slots, st.records[i] \in Record
    PROVE  LET r == [holder |-> st.records[i].holder, signature |-> "made"] IN
           /\ r \in Record
           /\ Completed(st, i) \in State
           /\ Completed(st, i).key = st.key
           /\ Completed(st, i).next = st.next
           /\ Completed(st, i).revoked = st.revoked
           /\ Completed(st, i).records = [st.records EXCEPT ![i] = r]
<1> DEFINE r == [holder |-> st.records[i].holder, signature |-> "made"]
<1>1. r \in Record
  BY DEF Record
<1>2. /\ st.key \in Keys /\ st.next \in NextSlots
      /\ st.records \in [Slots -> Record \cup {NoRecord}]
      /\ st.revoked \in SUBSET Slots
      /\ st = [key |-> st.key, next |-> st.next, records |-> st.records,
               revoked |-> st.revoked]
  BY DEF State
<1>3. Completed(st, i) =
        [key |-> st.key, next |-> st.next,
         records |-> [st.records EXCEPT ![i] = r], revoked |-> st.revoked]
  BY <1>2 DEF Completed
<1> HIDE DEF r
<1>4. [st.records EXCEPT ![i] = r] \in [Slots -> Record \cup {NoRecord}]
  BY <1>1, <1>2
<1>5. /\ Completed(st, i) \in State
      /\ Completed(st, i).key = st.key
      /\ Completed(st, i).next = st.next
      /\ Completed(st, i).revoked = st.revoked
      /\ Completed(st, i).records = [st.records EXCEPT ![i] = r]
  BY <1>2, <1>3, <1>4 DEF State
<1> QED BY <1>1, <1>5 DEF r

\* A command that publishes a disk that grew owes the invariant only what
\* concerns itself: nobody else holds the lock.
LEMMA PublishPreserves ==
    ASSUME RegistryInv, RegistryTypeOK',
           NEW c \in Commands, lock = c, lock' = c, step'[c] \in Working,
           \A d \in Commands \ {c} :
               /\ step'[d] = step[d] /\ unsynced'[d] = unsynced[d]
               /\ slot'[d] = slot[d],
           Grows(visible, visible'), visible'.out = visible.out,
           \/ visible'.snapshot = visible.snapshot
           \/ /\ visible.state # Absent
              /\ visible'.snapshot = [revoked |-> visible.state.revoked],
           durable' = durable, signatures' = signatures,
           OpenInv(c)', IssueInv(c)', RevokeInv(c)'
    PROVE  RegistryInv'
<1> USE RegistryAssumptions, RegistryNullAssumptions
<1>0. /\ RegistryTypeOK /\ NoIndexSignedTwice /\ SignaturesKept /\ ReleasedBacked
      /\ \A d \in Commands :
           LockInv(d) /\ OpenInv(d) /\ IssueInv(d) /\ RevokeInv(d)
      /\ visible \in Disk /\ visible' \in Disk
      /\ signatures \subseteq Signature
  BY DEF RegistryInv, RegistryTypeOK
<1>1. NoIndexSignedTwice'
  BY <1>0 DEF NoIndexSignedTwice
<1>2. SignaturesKept'
  BY <1>0, KeepsGrows DEF SignaturesKept, Keeps
<1>3. ReleasedBacked'
  <2>1. ASSUME NEW d \in Commands,
               NEW o \in {visible'.out[d], durable'.out[d]}, o # Absent
        PROVE  o \in signatures' /\ Backs(visible', o) /\ Backs(durable', o)
    <3>1. o \in {visible.out[d], durable.out[d]}
      BY <1>0
    <3>2. o \in signatures /\ Backs(visible, o) /\ Backs(durable, o)
      BY <1>0, <2>1, <3>1 DEF ReleasedBacked
    <3> QED BY <1>0, <3>2, KeepsGrows
  <2>2. \A d \in Commands : \A o \in {visible'.out[d], durable'.out[d]} :
          o # Absent => o \in signatures' /\ Backs(visible', o) /\ Backs(durable', o)
    BY <2>1
  <2> QED BY <2>2 DEF ReleasedBacked, Backs, Keeps
<1>4. ASSUME NEW d \in Commands PROVE LockInv(d)'
  BY <1>0 DEF LockInv
<1>5. ASSUME NEW d \in Commands, d # c
      PROVE  OpenInv(d)' /\ IssueInv(d)' /\ RevokeInv(d)'
  <2>1. step[d] \notin Working /\ step'[d] = step[d] /\ step[d] \in Steps
    <3>1. LockInv(d) /\ step[d] \in Steps
      BY <1>0 DEF RegistryTypeOK
    <3> QED BY <1>5, <3>1 DEF LockInv
  <2>2. OpenInv(d)' /\ IssueInv(d)'
    <3>1. step'[d] \in {"start", "done", "failed"}
      BY <2>1 DEF Working
    <3> QED BY <3>1 DEF OpenInv, IssueInv
  <2>3. RevokeInv(d)'
    <3>1. Op[d] = "revoke" /\ step'[d] = "done" =>
            /\ Revoked(visible, Target[d]) /\ Published(visible, Target[d])
            /\ Revoked(durable, Target[d]) /\ Published(durable, Target[d])
      BY <1>0, <2>1 DEF RevokeInv
    <3>2. ASSUME Revoked(visible, Target[d]), Published(visible, Target[d])
          PROVE  Revoked(visible', Target[d]) /\ Published(visible', Target[d])
      <4>1. Revoked(visible', Target[d])
        BY <3>2 DEF Revoked, Grows
      <4>2. visible.state \in State /\ Target[d] \in visible.state.revoked
        BY <1>0, <3>2 DEF Revoked, Disk
      <4>3. [revoked |-> visible.state.revoked] # Absent
        BY <4>2 DEF State, SnapshotFile
      <4> QED BY <3>2, <4>1, <4>2, <4>3 DEF Published
    <3> QED
      BY <2>1, <3>1, <3>2 DEF RevokeInv, Working, Steps, Revoked, Published
  <2> QED BY <2>2, <2>3
<1> QED
  BY <1>0, <1>1, <1>2, <1>3, <1>4, <1>5 DEF RegistryInv

\* What was released stays backed while the disks stay and signatures grow.
LEMMA ReleasedFrame ==
    ASSUME ReleasedBacked, visible' = visible, durable' = durable,
           signatures \subseteq signatures'
    PROVE  ReleasedBacked'
<1>1. ASSUME NEW d \in Commands,
             NEW o \in {visible.out[d], durable.out[d]}, o # Absent
      PROVE  o \in signatures' /\ Backs(visible, o) /\ Backs(durable, o)
  BY <1>1 DEF ReleasedBacked
<1>2. \A d \in Commands : \A o \in {visible'.out[d], durable'.out[d]} :
        o # Absent => o \in signatures' /\ Backs(visible', o) /\ Backs(durable', o)
  BY <1>1
<1> QED
  BY <1>2 DEF ReleasedBacked, Backs, Keeps

\* A step that writes nothing and signs nothing.
LEMMA IdlePreserves ==
    ASSUME RegistryInv, RegistryTypeOK', NEW c \in Commands,
           UNCHANGED <<visible, durable, unsynced, slot, signatures>>,
           \A d \in Commands \ {c} : step'[d] = step[d],
           \A d \in Commands : LockInv(d)',
           OpenInv(c)', IssueInv(c)', RevokeInv(c)'
    PROVE  RegistryInv'
<1>0. /\ RegistryTypeOK /\ NoIndexSignedTwice /\ SignaturesKept /\ ReleasedBacked
      /\ \A d \in Commands :
           LockInv(d) /\ OpenInv(d) /\ IssueInv(d) /\ RevokeInv(d)
  BY DEF RegistryInv
<1>1. NoIndexSignedTwice' /\ SignaturesKept' /\ ReleasedBacked'
  <2>1. NoIndexSignedTwice' /\ SignaturesKept'
    BY <1>0 DEF NoIndexSignedTwice, SignaturesKept, Keeps
  <2>2. ReleasedBacked'
    BY <1>0, ReleasedFrame
  <2> QED BY <2>1, <2>2
<1>2. ASSUME NEW d \in Commands, d # c
      PROVE  OpenInv(d)' /\ IssueInv(d)' /\ RevokeInv(d)'
  BY <1>0, <1>2 DEF OpenInv, DirectoryEmpty, Opened, IssueInv, StateIsDurable,
                    SignatureOf, RevokeInv, Revoked, Published
<1> QED BY <1>1, <1>2 DEF RegistryInv

-----------------------------------------------------------------------------
LEMMA InitRegistryInv == RegistryInit => RegistryInv
<1> SUFFICES ASSUME RegistryInit PROVE RegistryInv
  OBVIOUS
<1> USE RegistryAssumptions, RegistryNullAssumptions
<1>1. EmptyDisk \in Disk
  BY DEF EmptyDisk, Disk
<1>2. RegistryTypeOK
  BY <1>1 DEF RegistryInit, RegistryTypeOK, Steps
<1>3. NoIndexSignedTwice /\ SignaturesKept
  BY DEF RegistryInit, NoIndexSignedTwice, SignaturesKept
<1>4. ReleasedBacked
  BY DEF RegistryInit, EmptyDisk, ReleasedBacked
<1>5. ASSUME NEW c \in Commands
      PROVE  LockInv(c) /\ OpenInv(c) /\ IssueInv(c) /\ RevokeInv(c)
  BY DEF RegistryInit, LockInv, OpenInv, IssueInv, RevokeInv, Working
<1> QED BY <1>2, <1>3, <1>4, <1>5 DEF RegistryInv

-----------------------------------------------------------------------------
(* One lemma per group of commands' steps.                                 *)

\* What the invariant says of a command that is running.
LEMMA Running ==
    ASSUME RegistryInv, NEW c \in Commands, step[c] \in Working
    PROVE  /\ lock = c
           /\ visible \in Disk /\ durable \in Disk
           /\ OpenInv(c) /\ IssueInv(c) /\ RevokeInv(c)
BY DEF RegistryInv, RegistryTypeOK, LockInv

LEMMA CreateKeyIInv ==
    ASSUME RegistryInv, NEW c \in Commands, CreateKey(c)
    PROVE  RegistryInv'
<1> USE RegistryAssumptions, RegistryNullAssumptions
<1>1. /\ Op[c] = "init" /\ step[c] = "locked"
      /\ visible' = [visible EXCEPT !.key = c]
      /\ step' = [step EXCEPT ![c] = "keyed"]
      /\ unsynced' = [unsynced EXCEPT ![c] = TRUE]
      /\ UNCHANGED <<durable, lock, slot, signatures>>
  BY DEF CreateKey, Publish
<1>2. /\ lock = c /\ visible \in Disk /\ DirectoryEmpty /\ RegistryTypeOK
  BY <1>1, Running DEF Working, Steps, OpenInv, RegistryInv
<1>3. /\ visible' \in Disk /\ visible'.key = c /\ visible'.state = Absent
      /\ visible'.out = visible.out /\ visible'.snapshot = visible.snapshot
  BY <1>1, <1>2 DEF Disk, Keys, DirectoryEmpty
<1>4. step'[c] = "keyed" /\ RegistryTypeOK'
  BY <1>1, <1>2, <1>3 DEF RegistryTypeOK, Steps
<1>5. Grows(visible, visible')
  BY <1>1, <1>2 DEF Grows, DirectoryEmpty
<1>6. OpenInv(c)' /\ IssueInv(c)' /\ RevokeInv(c)'
  BY <1>1, <1>3, <1>4 DEF OpenInv, IssueInv, RevokeInv
<1> QED
  BY <1>1, <1>2, <1>3, <1>4, <1>5, <1>6, PublishPreserves DEF Working, Steps, RegistryTypeOK

LEMMA PublishKeyIInv ==
    ASSUME RegistryInv, NEW c \in Commands, PublishKey(c)
    PROVE  RegistryInv'
<1> USE RegistryAssumptions, RegistryNullAssumptions
<1>1. /\ Op[c] = "init" /\ step[c] = "keyed"
      /\ visible' = [visible EXCEPT !.public = c]
      /\ step' = [step EXCEPT ![c] = "published"]
      /\ unsynced' = [unsynced EXCEPT ![c] = TRUE]
      /\ UNCHANGED <<durable, lock, slot, signatures>>
  BY DEF PublishKey, Publish
<1>2. /\ lock = c /\ visible \in Disk /\ RegistryTypeOK
      /\ visible.key = c /\ visible.state = Absent
  BY <1>1, Running DEF Working, Steps, OpenInv, RegistryInv
<1>3. /\ visible' \in Disk /\ visible'.key = c /\ visible'.state = Absent
      /\ visible'.out = visible.out /\ visible'.snapshot = visible.snapshot
  BY <1>1, <1>2 DEF Disk, Keys
<1>4. step'[c] = "published" /\ RegistryTypeOK'
  BY <1>1, <1>2, <1>3 DEF RegistryTypeOK, Steps
<1>5. Grows(visible, visible')
  BY <1>1, <1>2, <1>3 DEF Grows
<1>6. OpenInv(c)' /\ IssueInv(c)' /\ RevokeInv(c)'
  BY <1>1, <1>3, <1>4 DEF OpenInv, IssueInv, RevokeInv
<1> QED
  BY <1>1, <1>2, <1>3, <1>4, <1>5, <1>6, PublishPreserves DEF Working, Steps, RegistryTypeOK

LEMMA SaveFreshIInv ==
    ASSUME RegistryInv, NEW c \in Commands, SaveFresh(c)
    PROVE  RegistryInv'
<1> USE RegistryAssumptions, RegistryNullAssumptions
<1>1. /\ Op[c] = "init" /\ step[c] = "published"
      /\ visible' = [visible EXCEPT !.state = FreshState(c)]
      /\ step' = [step EXCEPT ![c] = "saved"]
      /\ unsynced' = [unsynced EXCEPT ![c] = TRUE]
      /\ UNCHANGED <<durable, lock, slot, signatures>>
  BY DEF SaveFresh, Publish
<1>2. /\ lock = c /\ visible \in Disk /\ RegistryTypeOK
      /\ visible.key = c /\ visible.state = Absent
  BY <1>1, Running DEF Working, Steps, OpenInv, RegistryInv
<1>3. FreshState(c) \in State
  BY DEF FreshState, State, Keys, NextSlots
<1>4. /\ visible' \in Disk /\ visible'.key = c
      /\ visible'.state = FreshState(c)
      /\ visible'.out = visible.out /\ visible'.snapshot = visible.snapshot
  BY <1>1, <1>2, <1>3 DEF Disk, Keys
<1>5. step'[c] = "saved" /\ RegistryTypeOK'
  BY <1>1, <1>2, <1>4 DEF RegistryTypeOK, Steps
<1>6. Grows(visible, visible')
  BY <1>2, <1>4 DEF Grows
<1>7. OpenInv(c)' /\ IssueInv(c)' /\ RevokeInv(c)'
  <2>1. c # Absent /\ FreshState(c) # Absent /\ FreshState(c).key = c
    BY <1>3 DEF FreshState, Keys
  <2>2. Opened'
    BY <1>4, <2>1 DEF Opened
  <2> QED
    BY <1>1, <1>5, <2>2 DEF OpenInv, IssueInv, RevokeInv
<1> QED
  BY <1>1, <1>2, <1>4, <1>5, <1>6, <1>7, PublishPreserves DEF Working, Steps, RegistryTypeOK

LEMMA ReserveIInv ==
    ASSUME RegistryInv, NEW c \in Commands, Reserve(c)
    PROVE  RegistryInv'
<1> USE RegistryAssumptions, RegistryNullAssumptions
<1> DEFINE i == visible.state.next
           r == [holder |-> Holder[c], signature |-> "none"]
<1>1. /\ Op[c] = "issue" /\ step[c] = "locked" /\ i < TreeSize
      /\ visible' = [visible EXCEPT !.state = Appended(visible.state, r)]
      /\ step' = [step EXCEPT ![c] = "reserved"]
      /\ unsynced' = [unsynced EXCEPT ![c] = TRUE]
      /\ slot' = [slot EXCEPT ![c] = i]
      /\ UNCHANGED <<durable, lock, signatures>>
  BY DEF Reserve, Publish
<1>2. /\ lock = c /\ visible \in Disk /\ RegistryTypeOK /\ SignaturesKept
      /\ Opened
  BY <1>1, Running DEF Working, Steps, OpenInv, RegistryInv
<1>3. /\ visible.state \in State /\ i \in Slots /\ i \in Nat
      /\ r \in Record
  BY <1>1, <1>2 DEF Opened, Disk, State, NextSlots, Slots, Record, Holders
<1> HIDE DEF r
<1>4. /\ visible'.key = visible.key
      /\ visible'.out = visible.out /\ visible'.snapshot = visible.snapshot
      /\ visible'.public = visible.public
      /\ visible'.state.key = visible.state.key
      /\ visible'.state.next = i + 1
      /\ visible'.state.revoked = visible.state.revoked
      /\ visible'.state.records = [visible.state.records EXCEPT ![i] = r]
      /\ visible'.state \in State
      /\ visible' \in Disk
  <2>1. /\ Appended(visible.state, r) \in State
        /\ Appended(visible.state, r).key = visible.state.key
        /\ Appended(visible.state, r).next = i + 1
        /\ Appended(visible.state, r).revoked = visible.state.revoked
        /\ Appended(visible.state, r).records
             = [visible.state.records EXCEPT ![i] = r]
    BY <1>1, <1>3, AppendedFacts
  <2> QED BY <1>1, <1>2, <2>1 DEF Disk
<1>5. step'[c] = "reserved" /\ slot'[c] = i /\ unsynced'[c] = TRUE /\ RegistryTypeOK'
  BY <1>1, <1>2, <1>3, <1>4 DEF RegistryTypeOK, Steps
<1>6. Grows(visible, visible')
  <2>1. visible'.state # Absent
    BY <1>4
  <2>2. ASSUME NEW j \in Slots, j < i
        PROVE  visible'.state.records[j] = visible.state.records[j]
    BY <1>3, <1>4, <2>2 DEF State
  <2> QED BY <1>3, <1>4, <2>1, <2>2 DEF Grows, RecordGrows
<1>7. OpenInv(c)'
  BY <1>1, <1>2, <1>4, <1>5 DEF OpenInv, Opened
<1>8. IssueInv(c)'
  <2>1. \A s \in signatures : s.index # i
    BY <1>2, <1>3 DEF SignaturesKept, Keeps, RegistryTypeOK, Signature, Slots
  <2>2. visible'.state.records[i] = r
    BY <1>3, <1>4 DEF State
  <2> QED
    BY <1>1, <1>3, <1>4, <1>5, <2>1, <2>2 DEF IssueInv, r
<1>9. RevokeInv(c)'
  BY <1>1 DEF RevokeInv
<1> QED
  BY <1>1, <1>2, <1>4, <1>5, <1>6, <1>7, <1>8, <1>9, PublishPreserves
     DEF Working, Steps, RegistryTypeOK

\* Signing changes no file: the reservation is durable already.
LEMMA SignIInv ==
    ASSUME RegistryInv, NEW c \in Commands, Sign(c)
    PROVE  RegistryInv'
<1> USE RegistryAssumptions, RegistryNullAssumptions
<1> DEFINE s == SignatureOf(c)
<1>1. /\ step[c] = "reserved" /\ ~unsynced[c]
      /\ signatures' = signatures \cup {s}
      /\ step' = [step EXCEPT ![c] = "signed"]
      /\ UNCHANGED <<visible, durable, lock, unsynced, slot>>
  BY DEF Sign, Reserved
<1>2. /\ RegistryTypeOK /\ NoIndexSignedTwice /\ SignaturesKept /\ ReleasedBacked
      /\ \A d \in Commands :
           LockInv(d) /\ OpenInv(d) /\ IssueInv(d) /\ RevokeInv(d)
  BY DEF RegistryInv
<1>3. /\ Opened /\ visible \in Disk /\ Op[c] = "issue"
      /\ slot[c] < visible.state.next
      /\ visible.state.records[slot[c]]
           = [holder |-> Holder[c], signature |-> "none"]
      /\ \A t \in signatures : t.index # slot[c]
      /\ StateIsDurable
  BY <1>1, <1>2 DEF OpenInv, IssueInv, RegistryTypeOK
<1>4. /\ s \in Signature /\ s.index = slot[c] /\ s.key = visible.key
      /\ s.holder = Holder[c]
  <2>1. /\ visible.key \in Keys /\ visible.state.next \in 0..TreeSize
        /\ slot[c] \in Nat /\ Holder[c] \in Holders
    BY <1>2, <1>3 DEF Opened, Disk, State, NextSlots, RegistryTypeOK, Holders
  <2>2. slot[c] \in Slots
    BY <1>3, <2>1 DEF Slots
  <2> QED BY <2>1, <2>2 DEF SignatureOf, Signature
<1>5. Keeps(visible, s) /\ Keeps(durable, s)
  BY <1>3, <1>4 DEF Opened, Keeps, StateIsDurable, Record, Holders
<1> HIDE DEF s
<1>6. RegistryTypeOK'
  BY <1>1, <1>2, <1>4 DEF RegistryTypeOK, Steps
<1>7. NoIndexSignedTwice'
  BY <1>1, <1>2, <1>3, <1>4 DEF NoIndexSignedTwice, SignaturesKept, Keeps
<1>8. SignaturesKept'
  BY <1>1, <1>2, <1>5 DEF SignaturesKept, Keeps
<1>9. ReleasedBacked'
  <2>1. visible' = visible /\ durable' = durable
    BY <1>1
  <2>2. signatures \subseteq signatures'
    BY <1>1
  <2>3. ReleasedBacked
    BY <1>2
  <2> QED BY <2>1, <2>2, <2>3, ReleasedFrame
<1>10. lock = c /\ step'[c] = "signed" /\ (\A d \in Commands \ {c} : step'[d] = step[d])
  BY <1>1, <1>2, Running DEF Working, Steps, RegistryTypeOK
<1>11. ASSUME NEW d \in Commands PROVE LockInv(d)' /\ OpenInv(d)' /\ RevokeInv(d)'
  <2>1. CASE d = c
    BY <1>1, <1>2, <1>3, <1>10, <2>1
       DEF LockInv, OpenInv, Opened, RevokeInv, Working, Steps
  <2>2. CASE d # c
    BY <1>1, <1>2, <1>10, <2>2
       DEF LockInv, OpenInv, Opened, DirectoryEmpty, RevokeInv, Revoked,
           Published
  <2> QED BY <2>1, <2>2
<1>12. ASSUME NEW d \in Commands PROVE IssueInv(d)'
  <2>1. CASE d = c
    BY <1>1, <1>10, <2>1 DEF IssueInv, SignatureOf, s
  <2>2. CASE d # c
    <3>1. step[d] \notin Working /\ step'[d] = step[d]
      BY <1>2, <1>10, <2>2 DEF LockInv
    <3> QED BY <3>1 DEF IssueInv, Working, Steps
  <2> QED BY <2>1, <2>2
<1> QED
  BY <1>6, <1>7, <1>8, <1>9, <1>11, <1>12 DEF RegistryInv

LEMMA RecordSignatureIInv ==
    ASSUME RegistryInv, NEW c \in Commands, RecordSignature(c)
    PROVE  RegistryInv'
<1> USE RegistryAssumptions, RegistryNullAssumptions
<1> DEFINE i == slot[c]
           st == Completed(visible.state, i)
<1>1. /\ step[c] = "signed"
      /\ visible' = [visible EXCEPT !.state = st]
      /\ step' = [step EXCEPT ![c] = "recorded"]
      /\ unsynced' = [unsynced EXCEPT ![c] = TRUE]
      /\ UNCHANGED <<durable, lock, slot, signatures>>
  BY DEF RecordSignature, Publish
<1>2. /\ lock = c /\ visible \in Disk /\ RegistryTypeOK /\ SignaturesKept
      /\ Opened /\ SignatureOf(c) \in signatures /\ Op[c] = "issue"
  BY <1>1, Running DEF Working, Steps, OpenInv, IssueInv, RegistryInv
<1>3. /\ visible.state \in State /\ i \in Slots
      /\ visible.state.records[i] \in Record
  BY <1>2 DEF Opened, Disk, SignaturesKept, Keeps, SignatureOf, RegistryTypeOK,
              Signature
<1>4. /\ st \in State /\ st.key = visible.state.key
      /\ st.next = visible.state.next /\ st.revoked = visible.state.revoked
      /\ \A j \in Slots : RecordGrows(visible.state.records[j], st.records[j])
      /\ st.records[i].signature = "made"
  <2>1. /\ st.records = [visible.state.records EXCEPT ![i] =
             [holder |-> visible.state.records[i].holder, signature |-> "made"]]
        /\ [holder |-> visible.state.records[i].holder, signature |-> "made"]
             \in Record
    BY <1>3, CompletedFacts
  <2>2. visible.state.records \in [Slots -> Record \cup {NoRecord}]
    BY <1>3 DEF State
  <2> QED BY <1>3, <2>1, <2>2, CompletedFacts DEF RecordGrows
<1> HIDE DEF st
<1>5. /\ visible'.state = st /\ visible'.key = visible.key
      /\ visible'.out = visible.out /\ visible'.snapshot = visible.snapshot
      /\ visible' \in Disk
  BY <1>1, <1>2, <1>4 DEF Disk
<1>6. step'[c] = "recorded" /\ unsynced'[c] = TRUE /\ RegistryTypeOK'
  BY <1>1, <1>2, <1>5 DEF RegistryTypeOK, Steps
<1>7. Grows(visible, visible')
  <2>1. visible.state.next \in Nat /\ st # Absent
    BY <1>3, <1>4 DEF State, NextSlots
  <2> QED BY <1>4, <1>5, <2>1 DEF Grows
<1>8. OpenInv(c)'
  BY <1>1, <1>2, <1>4, <1>5, <1>6 DEF OpenInv, Opened
<1>9. IssueInv(c)'
  BY <1>1, <1>2, <1>4, <1>5, <1>6 DEF IssueInv, SignatureOf
<1>10. RevokeInv(c)'
  BY <1>2 DEF RevokeInv
<1> QED
  BY <1>1, <1>2, <1>5, <1>6, <1>7, <1>8, <1>9, <1>10, PublishPreserves
     DEF Working, Steps, RegistryTypeOK

\* The credential leaves: what it rests on is durable by then.
LEMMA ReleaseIInv ==
    ASSUME RegistryInv, NEW c \in Commands, Release(c)
    PROVE  RegistryInv'
<1> USE RegistryAssumptions, RegistryNullAssumptions
<1> DEFINE s == SignatureOf(c)
<1>1. /\ step[c] = "recorded" /\ ~unsynced[c]
      /\ visible' = [visible EXCEPT !.out[c] = s]
      /\ step' = [step EXCEPT ![c] = "finishing"]
      /\ unsynced' = [unsynced EXCEPT ![c] = TRUE]
      /\ UNCHANGED <<durable, lock, slot, signatures>>
  BY DEF Release, Publish
<1>2. /\ RegistryTypeOK /\ NoIndexSignedTwice /\ SignaturesKept /\ ReleasedBacked
      /\ \A d \in Commands :
           LockInv(d) /\ OpenInv(d) /\ IssueInv(d) /\ RevokeInv(d)
  BY DEF RegistryInv
<1>3. /\ lock = c /\ visible \in Disk /\ durable \in Disk /\ Op[c] = "issue"
      /\ Opened /\ s \in signatures /\ s \in Signature /\ s.index = slot[c]
      /\ visible.state.records[slot[c]].signature = "made" /\ StateIsDurable
  BY <1>1, <1>2, Running
     DEF Working, Steps, OpenInv, IssueInv, SignatureOf, RegistryTypeOK
<1>4. Backs(visible, s) /\ Backs(durable, s)
  BY <1>2, <1>3 DEF Backs, SignaturesKept, Keeps, StateIsDurable
<1> HIDE DEF s
<1>5. /\ visible'.state = visible.state /\ visible'.key = visible.key
      /\ visible'.snapshot = visible.snapshot
      /\ visible'.out = [visible.out EXCEPT ![c] = s]
      /\ visible' \in Disk
  BY <1>1, <1>3 DEF Disk
<1>6. RegistryTypeOK'
  BY <1>1, <1>2, <1>5 DEF RegistryTypeOK, Steps
<1>7. NoIndexSignedTwice' /\ SignaturesKept'
  BY <1>1, <1>2, <1>5 DEF NoIndexSignedTwice, SignaturesKept, Keeps
<1>8. ReleasedBacked'
  <2> SUFFICES ASSUME NEW d \in Commands,
                      NEW o \in {visible'.out[d], durable.out[d]}, o # Absent
               PROVE  o \in signatures /\ Backs(visible, o) /\ Backs(durable, o)
    <3>1. \A o : Backs(visible, o) => Backs(visible', o)
      BY <1>5 DEF Backs, Keeps
    <3>2. \A o : Backs(durable, o) => Backs(durable', o)
      BY <1>1 DEF Backs, Keeps
    <3> QED BY <1>1, <3>1, <3>2 DEF ReleasedBacked
  <2>1. o = s \/ o \in {visible.out[d], durable.out[d]}
    BY <1>3, <1>5 DEF Disk
  <2> QED BY <1>2, <1>3, <1>4, <2>1 DEF ReleasedBacked
<1>9. step'[c] = "finishing" /\ (\A d \in Commands \ {c} : step'[d] = step[d]
                                     /\ unsynced'[d] = unsynced[d])
  BY <1>1, <1>2 DEF RegistryTypeOK
<1>10. ASSUME NEW d \in Commands
       PROVE  LockInv(d)' /\ OpenInv(d)' /\ IssueInv(d)' /\ RevokeInv(d)'
  <2>1. CASE d = c
    BY <1>1, <1>3, <1>5, <1>9, <2>1
       DEF LockInv, OpenInv, Opened, IssueInv, RevokeInv, Working, Steps
  <2>2. CASE d # c
    <3>1. /\ step[d] \notin Working /\ step'[d] = step[d] /\ lock' # d
          /\ unsynced'[d] = unsynced[d]
      BY <1>1, <1>2, <1>3, <1>9, <2>2 DEF LockInv
    <3>2. LockInv(d)' /\ OpenInv(d)' /\ IssueInv(d)'
      BY <3>1 DEF LockInv, OpenInv, IssueInv, Working, Steps
    <3>3. RevokeInv(d)'
      BY <1>1, <1>2, <1>5, <3>1
         DEF RevokeInv, Revoked, Published, Working, Steps
    <3> QED BY <3>2, <3>3
  <2> QED BY <2>1, <2>2
<1> QED BY <1>6, <1>7, <1>8, <1>10 DEF RegistryInv

LEMMA RevokeIInv ==
    ASSUME RegistryInv, NEW c \in Commands, Revoke(c)
    PROVE  RegistryInv'
<1> USE RegistryAssumptions, RegistryNullAssumptions
<1> DEFINE st == [visible.state EXCEPT !.revoked = @ \cup {Target[c]}]
<1>1. /\ Op[c] = "revoke" /\ step[c] = "locked"
      /\ Target[c] < visible.state.next
      /\ visible' = [visible EXCEPT !.state = st]
      /\ step' = [step EXCEPT ![c] = "saved"]
      /\ unsynced' = [unsynced EXCEPT ![c] = TRUE]
      /\ UNCHANGED <<durable, lock, slot, signatures>>
  BY DEF Revoke, Publish, Allocated
<1>2. /\ lock = c /\ visible \in Disk /\ RegistryTypeOK /\ Opened
  BY <1>1, Running DEF Working, Steps, OpenInv, RegistryInv
<1>3. visible.state \in State /\ Target[c] \in Slots
  <2>1. visible.state \in State
    BY <1>2 DEF Opened, Disk
  <2>2. visible.state.next \in 0..TreeSize /\ Target[c] \in Nat
    BY <2>1 DEF State, NextSlots
  <2> QED BY <1>1, <2>1, <2>2 DEF Slots
<1>4. /\ st \in State /\ st.key = visible.state.key
      /\ st.next = visible.state.next /\ st.records = visible.state.records
      /\ st.revoked = visible.state.revoked \cup {Target[c]}
  BY <1>3 DEF State
<1> HIDE DEF st
<1>5. /\ visible'.state = st /\ visible'.key = visible.key
      /\ visible'.out = visible.out /\ visible'.snapshot = visible.snapshot
      /\ visible' \in Disk
  BY <1>1, <1>2, <1>4 DEF Disk
<1>6. step'[c] = "saved" /\ RegistryTypeOK'
  BY <1>1, <1>2, <1>5 DEF RegistryTypeOK, Steps
<1>7. Grows(visible, visible') /\ st # Absent
  <2>1. visible.state.next \in Nat /\ st # Absent
    BY <1>3, <1>4 DEF State, NextSlots
  <2> QED BY <1>4, <1>5, <2>1 DEF Grows, RecordGrows
<1>8. OpenInv(c)' /\ IssueInv(c)'
  BY <1>1, <1>2, <1>4, <1>5, <1>6, <1>7 DEF OpenInv, Opened, IssueInv
<1>9. RevokeInv(c)'
  BY <1>4, <1>5, <1>6, <1>7 DEF RevokeInv, Revoked
<1> QED
  BY <1>1, <1>2, <1>5, <1>6, <1>7, <1>8, <1>9, PublishPreserves
     DEF Working, Steps, RegistryTypeOK

LEMMA SnapshotIInv ==
    ASSUME RegistryInv, NEW c \in Commands, Snapshot(c)
    PROVE  RegistryInv'
<1> USE RegistryAssumptions, RegistryNullAssumptions
<1> DEFINE f == [revoked |-> visible.state.revoked]
<1>1. /\ Op[c] # "issue"
      /\ step[c] = "saved" \/ (step[c] = "locked" /\ Op[c] = "snapshot")
      /\ visible' = [visible EXCEPT !.snapshot = f]
      /\ step' = [step EXCEPT ![c] = "finishing"]
      /\ unsynced' = [unsynced EXCEPT ![c] = TRUE]
      /\ UNCHANGED <<durable, lock, slot, signatures>>
  BY DEF Snapshot, Publish
<1>2. /\ lock = c /\ visible \in Disk /\ RegistryTypeOK /\ Opened /\ RevokeInv(c)
  BY <1>1, Running DEF Working, Steps, OpenInv, RegistryInv
<1>3. visible.state \in State /\ f \in SnapshotFile /\ f # Absent
  BY <1>2 DEF Opened, Disk, State, SnapshotFile
<1>4. /\ visible'.state = visible.state /\ visible'.key = visible.key
      /\ visible'.out = visible.out /\ visible'.snapshot = f
      /\ visible' \in Disk
  BY <1>1, <1>2, <1>3 DEF Disk
<1>5. step'[c] = "finishing" /\ unsynced'[c] = TRUE /\ RegistryTypeOK'
  BY <1>1, <1>2, <1>4 DEF RegistryTypeOK, Steps
<1>6. Grows(visible, visible')
  BY <1>3, <1>4 DEF Grows, RecordGrows, State, NextSlots
<1>7. OpenInv(c)' /\ IssueInv(c)'
  BY <1>2, <1>4, <1>5 DEF OpenInv, Opened, IssueInv
<1>8. RevokeInv(c)'
  BY <1>1, <1>2, <1>3, <1>4, <1>5 DEF RevokeInv, Revoked, Published
<1> QED
  BY <1>1, <1>2, <1>4, <1>5, <1>6, <1>7, <1>8, PublishPreserves
     DEF Working, Steps, RegistryTypeOK, Opened

\* Steps that move a command without writing.
LEMMA AcquireIInv ==
    ASSUME RegistryInv, NEW c \in Commands, Acquire(c)
    PROVE  RegistryInv'
<1> USE RegistryAssumptions, RegistryNullAssumptions
<1>0. /\ RegistryTypeOK /\ \A d \in Commands : LockInv(d)
      /\ step[c] = "start" /\ lock = Nobody
      /\ UNCHANGED <<visible, durable, unsynced, slot, signatures>>
  BY DEF RegistryInv, Acquire
<1>1. CASE /\ IF Op[c] = "init" THEN DirectoryEmpty ELSE Loads
           /\ lock' = c /\ step' = [step EXCEPT ![c] = "locked"]
  <2>1. RegistryTypeOK' /\ step'[c] = "locked"
        /\ \A d \in Commands \ {c} : step'[d] = step[d]
    BY <1>0, <1>1 DEF RegistryTypeOK, Steps
  <2>2. ASSUME NEW d \in Commands PROVE LockInv(d)'
    BY <1>0, <1>1, <2>1 DEF LockInv, Working, Steps
  <2>3. OpenInv(c)' /\ IssueInv(c)' /\ RevokeInv(c)'
    BY <1>0, <1>1, <2>1
       DEF OpenInv, Opened, Loads, DirectoryEmpty, IssueInv, RevokeInv
  <2> QED BY <1>0, <2>1, <2>2, <2>3, IdlePreserves
<1>2. CASE step' = [step EXCEPT ![c] = "failed"] /\ UNCHANGED lock
  <2>1. RegistryTypeOK' /\ step'[c] = "failed"
        /\ \A d \in Commands \ {c} : step'[d] = step[d]
    BY <1>0, <1>2 DEF RegistryTypeOK, Steps
  <2>2. ASSUME NEW d \in Commands PROVE LockInv(d)'
    BY <1>0, <1>2, <2>1 DEF LockInv, Working, Steps
  <2>3. OpenInv(c)' /\ IssueInv(c)' /\ RevokeInv(c)'
    BY <2>1 DEF OpenInv, IssueInv, RevokeInv
  <2> QED BY <1>0, <2>1, <2>2, <2>3, IdlePreserves
<1> QED BY <1>1, <1>2 DEF Acquire

LEMMA StopIInv ==
    ASSUME RegistryInv, NEW c \in Commands, Stop(c)
    PROVE  RegistryInv'
<1> USE RegistryAssumptions, RegistryNullAssumptions
<1>0. /\ RegistryTypeOK /\ \A d \in Commands : LockInv(d)
      /\ step' = [step EXCEPT ![c] = "failed"]
      /\ lock' = IF lock = c THEN Nobody ELSE lock
      /\ UNCHANGED <<visible, durable, unsynced, slot, signatures>>
  BY DEF RegistryInv, Stop
<1>1. RegistryTypeOK' /\ step'[c] = "failed"
      /\ \A d \in Commands \ {c} : step'[d] = step[d]
  BY <1>0 DEF RegistryTypeOK, Steps
<1>2. ASSUME NEW d \in Commands PROVE LockInv(d)'
  BY <1>0, <1>1 DEF LockInv, Working, Steps
<1>3. OpenInv(c)' /\ IssueInv(c)' /\ RevokeInv(c)'
  BY <1>1 DEF OpenInv, IssueInv, RevokeInv
<1> QED BY <1>0, <1>1, <1>2, <1>3, IdlePreserves

LEMMA FinishIInv ==
    ASSUME RegistryInv, NEW c \in Commands, Finish(c)
    PROVE  RegistryInv'
<1> USE RegistryAssumptions, RegistryNullAssumptions
<1>0. /\ RegistryTypeOK /\ (\A d \in Commands : LockInv(d)) /\ RevokeInv(c)
      /\ step[c] = "finishing" /\ ~unsynced[c]
      /\ step' = [step EXCEPT ![c] = "done"] /\ lock' = Nobody
      /\ UNCHANGED <<visible, durable, unsynced, slot, signatures>>
  BY DEF RegistryInv, Finish
<1>1. RegistryTypeOK' /\ step'[c] = "done"
      /\ \A d \in Commands \ {c} : step'[d] = step[d]
  BY <1>0 DEF RegistryTypeOK, Steps
<1>2. ASSUME NEW d \in Commands PROVE LockInv(d)'
  BY <1>0, <1>1 DEF LockInv, Working, Steps
<1>3. OpenInv(c)' /\ IssueInv(c)' /\ RevokeInv(c)'
  BY <1>0, <1>1 DEF OpenInv, IssueInv, RevokeInv, Revoked, Published
<1> QED BY <1>0, <1>1, <1>2, <1>3, IdlePreserves

LEMMA AlreadyRevokedIInv ==
    ASSUME RegistryInv, NEW c \in Commands, AlreadyRevoked(c)
    PROVE  RegistryInv'
<1> USE RegistryAssumptions, RegistryNullAssumptions
<1>0. /\ RegistryTypeOK /\ (\A d \in Commands : LockInv(d)) /\ OpenInv(c)
      /\ Op[c] = "revoke" /\ step[c] = "locked"
      /\ Target[c] \in visible.state.revoked
      /\ step' = [step EXCEPT ![c] = "saved"]
      /\ UNCHANGED <<visible, durable, lock, unsynced, slot, signatures>>
  BY DEF RegistryInv, AlreadyRevoked
<1>1. RegistryTypeOK' /\ step'[c] = "saved"
      /\ \A d \in Commands \ {c} : step'[d] = step[d]
  BY <1>0 DEF RegistryTypeOK, Steps
<1>2. ASSUME NEW d \in Commands PROVE LockInv(d)'
  BY <1>0, <1>1 DEF LockInv, Working, Steps
<1>3. OpenInv(c)' /\ IssueInv(c)' /\ RevokeInv(c)'
  BY <1>0, <1>1 DEF OpenInv, Opened, IssueInv, RevokeInv, Revoked
<1> QED BY <1>0, <1>1, <1>2, <1>3, IdlePreserves

\* The directory is synced: what is visible there is now durable.
LEMMA SyncIInv ==
    ASSUME RegistryInv, NEW c \in Commands, Sync(c)
    PROVE  RegistryInv'
<1> USE RegistryAssumptions, RegistryNullAssumptions
<1>1. /\ RegistryTypeOK /\ NoIndexSignedTwice /\ SignaturesKept /\ ReleasedBacked
      /\ \A d \in Commands :
           LockInv(d) /\ OpenInv(d) /\ IssueInv(d) /\ RevokeInv(d)
      /\ visible \in Disk /\ durable \in Disk
  BY DEF RegistryInv, RegistryTypeOK
<1>2. /\ lock = c /\ durable' = Synced(c)
      /\ unsynced' = [unsynced EXCEPT ![c] = FALSE]
      /\ UNCHANGED <<visible, lock, step, slot, signatures>>
  BY DEF Sync
<1>3. NoIndexSignedTwice' /\ (\A d \in Commands : LockInv(d)' /\ OpenInv(d)')
  BY <1>1, <1>2
     DEF NoIndexSignedTwice, LockInv, OpenInv, Opened, DirectoryEmpty
<1>4. /\ \A d \in Commands \ {c} : unsynced'[d] = unsynced[d]
      /\ \A d \in Commands \ {c} : step[d] \notin Working
  BY <1>1, <1>2 DEF RegistryTypeOK, LockInv
<1>5. CASE Op[c] = "issue" /\ step[c] = "finishing"
  <2>1. durable' = [durable EXCEPT !.out[c] = visible.out[c]]
    BY <1>2, <1>5 DEF Synced
  <2>2. /\ durable'.state = durable.state /\ durable'.key = durable.key
        /\ durable'.snapshot = durable.snapshot
        /\ durable'.out = [durable.out EXCEPT ![c] = visible.out[c]]
        /\ durable' \in Disk
    BY <1>1, <2>1 DEF Disk
  <2>3. RegistryTypeOK' /\ SignaturesKept'
    BY <1>1, <1>2, <2>2 DEF RegistryTypeOK, SignaturesKept, Keeps
  <2>4. ReleasedBacked'
    <3> SUFFICES ASSUME NEW d \in Commands,
                        NEW o \in {visible.out[d], durable'.out[d]}, o # Absent
                 PROVE  o \in signatures /\ Backs(visible, o) /\ Backs(durable, o)
      <4>1. \A o : Backs(durable, o) => Backs(durable', o)
        BY <2>2 DEF Backs, Keeps
      <4>2. \A o : Backs(visible, o) => Backs(visible', o)
        BY <1>2 DEF Backs, Keeps
      <4> QED BY <1>2, <4>1, <4>2 DEF ReleasedBacked
    <3>1. o \in {visible.out[d], durable.out[d]}
      BY <1>1, <2>2 DEF Disk
    <3> QED BY <1>1, <3>1 DEF ReleasedBacked
  <2>5. ASSUME NEW d \in Commands PROVE IssueInv(d)' /\ RevokeInv(d)'
    BY <1>1, <1>2, <1>4, <1>5, <2>2
       DEF IssueInv, RevokeInv, Revoked, Published, StateIsDurable,
           SignatureOf, Working, Steps
  <2> QED BY <1>3, <2>3, <2>4, <2>5 DEF RegistryInv
<1>6. CASE ~(Op[c] = "issue" /\ step[c] = "finishing")
  <2>1. durable' = [visible EXCEPT !.out = durable.out]
    BY <1>2, <1>6 DEF Synced
  <2>2. /\ durable'.state = visible.state /\ durable'.key = visible.key
        /\ durable'.snapshot = visible.snapshot
        /\ durable'.out = durable.out
        /\ durable' \in Disk
    BY <1>1, <2>1 DEF Disk
  <2>3. RegistryTypeOK' /\ SignaturesKept'
    BY <1>1, <1>2, <2>2 DEF RegistryTypeOK, SignaturesKept, Keeps
  <2>4. ReleasedBacked'
    <3>1. \A o : Backs(visible, o) => Backs(durable', o) /\ Backs(visible', o)
      BY <1>2, <2>2 DEF Backs, Keeps
    <3> QED BY <1>1, <1>2, <2>2, <3>1 DEF ReleasedBacked
  <2>5. StateIsDurable' /\ \A i : /\ Revoked(visible, i) => Revoked(durable', i)
                                  /\ Published(visible, i) => Published(durable', i)
    BY <1>2, <2>2 DEF StateIsDurable, Revoked, Published
  <2>6. ASSUME NEW d \in Commands PROVE IssueInv(d)'
    <3>1. IssueInv(d)
      BY <1>1
    <3> QED BY <1>2, <2>5, <3>1 DEF IssueInv, SignatureOf
  <2>7. ASSUME NEW d \in Commands PROVE RevokeInv(d)'
    <3>1. RevokeInv(d)
      BY <1>1
    <3> QED BY <1>2, <2>5, <3>1 DEF RevokeInv, Revoked, Published
  <2> QED BY <1>3, <2>3, <2>4, <2>6, <2>7 DEF RegistryInv
<1> QED BY <1>5, <1>6

\* A power loss picks, file by file, one of two disks that both keep what
\* matters.
LEMMA PowerLossIInv == ASSUME RegistryInv, PowerLoss PROVE RegistryInv'
<1> USE RegistryAssumptions, RegistryNullAssumptions
<1>1. /\ RegistryTypeOK /\ NoIndexSignedTwice /\ SignaturesKept /\ ReleasedBacked
      /\ \A c \in Commands : RevokeInv(c)
      /\ visible \in Disk /\ durable \in Disk
  BY DEF RegistryInv, RegistryTypeOK
<1>2. PICK d \in AfterPowerLoss : visible' = d /\ durable' = d
  BY DEF PowerLoss
<1>3. /\ lock' = Nobody /\ unsynced' = [c \in Commands |-> FALSE]
      /\ step' = [c \in Commands |->
           IF step[c] \in {"start", "done"} THEN step[c] ELSE "failed"]
      /\ UNCHANGED <<slot, signatures>>
  BY DEF PowerLoss
<1>4. /\ d.key \in {visible.key, durable.key}
      /\ d.public \in {visible.public, durable.public}
      /\ d.state \in {visible.state, durable.state}
      /\ d.snapshot \in {visible.snapshot, durable.snapshot}
      /\ \A c \in Commands : d.out[c] \in {visible.out[c], durable.out[c]}
      /\ d \in Disk
  <2>1. PICK kept \in SUBSET Commands :
          d.out = [c \in Commands |-> IF c \in kept THEN visible.out[c]
                                                    ELSE durable.out[c]]
    BY <1>2 DEF AfterPowerLoss
  <2>2. d \in [key : {visible.key, durable.key},
               public : {visible.public, durable.public},
               state : {visible.state, durable.state},
               snapshot : {visible.snapshot, durable.snapshot},
               out : {d.out}]
    BY <1>2 DEF AfterPowerLoss
  <2>3. d.out \in [Commands -> Signature \cup {Absent}]
    BY <1>1, <2>1 DEF Disk
  <2>4. /\ d.key \in Keys \cup {Absent} /\ d.public \in Keys \cup {Absent}
        /\ d.state \in State \cup {Absent}
        /\ d.snapshot \in SnapshotFile \cup {Absent}
    BY <1>1, <2>2 DEF Disk
  <2> QED BY <2>1, <2>2, <2>3, <2>4 DEF Disk
<1>5. /\ \A s : Keeps(visible, s) /\ Keeps(durable, s) => Keeps(d, s)
      /\ \A s : Backs(visible, s) /\ Backs(durable, s) => Backs(d, s)
      /\ \A i : Revoked(visible, i) /\ Revoked(durable, i) => Revoked(d, i)
      /\ \A i : Published(visible, i) /\ Published(durable, i) => Published(d, i)
  BY <1>4 DEF Keeps, Backs, Revoked, Published
<1> HIDE DEF Keeps, Backs, Revoked, Published
<1>6. RegistryTypeOK'
  BY <1>1, <1>2, <1>3, <1>4 DEF RegistryTypeOK, Steps
<1>7. NoIndexSignedTwice' /\ SignaturesKept'
  <2>1. \A s \in signatures : Keeps(d, s)
    BY <1>1, <1>5 DEF SignaturesKept
  <2> QED BY <1>1, <1>2, <1>3, <2>1 DEF NoIndexSignedTwice, SignaturesKept, Keeps
<1>8. ReleasedBacked'
  <2>1. ASSUME NEW c \in Commands, d.out[c] # Absent
        PROVE  d.out[c] \in signatures /\ Backs(d, d.out[c])
    BY <1>1, <1>4, <1>5, <2>1 DEF ReleasedBacked
  <2> QED BY <1>2, <1>3, <2>1 DEF ReleasedBacked, Backs, Keeps
<1>9. ASSUME NEW c \in Commands
      PROVE  LockInv(c)' /\ OpenInv(c)' /\ IssueInv(c)' /\ RevokeInv(c)'
  <2>1. step'[c] \in {"start", "done", "failed"}
        /\ (step'[c] = "done" => step[c] = "done")
    BY <1>1, <1>3 DEF RegistryTypeOK
  <2>2. LockInv(c)' /\ OpenInv(c)' /\ IssueInv(c)'
    BY <1>3, <2>1 DEF LockInv, OpenInv, IssueInv, Working
  <2>3. Op[c] = "revoke" /\ step[c] = "done" =>
          Revoked(d, Target[c]) /\ Published(d, Target[c])
    BY <1>1, <1>5 DEF RevokeInv
  <2>4. RevokeInv(c)'
    BY <1>2, <2>1, <2>3 DEF RevokeInv, Revoked, Published
  <2> QED BY <2>2, <2>4
<1> QED BY <1>6, <1>7, <1>8, <1>9 DEF RegistryInv

LEMMA StutterIInv == ASSUME RegistryInv, UNCHANGED registryVars PROVE RegistryInv'
<1>1. RegistryTypeOK' /\ NoIndexSignedTwice' /\ SignaturesKept' /\ ReleasedBacked'
  <2>1. RegistryTypeOK'
    BY DEF RegistryInv, registryVars, RegistryTypeOK
  <2>2. NoIndexSignedTwice' /\ SignaturesKept'
    BY DEF RegistryInv, registryVars, NoIndexSignedTwice, SignaturesKept, Keeps
  <2>3. ReleasedBacked'
    BY ReleasedFrame DEF RegistryInv, registryVars
  <2> QED BY <2>1, <2>2, <2>3
<1>2. ASSUME NEW c \in Commands
      PROVE  LockInv(c)' /\ OpenInv(c)' /\ IssueInv(c)' /\ RevokeInv(c)'
  <2>1. LockInv(c) /\ OpenInv(c) /\ IssueInv(c) /\ RevokeInv(c)
    BY DEF RegistryInv
  <2> QED BY <2>1 DEF registryVars, LockInv, OpenInv, Opened, DirectoryEmpty, IssueInv,
                      StateIsDurable, SignatureOf, RevokeInv, Revoked, Published
<1> QED BY <1>1, <1>2 DEF RegistryInv

THEOREM RegistryInvariance == RegistrySpec => []RegistryInv
<1>1. RegistryInv /\ [RegistryNext]_registryVars => RegistryInv'
  BY StutterIInv, PowerLossIInv, AcquireIInv, StopIInv, CreateKeyIInv,
     PublishKeyIInv, SaveFreshIInv, ReserveIInv, SignIInv, RecordSignatureIInv,
     ReleaseIInv, RevokeIInv, AlreadyRevokedIInv, SnapshotIInv, SyncIInv,
     FinishIInv
     DEF RegistryNext, Command
<1> QED BY InitRegistryInv, <1>1, PTL DEF RegistrySpec

-----------------------------------------------------------------------------
\* Every reachable state of the registry directory is well typed: no index
\* past the last leaf is reserved, none outside the tree is revoked.
THEOREM RegistryTyped == RegistrySpec => []RegistryTypeOK
<1>1. RegistryInv => RegistryTypeOK
  BY DEF RegistryInv
<1> QED BY <1>1, RegistryInvariance, PTL

\* One key signs, and signs every index at most once, across kills and power
\* losses.
THEOREM SignedOnce == RegistrySpec => []NoIndexSignedTwice
<1>1. RegistryInv => NoIndexSignedTwice
  BY DEF RegistryInv
<1> QED BY <1>1, RegistryInvariance, PTL

\* A credential file is never ahead of the registry.
THEOREM Recorded == RegistrySpec => []SignedIsRecorded
<1>1. RegistryInv => SignedIsRecorded
  BY DEF RegistryInv, ReleasedBacked, Backs, Keeps, Record, SignedIsRecorded
<1> QED BY <1>1, RegistryInvariance, PTL

\* A revocation reported as done survives everything.
THEOREM RevocationHolds == RegistrySpec => []RevocationSticks
<1>1. RegistryInv => RevocationSticks
  BY DEF RegistryInv, RevokeInv, Revoked, Published, RevocationSticks
<1> QED BY <1>1, RegistryInvariance, PTL
=============================================================================
