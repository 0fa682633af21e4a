--------------------------- MODULE IssuerRegistry ---------------------------
(***************************************************************************)
(* The issuer's registry directory (prover/issuer_registry.go): commands   *)
(* init, issue, revoke and snapshot, each a process of its own, take turns *)
(* under flock and publish every file by a rename or a link that becomes   *)
(* durable when the directory is synced.                                   *)
(*                                                                         *)
(* A process can be killed between any two system calls, which frees the   *)
(* lock; a power loss kills them all and takes each file back to its       *)
(* durable contents or not, as the disk happened to have written it.       *)
(***************************************************************************)
EXTENDS Integers

CONSTANTS
    Commands,       \* processes, each runs one command once
    Op,             \* "init", "issue", "revoke" or "snapshot"
    Holder,         \* the commitment an issue command is given
    Target,         \* the index a revoke command is given
    TreeSize,       \* 2^16 in the code
    Absent, NoRecord, Nobody

Slots == 0..(TreeSize - 1)
NextSlots == 0..TreeSize
Holders == {Holder[c] : c \in Commands}

ASSUME RegistryAssumptions ==
    /\ TreeSize \in Nat
    /\ Op \in [Commands -> {"init", "issue", "revoke", "snapshot"}]
    /\ Target \in [Commands -> Nat]
    /\ Nobody \notin Commands

\* A key pair is named by the init command that generated it.
Keys == Commands

\* A record without a signature is a reserved gap.
Record == [holder : Holders, signature : {"none", "made"}]

State == [key : Keys, next : NextSlots,
          records : [Slots -> Record \cup {NoRecord}],
          revoked : SUBSET Slots]

SnapshotFile == [revoked : SUBSET Slots]

Signature == [key : Keys, index : Slots, holder : Holders]

\* The files of the registry directory, and each issue command's output.
Disk == [key : Keys \cup {Absent}, public : Keys \cup {Absent},
         state : State \cup {Absent}, snapshot : SnapshotFile \cup {Absent},
         out : [Commands -> Signature \cup {Absent}]]

ASSUME RegistryNullAssumptions ==
    /\ Absent \notin Keys \cup State \cup SnapshotFile \cup Signature
    /\ NoRecord \notin Record

EmptyDisk == [key |-> Absent, public |-> Absent, state |-> Absent,
              snapshot |-> Absent, out |-> [c \in Commands |-> Absent]]

Steps == {"start", "locked", "keyed", "published", "reserved", "signed",
          "recorded", "saved", "finishing", "done", "failed"}

VARIABLES
    visible,    \* what an open finds
    durable,    \* what a power loss cannot take back
    lock,       \* who holds the flock on .registry.lock
    step,       \* the last step of each command
    unsynced,   \* a rename of its own it has not synced yet
    slot,       \* the index an issue command reserved
    signatures  \* every signature ever computed

registryVars == <<visible, durable, lock, step, unsynced, slot, signatures>>

RegistryInit ==
    /\ visible = EmptyDisk
    /\ durable = EmptyDisk
    /\ lock = Nobody
    /\ step = [c \in Commands |-> "start"]
    /\ unsynced = [c \in Commands |-> FALSE]
    /\ slot = [c \in Commands |-> 0]
    /\ signatures = {}

-----------------------------------------------------------------------------
(* Opening and leaving the registry.                                       *)

\* load: the key, the state authenticated under it and its public half.
Loads ==
    /\ visible.key # Absent
    /\ visible.state # Absent /\ visible.state.key = visible.key
    /\ visible.public = visible.key

DirectoryEmpty ==
    /\ visible.key = Absent /\ visible.public = Absent
    /\ visible.state = Absent /\ visible.snapshot = Absent

\* withIssuerRegistry: the lock, then load, which init goes without.
Acquire(c) ==
    /\ step[c] = "start"
    /\ lock = Nobody
    /\ IF IF Op[c] = "init" THEN DirectoryEmpty ELSE Loads
       THEN lock' = c /\ step' = [step EXCEPT ![c] = "locked"]
       ELSE step' = [step EXCEPT ![c] = "failed"] /\ UNCHANGED lock
    /\ UNCHANGED <<visible, durable, unsynced, slot, signatures>>

\* Ten seconds without the lock, a refused precondition or a failed system
\* call end a command with an error; a kill ends it anywhere.  All close the
\* lock file.
Stop(c) ==
    /\ step[c] \notin {"done", "failed"}
    /\ step' = [step EXCEPT ![c] = "failed"]
    /\ lock' = IF lock = c THEN Nobody ELSE lock
    /\ UNCHANGED <<visible, durable, unsynced, slot, signatures>>

Finish(c) ==
    /\ step[c] = "finishing" /\ ~unsynced[c]
    /\ step' = [step EXCEPT ![c] = "done"]
    /\ lock' = Nobody
    /\ UNCHANGED <<visible, durable, unsynced, slot, signatures>>

-----------------------------------------------------------------------------
(* registryAtomicJSON.                                                     *)

\* A complete temporary file takes its place; command c goes from one step
\* to the next.
Publish(c, from, to, disk) ==
    /\ step[c] = from /\ ~unsynced[c]
    /\ visible' = disk
    /\ unsynced' = [unsynced EXCEPT ![c] = TRUE]
    /\ step' = [step EXCEPT ![c] = to]
    /\ UNCHANGED <<durable, lock>>

\* registrySyncDir: of the registry, or of the directory of the output.
Synced(c) ==
    IF Op[c] = "issue" /\ step[c] = "finishing"
    THEN [durable EXCEPT !.out[c] = visible.out[c]]
    ELSE [visible EXCEPT !.out = durable.out]

MutSync(c) ==
    /\ unsynced[c] /\ lock = c
    /\ unsynced' = [unsynced EXCEPT ![c] = FALSE]
    /\ UNCHANGED <<visible, durable, lock, step, slot, signatures>>
Sync(c) ==
    /\ unsynced[c] /\ lock = c
    /\ durable' = Synced(c)
    /\ unsynced' = [unsynced EXCEPT ![c] = FALSE]
    /\ UNCHANGED <<visible, lock, step, slot, signatures>>

-----------------------------------------------------------------------------
(* registryInit.                                                           *)

CreateKey(c) ==
    /\ Op[c] = "init"
    /\ Publish(c, "locked", "keyed", [visible EXCEPT !.key = c])
    /\ UNCHANGED <<slot, signatures>>

PublishKey(c) ==
    /\ Op[c] = "init"
    /\ Publish(c, "keyed", "published", [visible EXCEPT !.public = c])
    /\ UNCHANGED <<slot, signatures>>

FreshState(c) == [key |-> c, next |-> 0,
                  records |-> [i \in Slots |-> NoRecord], revoked |-> {}]

SaveFresh(c) ==
    /\ Op[c] = "init"
    /\ Publish(c, "published", "saved",
               [visible EXCEPT !.state = FreshState(c)])
    /\ UNCHANGED <<slot, signatures>>

-----------------------------------------------------------------------------
(* registryIssue.                                                          *)

\* The state with one more record, and with a record's signature.
Appended(state, record) ==
    [state EXCEPT !.next = @ + 1,
                  !.records = [@ EXCEPT ![state.next] = record]]

Completed(state, i) ==
    [state EXCEPT !.records[i] =
        [holder |-> state.records[i].holder, signature |-> "made"]]

Reserve(c) ==
    /\ Op[c] = "issue" /\ step[c] = "locked"
    /\ visible.out[c] = Absent
    /\ visible.state.next < TreeSize
    /\ Publish(c, "locked", "reserved",
         [visible EXCEPT !.state =
            Appended(visible.state,
                     [holder |-> Holder[c], signature |-> "none"])])
    /\ slot' = [slot EXCEPT ![c] = visible.state.next]
    /\ UNCHANGED signatures

SignatureOf(c) ==
    [key |-> visible.key, index |-> slot[c], holder |-> Holder[c]]

\* The reservation is durable before anything is signed.
MutReserved(c) == step[c] = "reserved"
Reserved(c) == step[c] = "reserved" /\ ~unsynced[c]

Sign(c) ==
    /\ Reserved(c)
    /\ signatures' = signatures \cup {SignatureOf(c)}
    /\ step' = [step EXCEPT ![c] = "signed"]
    /\ UNCHANGED <<visible, durable, lock, unsynced, slot>>

RecordSignature(c) ==
    /\ Publish(c, "signed", "recorded",
         [visible EXCEPT !.state = Completed(visible.state, slot[c])])
    /\ UNCHANGED <<slot, signatures>>

Release(c) ==
    /\ visible.out[c] = Absent
    /\ Publish(c, "recorded", "finishing",
               [visible EXCEPT !.out[c] = SignatureOf(c)])
    /\ UNCHANGED <<slot, signatures>>

-----------------------------------------------------------------------------
(* registryRevoke and the snapshot command.                                *)

\* Only an index that was given out can be revoked.
Allocated(c) == Target[c] < visible.state.next

Revoke(c) ==
    /\ Op[c] = "revoke" /\ step[c] = "locked"
    /\ Allocated(c)
    /\ Target[c] \notin visible.state.revoked
    /\ Publish(c, "locked", "saved",
         [visible EXCEPT !.state =
            [visible.state EXCEPT !.revoked = @ \cup {Target[c]}]])
    /\ UNCHANGED <<slot, signatures>>

\* Already revoked: only the derived snapshot is due.
AlreadyRevoked(c) ==
    /\ Op[c] = "revoke" /\ step[c] = "locked"
    /\ Target[c] \in visible.state.revoked
    /\ step' = [step EXCEPT ![c] = "saved"]
    /\ UNCHANGED <<visible, durable, lock, unsynced, slot, signatures>>

\* snapshot: the last step of init and revoke, the only one of snapshot.
Snapshot(c) ==
    /\ Op[c] # "issue"
    /\ Publish(c, IF Op[c] = "snapshot" THEN "locked" ELSE "saved",
               "finishing",
               [visible EXCEPT !.snapshot = [revoked |-> visible.state.revoked]])
    /\ UNCHANGED <<slot, signatures>>

-----------------------------------------------------------------------------
\* Every directory entry reverts on its own, or does not.
AfterPowerLoss ==
    [key : {visible.key, durable.key},
     public : {visible.public, durable.public},
     state : {visible.state, durable.state},
     snapshot : {visible.snapshot, durable.snapshot},
     out : {[c \in Commands |-> IF c \in kept THEN visible.out[c]
                                            ELSE durable.out[c]] :
              kept \in SUBSET Commands}]

PowerLoss ==
    /\ \E d \in AfterPowerLoss : visible' = d /\ durable' = d
    /\ lock' = Nobody
    /\ step' = [c \in Commands |->
                  IF step[c] \in {"start", "done"} THEN step[c] ELSE "failed"]
    /\ unsynced' = [c \in Commands |-> FALSE]
    /\ UNCHANGED <<slot, signatures>>

Command(c) ==
    \/ Acquire(c)
    \/ CreateKey(c)
    \/ PublishKey(c)
    \/ SaveFresh(c)
    \/ Reserve(c)
    \/ Sign(c)
    \/ RecordSignature(c)
    \/ Release(c)
    \/ Revoke(c)
    \/ AlreadyRevoked(c)
    \/ Snapshot(c)
    \/ Sync(c)
    \/ Finish(c)

RegistryNext == PowerLoss \/ \E c \in Commands : Command(c) \/ Stop(c)

RegistrySpec == RegistryInit /\ [][RegistryNext]_registryVars

-----------------------------------------------------------------------------
(* Properties.                                                             *)

RegistryTypeOK ==
    /\ visible \in Disk
    /\ durable \in Disk
    /\ lock \in Commands \cup {Nobody}
    /\ step \in [Commands -> Steps]
    /\ unsynced \in [Commands -> BOOLEAN]
    /\ slot \in [Commands -> Nat]
    /\ signatures \subseteq Signature

\* No status index is ever signed for two holders or under two keys, however
\* commands are killed and whatever a power loss undoes: a revocation always
\* hits exactly one credential (registryIssue, "durable reservation BEFORE
\* signature/output"; registryInit, "Commit key first").
NoIndexSignedTwice ==
    \A s, t \in signatures :
        s.key = t.key /\ (s.index = t.index => s = t)

\* A credential file that exists, even after a power loss, was signed and is
\* on record as signed for its holder (the order of registryIssue's writes).
SignedIsRecorded ==
    \A c \in Commands : visible.out[c] # Absent =>
        LET cred == visible.out[c] IN
        /\ cred \in signatures
        /\ visible.state # Absent /\ visible.state.key = cred.key
        /\ visible.state.records[cred.index]
             = [holder |-> cred.holder, signature |-> "made"]

\* A revocation that was reported as done is in the state and in the snapshot
\* for ever after, whatever commands are killed later and whatever a power
\* loss undoes (registryRevoke saves, snapshots, and only then returns).
RevocationSticks ==
    \A c \in Commands : Op[c] = "revoke" /\ step[c] = "done" =>
        /\ visible.state # Absent /\ visible.snapshot # Absent
        /\ Target[c] \in visible.snapshot.revoked \cap visible.state.revoked

=============================================================================
