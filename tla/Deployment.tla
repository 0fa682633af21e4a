---------------------------- MODULE Deployment ------------------------------
(***************************************************************************)
(* Putting the pilot on Fuji: pilot/deploy-fuji.mjs (--prepare,            *)
(* --broadcast, --broadcast-contracts) and pilot/publish-snapshot.mjs over *)
(* one directory of files.  Runs overlap, throw, are killed at any step    *)
(* and are started again; an operator who finds a lock whose process is    *)
(* gone removes it.  A killed run leaves its child behind (the prover      *)
(* writing a setup, forge writing artifacts), and a file it was writing    *)
(* torn.  A proving setup, the verifier source exported with it and what   *)
(* is built from that are named by a version, as far as they are written;  *)
(* a snapshot by another.  Of the journal only the existence is ever read. *)
(* A Swarm reference is opaque, and what a download of it returns either   *)
(* has the digest asked for or fails.                                      *)
(***************************************************************************)
EXTENDS Naturals

CONSTANTS Runs, NoRun, NoFile, Torn, References, NoReference,
          MaxSetups,     \* proving setups ever generated
          MaxSnapshots,  \* snapshots the issuer ever publishes
          MaxStarts      \* commands started

Broadcasts == {"broadcast", "broadcast-contracts"}
Commands == {"prepare", "publish-snapshot"} \union Broadcasts
Contracts == <<"verifier", "keyRegistry", "escrow">>
ContractNames == {"verifier", "keyRegistry", "escrow"}
Proving == {"proving", "exporting"}
Stages == {"off", "open", "inspect", "preparing", "noting", "noted", "checking", "building",
           "linking", "validating", "journal", "sending", "settling", "verifying", "manifest",
           "comparing", "retrieving", "saving", "filling", "finished"} \union Proving
Setups == 1 .. MaxSetups
Versions == Setups \union {0}
Snapshots == 1 .. MaxSnapshots
Prepared == [setup : Versions, source : Versions]
Manifest == [setup : Versions, snapshot : Snapshots, reference : References \union {NoReference}]

ASSUME DeploymentAssumption ==
    /\ NoRun \notin Runs /\ NoReference \notin References /\ NoFile # Torn
    /\ \A none \in {NoFile, Torn} : none \notin Manifest /\ none \notin Prepared
    /\ MaxSetups \in Nat /\ MaxSnapshots \in Nat \ {0} /\ MaxStarts \in Nat

VARIABLES
    lock,
    setup, source, artifact,  \* the version of each, 0 when absent
    prepared, manifest,       \* JSON files
    journal,                  \* whether broadcast-started.json exists
    generated,                \* setups generated so far
    deployed, verifier, revocationRoot,                  \* the chain
    published,                \* the issuer's newest snapshot
    process, orphans,         \* the runs, and the children killed runs left
    starts
files == <<setup, source, artifact, prepared, manifest, journal, generated>>
fujiVars == <<deployed, verifier, revocationRoot>>
deploymentVars == <<lock, setup, source, artifact, prepared, manifest, journal, generated,
                    deployed, verifier, revocationRoot, published, process, orphans, starts>>

\* What a run holds in memory.
Off == [command |-> "prepare", stage |-> "off", reference |-> NoReference, setup |-> 0,
        source |-> 0, snapshot |-> 1, next |-> 1]

DeploymentTypeOK ==
    /\ lock \in Runs \union {NoRun}
    /\ {setup, source, artifact, generated, verifier} \subseteq Versions
    /\ prepared \in Prepared \union {NoFile, Torn} /\ manifest \in Manifest \union {NoFile, Torn}
    /\ journal \in BOOLEAN
    /\ deployed \in [ContractNames -> Nat]
    /\ revocationRoot \in Snapshots \union {0} /\ published \in Snapshots
    /\ orphans \subseteq [stage : Proving \union {"building"}, version : Versions]
    /\ starts \in 0 .. MaxStarts
    /\ process \in [Runs -> [command : Commands, stage : Stages,
                             reference : References \union {NoReference},
                             setup : Versions, source : Versions,
                             snapshot : Snapshots, next : 1 .. 3]]

DeploymentInit ==
    /\ lock = NoRun /\ setup = 0 /\ source = 0 /\ artifact = 0
    /\ prepared = NoFile /\ manifest = NoFile /\ journal = FALSE /\ generated = 0
    /\ deployed = [c \in ContractNames |-> 0] /\ verifier = 0 /\ revocationRoot = 0
    /\ published = 1 /\ process = [r \in Runs |-> Off] /\ orphans = {} /\ starts = 0

In(r, stage) == process[r].stage = stage
To(r, stage) == process' = [process EXCEPT ![r].stage = stage]
Quit(r) == process' = [process EXCEPT ![r] = Off]
Elsewhere == UNCHANGED <<fujiVars, published, orphans, starts>>
OnlyReads == UNCHANGED <<lock, files>> /\ Elsewhere

StartCommand(r) ==
    /\ In(r, "off") /\ starts < MaxStarts /\ starts' = starts + 1
    /\ \E command \in Commands, ref \in References :
         process' = [process EXCEPT ![r] =
           [Off EXCEPT !.command = command, !.stage = "open",
                       !.reference = IF command = "broadcast-contracts" \/ command = "prepare"
                                     THEN NoReference ELSE ref]]
    /\ UNCHANGED <<lock, files, fujiVars, published, orphans>>

\* open(lockPath, "wx"): whoever does not get it leaves the file alone.
LockFree == lock = NoRun

Open(r) ==
    /\ In(r, "open")
    /\ \/ /\ LockFree /\ lock' = r
          /\ To(r, IF process[r].command = "publish-snapshot" THEN "comparing" ELSE "inspect")
       \/ ~LockFree /\ Quit(r) /\ UNCHANGED lock
    /\ UNCHANGED files /\ Elsewhere

Holding(r) == process[r].stage \notin {"off", "open"}

\* A run that throws or finishes unlinks the lock's path on its way out; a
\* child of its own has ended by then.
Exit(r) ==
    /\ Holding(r) /\ Quit(r) /\ lock' = NoRun
    /\ UNCHANGED files /\ Elsewhere

\* A run that is killed does not unlink, and its child may live on.
WaitsForChild(r) == process[r].stage \in Proving \union {"building"}
Child(r) == [stage |-> process[r].stage,
             version |-> IF In(r, "building") THEN process[r].source ELSE process[r].setup]

Kill(r) ==
    /\ Holding(r) /\ Quit(r)
    /\ \/ UNCHANGED orphans
       \/ WaitsForChild(r) /\ orphans' = orphans \union {Child(r)}
    /\ UNCHANGED <<lock, files, fujiVars, published, starts>>

\* A child left behind writes what it was started to write, and ends at any
\* point.
OrphanWrites(o) ==
    /\ \/ /\ o.stage = "proving" /\ setup' = o.version
          /\ orphans' = (orphans \ {o}) \union {[o EXCEPT !.stage = "exporting"]}
          /\ UNCHANGED <<source, artifact>>
       \/ /\ o.stage = "exporting" /\ source' = o.version
          /\ UNCHANGED <<setup, artifact, orphans>>
       \/ /\ o.stage = "building" /\ artifact' = o.version
          /\ UNCHANGED <<setup, source, orphans>>
    /\ UNCHANGED <<lock, prepared, manifest, journal, generated, fujiVars, published, process,
                   starts>>

OrphanEnds(o) ==
    /\ orphans' = orphans \ {o}
    /\ UNCHANGED <<lock, files, fujiVars, published, process, starts>>

ClearLock ==
    /\ lock # NoRun /\ ~Holding(lock) /\ lock' = NoRun
    /\ UNCHANGED <<files, process>> /\ Elsewhere

\* An incomplete preparation is removed by hand, with a torn note of it.
ClearSetup ==
    /\ lock = NoRun /\ prepared \in {NoFile, Torn} /\ setup # 0
    /\ setup' = 0 /\ prepared' = NoFile
    /\ UNCHANGED <<lock, source, artifact, manifest, journal, generated, process>> /\ Elsewhere

\* Assumed of the operator, who is told only to inspect: a lock is not
\* removed while the prover of the killed run is still at work.
ProverWaitedFor == (\E o \in orphans : o.stage \in Proving) => lock # NoRun

-----------------------------------------------------------------------------
(* deploy-fuji.mjs                                                         *)

Started == manifest # NoFile \/ journal

Inspect(r) ==
    /\ In(r, "inspect")
    /\ process[r].command \in Broadcasts => ~Started
    /\ To(r, "preparing") /\ OnlyReads

UsePrepared(r) ==
    /\ In(r, "preparing") /\ prepared # NoFile
    /\ To(r, "checking") /\ OnlyReads

\* The prover makes a setup of its own, whatever has become of the directory
\* by the time it writes there.
StartProver(r) ==
    /\ In(r, "preparing") /\ prepared = NoFile /\ setup = 0
    /\ generated < MaxSetups /\ generated' = generated + 1
    /\ process' = [process EXCEPT ![r].stage = "proving", ![r].setup = generated + 1]
    /\ UNCHANGED <<lock, setup, source, artifact, prepared, manifest, journal>> /\ Elsewhere

MutWriteKeys(r) ==
    /\ In(r, "proving") /\ setup' = process[r].setup
    /\ To(r, "noting")
    /\ UNCHANGED <<lock, source, artifact, prepared, manifest, journal, generated>> /\ Elsewhere
WriteKeys(r) ==
    /\ In(r, "proving") /\ setup' = process[r].setup
    /\ To(r, "exporting")
    /\ UNCHANGED <<lock, source, artifact, prepared, manifest, journal, generated>> /\ Elsewhere

ExportSolidity(r) ==
    /\ In(r, "exporting") /\ source' = process[r].setup
    /\ To(r, "noting")
    /\ UNCHANGED <<lock, setup, artifact, prepared, manifest, journal, generated>> /\ Elsewhere

\* prepared.json: the digests are taken, then the file created, then filled.
NotePrepared(r) ==
    /\ In(r, "noting") /\ prepared' = Torn
    /\ process' = [process EXCEPT ![r].stage = "noted", ![r].setup = setup, ![r].source = source]
    /\ UNCHANGED <<lock, setup, source, artifact, manifest, journal, generated>> /\ Elsewhere

FillPrepared(r) ==
    /\ In(r, "noted")
    /\ prepared' = [setup |-> process[r].setup, source |-> process[r].source]
    /\ To(r, "checking")
    /\ UNCHANGED <<lock, setup, source, artifact, manifest, journal, generated>> /\ Elsewhere

\* The files on disk have the digests that prepared.json records.
CheckSetup(r) ==
    /\ In(r, "checking") /\ prepared = [setup |-> setup, source |-> source]
    /\ process' = [process EXCEPT ![r].stage = "building", ![r].setup = setup,
                                  ![r].source = source]
    /\ OnlyReads

Build(r) ==
    /\ In(r, "building") /\ artifact' = process[r].source
    /\ To(r, "linking")
    /\ UNCHANGED <<lock, setup, source, prepared, manifest, journal, generated>> /\ Elsewhere

\* The artifacts are read and the intent written: all that --prepare does.
Intend(r) ==
    /\ In(r, "linking") /\ process[r].command \in Broadcasts
    /\ process' = [process EXCEPT ![r].stage = "validating", ![r].source = artifact]
    /\ OnlyReads

\* The public snapshot is validated and, with --broadcast, downloaded.
Validate(r) ==
    /\ In(r, "validating") /\ ~Started
    /\ process' = [process EXCEPT ![r].stage = "journal", ![r].snapshot = published]
    /\ OnlyReads

\* broadcast-started.json is created before anything is sent.
MutOpenJournal(r) ==
    /\ In(r, "journal") /\ ~journal
    /\ To(r, "sending") /\ OnlyReads
OpenJournal(r) ==
    /\ In(r, "journal") /\ ~journal /\ journal' = TRUE
    /\ To(r, "sending")
    /\ UNCHANGED <<lock, setup, source, artifact, prepared, manifest, generated>> /\ Elsewhere

Contract(r) == Contracts[process[r].next]

SendDeploy(r) ==
    /\ In(r, "sending")
    /\ deployed' = [deployed EXCEPT ![Contract(r)] = @ + 1]
    /\ verifier' = IF Contract(r) = "verifier" THEN process[r].source ELSE verifier
    /\ revocationRoot' = IF Contract(r) = "escrow" THEN process[r].snapshot ELSE revocationRoot
    /\ To(r, "settling")
    /\ UNCHANGED <<lock, files, published, orphans, starts>>

\* The hash and then the receipt are noted in the journal.
RecordReceipt(r) ==
    /\ In(r, "settling")
    /\ process' = IF process[r].next < 3
                  THEN [process EXCEPT ![r].stage = "sending", ![r].next = @ + 1]
                  ELSE [process EXCEPT ![r].stage = "verifying"]
    /\ OnlyReads

\* The finalized code and the escrow's fields are what was intended.
VerifyDeployed(r) ==
    /\ In(r, "verifying") /\ revocationRoot = process[r].snapshot
    /\ To(r, "manifest") /\ OnlyReads

\* writeFile truncates the file (or creates it) and then fills it.
Truncate(r) ==
    /\ manifest' = Torn
    /\ To(r, "filling")
    /\ UNCHANGED <<lock, setup, source, artifact, prepared, journal, generated>> /\ Elsewhere

WriteManifest(r) == In(r, "manifest") /\ Truncate(r)

FillManifest(r) ==
    /\ In(r, "filling")
    /\ manifest' = [setup |-> process[r].setup, snapshot |-> process[r].snapshot,
                    reference |-> process[r].reference]
    /\ To(r, "finished")
    /\ UNCHANGED <<lock, setup, source, artifact, prepared, journal, generated>> /\ Elsewhere

-----------------------------------------------------------------------------
(* publish-snapshot.mjs                                                    *)

Replaces(r) == manifest.reference \notin {NoReference, process[r].reference}

\* The manifest parses, its snapshot is the file's and has the finalized root.
Compare(r) ==
    /\ In(r, "comparing") /\ manifest \notin {NoFile, Torn} /\ ~Replaces(r)
    /\ published = manifest.snapshot /\ revocationRoot = published
    /\ process' = [process EXCEPT ![r].stage = "retrieving", ![r].setup = manifest.setup,
                                  ![r].snapshot = published]
    /\ OnlyReads

RetrieveSnapshot(r) == In(r, "retrieving") /\ To(r, "saving") /\ OnlyReads

\* The same file, rewritten in place.
SaveReference(r) == In(r, "saving") /\ Truncate(r)

-----------------------------------------------------------------------------
\* The issuer publishes a snapshot and, later, its root.
NewSnapshot ==
    /\ published < MaxSnapshots /\ published' = published + 1
    /\ UNCHANGED <<lock, files, fujiVars, process, orphans, starts>>

UpdateRoot ==
    /\ deployed["escrow"] > 0 /\ revocationRoot # published /\ revocationRoot' = published
    /\ UNCHANGED <<lock, files, deployed, verifier, published, process, orphans, starts>>

DeploymentNext ==
    \/ \E r \in Runs :
         \/ StartCommand(r) \/ Open(r) \/ Exit(r) \/ Kill(r)
         \/ Inspect(r) \/ UsePrepared(r) \/ StartProver(r) \/ WriteKeys(r) \/ ExportSolidity(r)
         \/ NotePrepared(r) \/ FillPrepared(r) \/ CheckSetup(r) \/ Build(r) \/ Intend(r)
         \/ Validate(r) \/ OpenJournal(r) \/ SendDeploy(r) \/ RecordReceipt(r)
         \/ VerifyDeployed(r) \/ WriteManifest(r) \/ FillManifest(r)
         \/ Compare(r) \/ RetrieveSnapshot(r) \/ SaveReference(r)
    \/ \E o \in orphans : OrphanWrites(o) \/ OrphanEnds(o)
    \/ ClearLock \/ ClearSetup \/ NewSnapshot \/ UpdateRoot

DeploymentSpec == DeploymentInit /\ [][DeploymentNext]_deploymentVars

-----------------------------------------------------------------------------
(* Properties                                                              *)

\* However often the command is killed and started again, with stale locks
\* removed in between, no contract is ever deployed a second time.
DeployedOnce == \A c \in ContractNames : deployed[c] <= 1

\* The manifest describes a deployment that exists; a whole one names the
\* setup that provers will be given, and the verifier on the chain is the one
\* exported with it.
ManifestIsDeployed ==
    /\ manifest # NoFile => \A c \in ContractNames : deployed[c] > 0
    /\ manifest \in Manifest => manifest.setup = setup /\ verifier = setup

\* A snapshot reference, once in the manifest, is never replaced: a rewrite
\* cut short may leave a manifest that cannot be read, never another one.
ReferenceIsFinal ==
    \A kept \in References :
      [](manifest \in Manifest /\ manifest.reference = kept =>
           [](manifest # NoFile /\ (manifest \in Manifest => manifest.reference = kept)))
=============================================================================
