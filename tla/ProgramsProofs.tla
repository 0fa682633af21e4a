--------------------------- MODULE ProgramsProofs ---------------------------
(***************************************************************************)
(* Proofs about the programs that share no state with the rest: the        *)
(* deployment commands, approval by hand, the pilot server, the workbench  *)
(* and the two storage clients.  Each has an inductive invariant of its    *)
(* own.  Those of the programs with a lock or a busy flag say who is       *)
(* inside, and that whoever is inside can rely on what it read.            *)
(***************************************************************************)
EXTENDS Deployment, OperatorApproval, LocalServer, Workbench, GatewayStorage, SwarmStorage,
        FiniteSetTheorems, SequenceTheorems, TLAPS

-----------------------------------------------------------------------------
(* Deployment: deploy-fuji.mjs and publish-snapshot.mjs.                   *)

Process == [command : Commands, stage : Stages, reference : References \union {NoReference},
            setup : Versions, source : Versions, snapshot : Snapshots, next : 1 .. 3]
Orphan == [stage : Proving \union {"building"}, version : Versions]

\* Stages with the journal open.
Sending == {"sending", "settling", "verifying", "manifest"}

DeployedUpTo(n) == \A i \in 1 .. 3 : deployed[Contracts[i]] = IF i <= n THEN 1 ELSE 0
AllDeployed == \A c \in ContractNames : deployed[c] = 1

\* What a run inside the lock can rely on, whatever children write.
RunOK(p) ==
    /\ p.stage \notin {"off", "filling", "finished"} \union Sending => p.next = 1
    /\ p.stage \in Sending => journal
    /\ p.stage = "sending" => DeployedUpTo(p.next - 1)
    /\ p.stage = "settling" => DeployedUpTo(p.next)
    /\ p.stage \in {"verifying", "manifest"} => DeployedUpTo(3)
    /\ p.stage \in {"journal"} \union Sending => manifest = NoFile
    /\ p.stage \in {"retrieving", "saving"} =>
         manifest \in Manifest /\ manifest.reference \in {NoReference, p.reference}
    /\ p.stage = "filling" => manifest = Torn

\* The journal is there before the first contract is, and the manifest only
\* after the last.
JournalInv ==
    /\ ~journal => \A c \in ContractNames : deployed[c] = 0
    /\ DeployedOnce
    /\ manifest # NoFile => journal /\ \A c \in ContractNames : deployed[c] > 0

FilesTyped ==
    /\ setup \in Versions /\ source \in Versions /\ artifact \in Versions
    /\ generated \in Versions /\ verifier \in Versions
    /\ prepared \in Prepared \union {NoFile, Torn} /\ manifest \in Manifest \union {NoFile, Torn}
    /\ journal \in BOOLEAN
    /\ deployed \in [ContractNames -> Nat]
    /\ revocationRoot \in Snapshots \union {0} /\ published \in Snapshots
    /\ orphans \subseteq Orphan
    /\ starts \in 0 .. MaxStarts

DeploymentInv ==
    /\ FilesTyped /\ JournalInv
    /\ lock \in Runs \union {NoRun}
    /\ process \in [Runs -> Process]
    /\ \A r \in Runs : Holding(r) => lock = r
    /\ \A r \in Runs : RunOK(process[r])

LEMMA DeploymentTyped == DeploymentInv => DeploymentTypeOK
  BY DEF DeploymentInv, FilesTyped, DeploymentTypeOK, Process, Orphan

LEMMA ContractsAre ==
    /\ Contracts[1] = "verifier" /\ Contracts[2] = "keyRegistry" /\ Contracts[3] = "escrow"
    /\ ContractNames = {Contracts[i] : i \in 1 .. 3}
<1>1. Contracts[1] = "verifier" /\ Contracts[2] = "keyRegistry" /\ Contracts[3] = "escrow"
  BY DEF Contracts
<1>2. 1 .. 3 = {1, 2, 3}
  OBVIOUS
<1>3. ASSUME NEW S, S = {Contracts[i] : i \in {1, 2, 3}}
      PROVE  S = {Contracts[1], Contracts[2], Contracts[3]}
  BY <1>3
<1> QED
  BY <1>1, <1>2, <1>3 DEF ContractNames

LEMMA OffIsProcess == Off \in Process /\ Off.stage = "off"
  BY DeploymentAssumption DEF Off, Process, Commands, Stages, Versions, Setups, Snapshots

\* A run inside the lock moves on: nobody else is inside.
LEMMA RunStep ==
    ASSUME DeploymentInv, NEW r \in Runs, Holding(r), NEW p \in Process,
           process' = [process EXCEPT ![r] = p],
           lock' = lock \/ (lock' = NoRun /\ p.stage = "off"),
           FilesTyped', JournalInv', RunOK(p)'
    PROVE  DeploymentInv'
<1>1. /\ lock = r /\ lock \in Runs \union {NoRun} /\ process \in [Runs -> Process]
      /\ \A q \in Runs : Holding(q) => lock = q
  BY DEF DeploymentInv
<1>2. /\ process' \in [Runs -> Process] /\ process'[r] = p
      /\ \A q \in Runs : q # r => process'[q] = process[q]
  BY <1>1
<1>3. ASSUME NEW q \in Runs, q # r PROVE ~Holding(q) /\ ~Holding(q)'
  BY <1>1, <1>2, <1>3 DEF Holding
<1>4. ASSUME NEW q \in Runs PROVE RunOK(process[q])'
  <2>1. CASE q = r
    BY <1>2, <2>1 DEF RunOK, DeployedUpTo
  <2>2. CASE q # r
    <3>1. process'[q] = process[q] /\ process[q].stage \in {"off", "open"}
      BY <1>2, <1>3, <2>2 DEF Holding
    <3>2. RunOK(process[q])
      BY DEF DeploymentInv
    <3> QED
      BY <3>1, <3>2 DEF RunOK, Sending
  <2> QED
    BY <2>1, <2>2
<1>5. ASSUME NEW q \in Runs PROVE (Holding(q) => lock = q)'
  BY <1>1, <1>2, <1>3 DEF Holding
<1>6. lock' \in Runs \union {NoRun}
  BY <1>1
<1> QED
  BY <1>2, <1>4, <1>5, <1>6 DEF DeploymentInv

\* ... most often without touching the journal, the manifest or the chain.
LEMMA RunQuietStep ==
    ASSUME DeploymentInv, NEW r \in Runs, Holding(r), NEW p \in Process,
           process' = [process EXCEPT ![r] = p],
           lock' = lock \/ (lock' = NoRun /\ p.stage = "off"),
           FilesTyped', journal' = journal, manifest' = manifest, deployed' = deployed, RunOK(p)
    PROVE  DeploymentInv'
<1>1. JournalInv'
  BY DEF DeploymentInv, JournalInv, DeployedOnce
<1>2. RunOK(p)'
  BY DEF RunOK, DeployedUpTo
<1> QED
  BY <1>1, <1>2, RunStep

\* Anything else that happens leaves the runs inside the lock alone.
LEMMA OutsideStep ==
    ASSUME DeploymentInv, process' \in [Runs -> Process],
           \A q \in Runs : \/ process'[q] = process[q]
                           \/ process'[q].stage = "off"
                           \/ (process'[q].stage = "open" /\ process'[q].next = 1),
           FilesTyped', journal' = journal, manifest' = manifest, deployed' = deployed,
           lock' \in Runs \union {NoRun}, \A q \in Runs : Holding(q) => lock' = lock
    PROVE  DeploymentInv'
<1>1. \A q \in Runs : (Holding(q) => lock = q) /\ RunOK(process[q])
  BY DEF DeploymentInv
<1>2. ASSUME NEW q \in Runs PROVE (Holding(q) => lock = q)' /\ RunOK(process[q])'
  <2>1. CASE process'[q].stage = "off" \/ (process'[q].stage = "open" /\ process'[q].next = 1)
    BY <2>1 DEF Holding, RunOK, Sending
  <2>2. CASE process'[q] = process[q]
    BY <1>1, <2>2 DEF Holding, RunOK, DeployedUpTo
  <2> QED
    BY <2>1, <2>2
<1>3. JournalInv'
  BY DEF DeploymentInv, JournalInv, DeployedOnce
<1> QED
  BY <1>2, <1>3 DEF DeploymentInv

LEMMA DeploymentInitInv == DeploymentInit => DeploymentInv
<1> SUFFICES ASSUME DeploymentInit PROVE DeploymentInv
  OBVIOUS
<1>1. FilesTyped
  <2>1. 1 \in Snapshots /\ 0 \in 0 .. MaxStarts /\ 0 \in Versions /\ FALSE \in BOOLEAN
    BY DeploymentAssumption DEF Snapshots, Versions
  <2>2. [c \in ContractNames |-> 0] \in [ContractNames -> Nat]
    OBVIOUS
  <2>3. deployed \in [ContractNames -> Nat] /\ journal \in BOOLEAN /\ orphans \subseteq Orphan
    BY <2>1, <2>2 DEF DeploymentInit
  <2> QED
    BY <2>1, <2>3 DEF DeploymentInit, FilesTyped
<1>2. \A c \in ContractNames : deployed[c] = 0
  BY DEF DeploymentInit
<1>3. JournalInv
  BY <1>2 DEF DeploymentInit, JournalInv, DeployedOnce
<1>4. /\ process \in [Runs -> Process] /\ \A r \in Runs : process[r].stage = "off"
  BY OffIsProcess DEF DeploymentInit
<1>5. \A r \in Runs : ~Holding(r) /\ RunOK(process[r])
  BY <1>4 DEF Holding, RunOK, Sending
<1> QED
  BY <1>1, <1>3, <1>4, <1>5 DEF DeploymentInv, DeploymentInit

\* What is known of a run in a step.
LEMMA RunFacts ==
    ASSUME DeploymentInv, NEW r \in Runs
    PROVE  /\ process[r] \in Process /\ RunOK(process[r])
           /\ FilesTyped /\ JournalInv /\ process \in [Runs -> Process]
  BY DEF DeploymentInv

\* Before the journal.
Early == {"preparing", "noting", "noted", "checking", "building", "linking", "validating",
          "journal"} \union Proving

LEMMA EarlyStep ==
    ASSUME DeploymentInv, NEW r \in Runs, process[r].stage \in Early \union {"inspect"},
           NEW stage \in Early, NEW s \in Versions, NEW v \in Versions, NEW n \in Snapshots,
           process' = [process EXCEPT ![r].stage = stage, ![r].setup = s, ![r].source = v,
                                      ![r].snapshot = n],
           lock' = lock, FilesTyped', journal' = journal, manifest' = manifest,
           deployed' = deployed, stage = "journal" => manifest = NoFile
    PROVE  DeploymentInv'
<1>0. /\ process[r] \in Process /\ RunOK(process[r]) /\ process \in [Runs -> Process]
  BY RunFacts
<1>1. Holding(r) /\ process[r].next = 1
  BY <1>0 DEF Holding, Early, Proving, RunOK, Sending
<1>2. PICK p : p = [process[r] EXCEPT !.stage = stage, !.setup = s, !.source = v,
                                      !.snapshot = n]
  OBVIOUS
<1>3. /\ p \in Process /\ p.stage = stage /\ p.next = 1
      /\ process' = [process EXCEPT ![r] = p]
  BY <1>0, <1>1, <1>2 DEF Process, Early, Stages
<1>4. RunOK(p)
  BY <1>3 DEF RunOK, Early, Proving, Sending
<1> QED
  BY <1>1, <1>3, <1>4, RunQuietStep

\* What a run does before the journal: only the stage and what it holds change
\* in memory.
EarlySteps(r) ==
    \/ Inspect(r) \/ UsePrepared(r) \/ StartProver(r) \/ WriteKeys(r) \/ ExportSolidity(r)
    \/ NotePrepared(r) \/ FillPrepared(r) \/ CheckSetup(r) \/ Build(r) \/ Intend(r) \/ Validate(r)

LEMMA EarlyMoves ==
    ASSUME DeploymentInv, NEW r \in Runs, EarlySteps(r)
    PROVE  /\ process[r].stage \in Early \union {"inspect"}
           /\ lock' = lock /\ journal' = journal /\ manifest' = manifest
           /\ deployed' = deployed /\ verifier' = verifier /\ orphans' = orphans
           /\ FilesTyped'
           /\ \E stage \in Early, s \in Versions, v \in Versions, n \in Snapshots :
                /\ stage = "journal" => manifest = NoFile
                /\ process' = [process EXCEPT ![r].stage = stage, ![r].setup = s, ![r].source = v,
                                              ![r].snapshot = n]
<1>0. /\ process[r] \in Process /\ FilesTyped /\ process \in [Runs -> Process]
  BY RunFacts
<1>1. /\ process[r].stage \in Early \union {"inspect"}
      /\ lock' = lock /\ journal' = journal /\ manifest' = manifest
      /\ deployed' = deployed /\ verifier' = verifier /\ orphans' = orphans
      /\ revocationRoot' = revocationRoot /\ published' = published /\ starts' = starts
  BY DEF EarlySteps, Early, Proving, Inspect, UsePrepared, StartProver, WriteKeys, ExportSolidity,
         NotePrepared, FillPrepared, CheckSetup, Build, Intend, Validate, In, OnlyReads, Elsewhere,
         files, fujiVars
<1>2. process[r].setup \in Versions /\ process[r].source \in Versions
      /\ process[r].snapshot \in Snapshots
  BY <1>0 DEF Process
<1>3. generated < MaxSetups => generated + 1 \in Versions
  BY <1>0, DeploymentAssumption DEF FilesTyped, Versions, Setups
<1>4. FilesTyped'
  <2>1. setup' \in Versions /\ source' \in Versions /\ artifact' \in Versions
        /\ generated' \in Versions
    BY <1>0, <1>2, <1>3
    DEF EarlySteps, Inspect, UsePrepared, StartProver, WriteKeys, ExportSolidity, NotePrepared,
        FillPrepared, CheckSetup, Build, Intend, Validate, OnlyReads, files, FilesTyped
  <2>2. prepared' \in Prepared \union {NoFile, Torn}
    BY <1>0, <1>2
    DEF EarlySteps, Inspect, UsePrepared, StartProver, WriteKeys, ExportSolidity, NotePrepared,
        FillPrepared, CheckSetup, Build, Intend, Validate, OnlyReads, files, FilesTyped, Prepared
  <2> QED
    BY <1>0, <1>1, <2>1, <2>2 DEF FilesTyped
<1>5. ASSUME NEW stage \in Early, To(r, stage)
      PROVE  process' = [process EXCEPT ![r].stage = stage, ![r].setup = process[r].setup,
                                        ![r].source = process[r].source,
                                        ![r].snapshot = process[r].snapshot]
  BY <1>0, <1>5 DEF To, Process
<1>6. ASSUME Inspect(r) \/ UsePrepared(r) \/ WriteKeys(r) \/ ExportSolidity(r) \/ FillPrepared(r)
             \/ Build(r)
      PROVE  \E stage \in Early \ {"journal"} : To(r, stage)
  BY <1>6 DEF Inspect, UsePrepared, WriteKeys, ExportSolidity, FillPrepared, Build, Early, Proving
<1>7. CASE StartProver(r)
  <2>1. process' = [process EXCEPT ![r].stage = "proving", ![r].setup = generated + 1,
                                   ![r].source = process[r].source,
                                   ![r].snapshot = process[r].snapshot]
    BY <1>0, <1>7 DEF StartProver, Process
  <2>2. generated + 1 \in Versions /\ "proving" \in Early /\ "proving" # "journal"
    BY <1>3, <1>7 DEF StartProver, Early, Proving
  <2> QED
    BY <1>1, <1>2, <1>4, <2>1, <2>2
<1>8. CASE NotePrepared(r) \/ CheckSetup(r)
  <2>1. PICK stage \in Early \ {"journal"} :
           process' = [process EXCEPT ![r].stage = stage, ![r].setup = setup,
                                      ![r].source = source,
                                      ![r].snapshot = process[r].snapshot]
    <3>1. CASE NotePrepared(r)
      <4>1. process' = [process EXCEPT ![r].stage = "noted", ![r].setup = setup,
                                       ![r].source = source,
                                       ![r].snapshot = process[r].snapshot]
        BY <1>0, <3>1 DEF NotePrepared, Process
      <4> QED
        BY <4>1 DEF Early
    <3>2. CASE CheckSetup(r)
      <4>1. process' = [process EXCEPT ![r].stage = "building", ![r].setup = setup,
                                       ![r].source = source,
                                       ![r].snapshot = process[r].snapshot]
        BY <1>0, <3>2 DEF CheckSetup, Process
      <4> QED
        BY <4>1 DEF Early
    <3> QED
      BY <1>8, <3>1, <3>2
  <2>2. setup \in Versions /\ source \in Versions
    BY <1>0 DEF FilesTyped
  <2> QED
    BY <1>1, <1>2, <1>4, <2>1, <2>2
<1>9. CASE Intend(r)
  <2>1. process' = [process EXCEPT ![r].stage = "validating", ![r].setup = process[r].setup,
                                   ![r].source = artifact, ![r].snapshot = process[r].snapshot]
    BY <1>0, <1>9 DEF Intend, Process
  <2>2. artifact \in Versions /\ "validating" \in Early /\ "validating" # "journal"
    BY <1>0 DEF FilesTyped, Early
  <2> QED
    BY <1>1, <1>2, <1>4, <2>1, <2>2
<1>10. CASE Validate(r)
  <2>1. process' = [process EXCEPT ![r].stage = "journal", ![r].setup = process[r].setup,
                                   ![r].source = process[r].source, ![r].snapshot = published]
    BY <1>0, <1>10 DEF Validate, Process
  <2>2. published \in Snapshots /\ "journal" \in Early /\ manifest = NoFile
    BY <1>0, <1>10 DEF FilesTyped, Early, Validate, Started
  <2> QED
    BY <1>1, <1>2, <1>4, <2>1, <2>2
<1>11. CASE Inspect(r) \/ UsePrepared(r) \/ WriteKeys(r) \/ ExportSolidity(r)
             \/ FillPrepared(r) \/ Build(r)
  <2>1. PICK stage \in Early \ {"journal"} : To(r, stage)
    BY <1>6, <1>11
  <2>2. process' = [process EXCEPT ![r].stage = stage, ![r].setup = process[r].setup,
                                   ![r].source = process[r].source,
                                   ![r].snapshot = process[r].snapshot]
    BY <1>5, <2>1
  <2> QED
    BY <1>1, <1>2, <1>4, <2>2
<1> QED
  BY <1>7, <1>8, <1>9, <1>10, <1>11 DEF EarlySteps

LEMMA EarlyStepsInv == ASSUME DeploymentInv, NEW r \in Runs, EarlySteps(r) PROVE DeploymentInv'
<1>1. PICK stage \in Early, s \in Versions, v \in Versions, n \in Snapshots :
         /\ stage = "journal" => manifest = NoFile
         /\ process' = [process EXCEPT ![r].stage = stage, ![r].setup = s, ![r].source = v,
                                       ![r].snapshot = n]
  BY EarlyMoves
<1>2. /\ process[r].stage \in Early \union {"inspect"} /\ FilesTyped'
      /\ lock' = lock /\ journal' = journal /\ manifest' = manifest /\ deployed' = deployed
  BY EarlyMoves
<1> QED
  BY <1>1, <1>2, EarlyStep

\* From the journal to the manifest.
LEMMA JournalSteps ==
    ASSUME DeploymentInv, NEW r \in Runs, OpenJournal(r) \/ RecordReceipt(r) \/ VerifyDeployed(r)
    PROVE  DeploymentInv'
<1>0. /\ process[r] \in Process /\ RunOK(process[r]) /\ FilesTyped /\ JournalInv
      /\ process \in [Runs -> Process]
  BY RunFacts
<1>1. CASE OpenJournal(r)
  <2>1. /\ process[r].stage = "journal" /\ Holding(r) /\ ~journal /\ journal' = TRUE
        /\ To(r, "sending")
        /\ lock' = lock /\ setup' = setup /\ source' = source /\ prepared' = prepared
        /\ artifact' = artifact /\ manifest' = manifest /\ generated' = generated
        /\ deployed' = deployed /\ verifier' = verifier /\ revocationRoot' = revocationRoot
        /\ published' = published /\ starts' = starts /\ orphans' = orphans
    BY <1>1 DEF OpenJournal, In, Holding, Elsewhere, fujiVars
  <2>2. process[r].next = 1 /\ manifest = NoFile
    BY <1>0, <2>1 DEF RunOK, Sending
  <2>3. PICK p : p = [process[r] EXCEPT !.stage = "sending"]
    OBVIOUS
  <2>4. /\ p \in Process /\ p.stage = "sending" /\ p.next = 1
        /\ process' = [process EXCEPT ![r] = p]
    BY <1>0, <2>1, <2>2, <2>3 DEF Process, Stages, To
  <2>5. FilesTyped'
    BY <1>0, <2>1 DEF FilesTyped
  <2>6. JournalInv'
    BY <1>0, <2>1 DEF JournalInv, DeployedOnce
  <2>7. \A i \in 1 .. 3 : deployed[Contracts[i]] = 0
    BY <1>0, <2>1, ContractsAre DEF JournalInv
  <2>8. RunOK(p)'
    BY <2>1, <2>2, <2>4, <2>7 DEF RunOK, Sending, DeployedUpTo
  <2> QED
    BY <2>1, <2>4, <2>5, <2>6, <2>8, RunStep
<1>2. CASE RecordReceipt(r)
  <2>1. /\ process[r].stage = "settling" /\ Holding(r) /\ process[r].next \in 1 .. 3
        /\ OnlyReads
        /\ process' = IF process[r].next < 3
                      THEN [process EXCEPT ![r].stage = "sending", ![r].next = @ + 1]
                      ELSE [process EXCEPT ![r].stage = "verifying"]
    BY <1>0, <1>2 DEF RecordReceipt, In, Holding, Process
  <2>2. journal /\ manifest = NoFile /\ DeployedUpTo(process[r].next)
    BY <1>0, <2>1 DEF RunOK, Sending
  <2>3. PICK p : p = IF process[r].next < 3
                     THEN [process[r] EXCEPT !.stage = "sending", !.next = process[r].next + 1]
                     ELSE [process[r] EXCEPT !.stage = "verifying"]
    OBVIOUS
  <2>4. CASE process[r].next < 3
    <3>1. /\ p \in Process /\ p.stage = "sending" /\ p.next = process[r].next + 1
          /\ process' = [process EXCEPT ![r] = p]
      BY <1>0, <2>1, <2>3, <2>4 DEF Process, Stages
    <3>2. DeployedUpTo(p.next - 1)
      BY <2>1, <2>2, <3>1
    <3>3. RunOK(p)
      BY <2>2, <3>1, <3>2 DEF RunOK, Sending
    <3> QED
      BY <1>0, <2>1, <3>1, <3>3, RunQuietStep DEF OnlyReads, Elsewhere, files, fujiVars, FilesTyped
  <2>5. CASE ~(process[r].next < 3)
    <3>1. /\ p \in Process /\ p.stage = "verifying" /\ process' = [process EXCEPT ![r] = p]
      BY <1>0, <2>1, <2>3, <2>5 DEF Process, Stages
    <3>2. DeployedUpTo(3)
      BY <2>1, <2>2, <2>5
    <3>3. RunOK(p)
      BY <2>2, <3>1, <3>2 DEF RunOK, Sending
    <3> QED
      BY <1>0, <2>1, <3>1, <3>3, RunQuietStep DEF OnlyReads, Elsewhere, files, fujiVars, FilesTyped
  <2> QED
    BY <2>4, <2>5
<1>3. CASE VerifyDeployed(r)
  <2>1. /\ process[r].stage = "verifying" /\ Holding(r) /\ To(r, "manifest") /\ OnlyReads
    BY <1>3 DEF VerifyDeployed, In, Holding
  <2>2. PICK p : p = [process[r] EXCEPT !.stage = "manifest"]
    OBVIOUS
  <2>3. p \in Process /\ p.stage = "manifest" /\ process' = [process EXCEPT ![r] = p]
    BY <1>0, <2>1, <2>2 DEF Process, Stages, To
  <2>4. RunOK(p)
    BY <1>0, <2>1, <2>3 DEF RunOK, Sending
  <2> QED
    BY <1>0, <2>1, <2>3, <2>4, RunQuietStep DEF OnlyReads, Elsewhere, files, fujiVars, FilesTyped
<1> QED
  BY <1>1, <1>2, <1>3

LEMMA SendingStep ==
    ASSUME DeploymentInv, NEW r \in Runs, SendDeploy(r)
    PROVE  DeploymentInv'
<1>0. /\ process[r] \in Process /\ RunOK(process[r]) /\ FilesTyped /\ JournalInv
      /\ process \in [Runs -> Process]
  BY RunFacts
<1>1. /\ process[r].stage = "sending" /\ Holding(r) /\ To(r, "settling")
      /\ deployed' = [deployed EXCEPT ![Contract(r)] = @ + 1]
      /\ verifier' = (IF Contract(r) = "verifier" THEN process[r].source ELSE verifier)
      /\ revocationRoot' = (IF Contract(r) = "escrow" THEN process[r].snapshot
                            ELSE revocationRoot)
      /\ lock' = lock /\ setup' = setup /\ source' = source /\ prepared' = prepared
      /\ artifact' = artifact /\ journal' = journal /\ manifest' = manifest
      /\ generated' = generated /\ published' = published /\ starts' = starts
      /\ orphans' = orphans
  BY DEF SendDeploy, In, Holding, files
<1>2. PICK p : p = [process[r] EXCEPT !.stage = "settling"]
  OBVIOUS
<1>3. /\ p \in Process /\ p.stage = "settling" /\ p.next = process[r].next
      /\ process' = [process EXCEPT ![r] = p]
  BY <1>0, <1>1, <1>2 DEF Process, Stages, To
<1>4. journal /\ manifest = NoFile /\ DeployedUpTo(process[r].next - 1)
  BY <1>0, <1>1 DEF RunOK, Sending
<1>5. /\ process[r].next \in {1, 2, 3} /\ process[r].snapshot \in Snapshots
      /\ process[r].source \in Versions
  BY <1>0 DEF Process
<1>6. /\ deployed \in [{"verifier", "keyRegistry", "escrow"} -> Nat]
      /\ deployed["verifier"] = (IF 1 <= process[r].next - 1 THEN 1 ELSE 0)
      /\ deployed["keyRegistry"] = (IF 2 <= process[r].next - 1 THEN 1 ELSE 0)
      /\ deployed["escrow"] = (IF 3 <= process[r].next - 1 THEN 1 ELSE 0)
  BY <1>0, <1>4, ContractsAre DEF DeployedUpTo, FilesTyped, ContractNames
<1>7. /\ deployed' \in [{"verifier", "keyRegistry", "escrow"} -> Nat]
      /\ deployed'["verifier"] = (IF 1 <= process[r].next THEN 1 ELSE 0)
      /\ deployed'["keyRegistry"] = (IF 2 <= process[r].next THEN 1 ELSE 0)
      /\ deployed'["escrow"] = (IF 3 <= process[r].next THEN 1 ELSE 0)
  <2>1. CASE process[r].next = 1
    BY <1>1, <1>6, <2>1, ContractsAre DEF Contract
  <2>2. CASE process[r].next = 2
    BY <1>1, <1>6, <2>2, ContractsAre DEF Contract
  <2>3. CASE process[r].next = 3
    BY <1>1, <1>6, <2>3, ContractsAre DEF Contract
  <2> QED
    BY <1>5, <2>1, <2>2, <2>3
<1>8. FilesTyped'
  <2>1. revocationRoot' \in Snapshots \union {0} /\ verifier' \in Versions
    BY <1>0, <1>1, <1>5 DEF FilesTyped
  <2>2. deployed' \in [ContractNames -> Nat]
    BY <1>7 DEF ContractNames
  <2> QED
    BY <1>0, <1>1, <2>1, <2>2 DEF FilesTyped
<1>9. JournalInv'
  <2>1. DeployedOnce'
    BY <1>5, <1>7 DEF DeployedOnce, ContractNames
  <2> QED
    BY <1>1, <1>4, <2>1 DEF JournalInv
<1>10. DeployedUpTo(p.next)'
  <2>1. ASSUME NEW i \in {1, 2, 3}
        PROVE  deployed'[Contracts[i]] = IF i <= process[r].next THEN 1 ELSE 0
    BY <1>7, <2>1, ContractsAre
  <2>2. 1 .. 3 = {1, 2, 3}
    OBVIOUS
  <2> QED
    BY <1>3, <2>1, <2>2 DEF DeployedUpTo
<1>11. RunOK(p)'
  BY <1>1, <1>3, <1>4, <1>10 DEF RunOK, Sending
<1> QED
  BY <1>1, <1>3, <1>8, <1>9, <1>11, RunStep

\* The manifest is rewritten only where the deployment is complete.
LEMMA ManifestSteps ==
    ASSUME DeploymentInv, NEW r \in Runs,
           WriteManifest(r) \/ SaveReference(r) \/ FillManifest(r)
    PROVE  /\ DeploymentInv' /\ process[r].stage \in {"manifest", "saving", "filling"}
           /\ journal /\ AllDeployed
<1>0. /\ process[r] \in Process /\ RunOK(process[r]) /\ FilesTyped /\ JournalInv
      /\ process \in [Runs -> Process]
  BY RunFacts
<1>1. /\ process[r].stage \in {"manifest", "saving", "filling"} /\ Holding(r)
      /\ lock' = lock /\ setup' = setup /\ source' = source /\ prepared' = prepared
      /\ artifact' = artifact /\ journal' = journal /\ generated' = generated
      /\ deployed' = deployed /\ verifier' = verifier /\ revocationRoot' = revocationRoot
      /\ published' = published /\ starts' = starts /\ orphans' = orphans
  BY DEF WriteManifest, SaveReference, FillManifest, Truncate, In, Holding, Elsewhere, fujiVars
<1>2. journal /\ AllDeployed
  <2>1. CASE process[r].stage = "manifest"
    BY <1>0, <2>1, ContractsAre DEF RunOK, Sending, DeployedUpTo, AllDeployed
  <2>2. CASE process[r].stage \in {"saving", "filling"}
    <3>1. manifest # NoFile
      BY <1>0, <1>1, <2>2, DeploymentAssumption DEF RunOK
    <3>2. \A c \in ContractNames : deployed[c] > 0 /\ deployed[c] <= 1 /\ deployed[c] \in Nat
      BY <1>0, <3>1 DEF JournalInv, DeployedOnce, FilesTyped
    <3>3. \A c \in ContractNames : deployed[c] = 1
      BY <3>2
    <3> QED
      BY <1>0, <3>1, <3>3 DEF JournalInv, AllDeployed
  <2> QED
    BY <1>1, <2>1, <2>2
<1>3. JournalInv'
  BY <1>0, <1>1, <1>2 DEF JournalInv, DeployedOnce, AllDeployed
<1>4. CASE WriteManifest(r) \/ SaveReference(r)
  <2>1. manifest' = Torn /\ To(r, "filling")
    BY <1>4 DEF WriteManifest, SaveReference, Truncate
  <2>2. PICK p : p = [process[r] EXCEPT !.stage = "filling"]
    OBVIOUS
  <2>3. p \in Process /\ p.stage = "filling" /\ process' = [process EXCEPT ![r] = p]
    BY <1>0, <2>1, <2>2 DEF Process, Stages, To
  <2>4. RunOK(p)'
    BY <2>1, <2>3 DEF RunOK, Sending
  <2>5. FilesTyped'
    BY <1>0, <1>1, <2>1 DEF FilesTyped
  <2> QED
    BY <1>1, <1>2, <1>3, <2>3, <2>4, <2>5, RunStep
<1>5. CASE FillManifest(r)
  <2>1. /\ manifest' = [setup |-> process[r].setup, snapshot |-> process[r].snapshot,
                        reference |-> process[r].reference]
        /\ To(r, "finished")
    BY <1>5 DEF FillManifest
  <2>2. PICK p : p = [process[r] EXCEPT !.stage = "finished"]
    OBVIOUS
  <2>3. p \in Process /\ p.stage = "finished" /\ process' = [process EXCEPT ![r] = p]
    BY <1>0, <2>1, <2>2 DEF Process, Stages, To
  <2>4. RunOK(p)'
    BY <2>3 DEF RunOK, Sending
  <2>5. manifest' \in Manifest
    BY <1>0, <2>1 DEF Manifest, Process
  <2>6. FilesTyped'
    BY <1>0, <1>1, <2>5 DEF FilesTyped
  <2> QED
    BY <1>1, <1>2, <1>3, <2>3, <2>4, <2>6, RunStep
<1> QED
  BY <1>4, <1>5

LEMMA PublishSteps ==
    ASSUME DeploymentInv, NEW r \in Runs, Compare(r) \/ RetrieveSnapshot(r)
    PROVE  DeploymentInv'
<1>0. /\ process[r] \in Process /\ RunOK(process[r]) /\ FilesTyped
      /\ process \in [Runs -> Process]
  BY RunFacts
<1>1. CASE Compare(r)
  <2>1. /\ process[r].stage = "comparing" /\ Holding(r) /\ manifest \in Manifest
        /\ manifest.reference \in {NoReference, process[r].reference} /\ OnlyReads
        /\ process' = [process EXCEPT ![r].stage = "retrieving", ![r].setup = manifest.setup,
                                      ![r].snapshot = published]
    BY <1>0, <1>1, DeploymentAssumption DEF Compare, Replaces, In, Holding, FilesTyped
  <2>2. PICK p : p = [process[r] EXCEPT !.stage = "retrieving", !.setup = manifest.setup,
                                        !.snapshot = published]
    OBVIOUS
  <2>3. manifest.setup \in Versions /\ published \in Snapshots /\ process[r].next = 1
    BY <1>0, <2>1 DEF FilesTyped, Manifest, RunOK, Sending
  <2>4. /\ p \in Process /\ p.stage = "retrieving" /\ p.next = 1
        /\ p.reference = process[r].reference /\ process' = [process EXCEPT ![r] = p]
    BY <1>0, <2>1, <2>2, <2>3 DEF Process, Stages
  <2>5. RunOK(p)
    BY <2>1, <2>4 DEF RunOK, Sending
  <2> QED
    BY <1>0, <2>1, <2>4, <2>5, RunQuietStep DEF OnlyReads, Elsewhere, files, fujiVars, FilesTyped
<1>2. CASE RetrieveSnapshot(r)
  <2>1. process[r].stage = "retrieving" /\ Holding(r) /\ To(r, "saving") /\ OnlyReads
    BY <1>2 DEF RetrieveSnapshot, In, Holding
  <2>2. PICK p : p = [process[r] EXCEPT !.stage = "saving"]
    OBVIOUS
  <2>3. /\ p \in Process /\ p.stage = "saving" /\ p.next = process[r].next
        /\ p.reference = process[r].reference
        /\ process' = [process EXCEPT ![r] = p]
    BY <1>0, <2>1, <2>2 DEF Process, Stages, To
  <2>4. RunOK(p)
    BY <1>0, <2>1, <2>3 DEF RunOK, Sending
  <2> QED
    BY <1>0, <2>1, <2>3, <2>4, RunQuietStep DEF OnlyReads, Elsewhere, files, fujiVars, FilesTyped
<1> QED
  BY <1>1, <1>2

\* A run ends anywhere; what it leaves behind touches neither the journal nor
\* the manifest.
LEMMA EndingSteps ==
    ASSUME DeploymentInv, NEW r \in Runs, Exit(r) \/ Kill(r)
    PROVE  DeploymentInv'
<1>0. /\ process[r] \in Process /\ FilesTyped /\ process \in [Runs -> Process]
  BY RunFacts
<1>1. PICK p : p = Off
  OBVIOUS
<1>2. p \in Process /\ RunOK(p)
  BY <1>1, OffIsProcess DEF RunOK, Sending
<1>3. /\ Holding(r) /\ process' = [process EXCEPT ![r] = p]
      /\ lock' = lock \/ lock' = NoRun
      /\ setup' = setup /\ source' = source /\ prepared' = prepared /\ artifact' = artifact
      /\ journal' = journal /\ manifest' = manifest /\ generated' = generated
      /\ deployed' = deployed /\ verifier' = verifier /\ revocationRoot' = revocationRoot
      /\ published' = published /\ starts' = starts
      /\ orphans' = orphans \/ (WaitsForChild(r) /\ orphans' = orphans \union {Child(r)})
  BY <1>1 DEF Exit, Kill, Quit, files, fujiVars, Elsewhere
<1>4. WaitsForChild(r) => Child(r) \in Orphan
  BY <1>0 DEF WaitsForChild, Child, Orphan, Process
<1>5. FilesTyped'
  BY <1>0, <1>3, <1>4 DEF FilesTyped
<1> QED
  BY <1>1, <1>2, <1>3, <1>5, OffIsProcess, RunQuietStep

LEMMA OutsideSteps ==
    ASSUME DeploymentInv,
           \/ (\E r \in Runs : StartCommand(r)) \/ ClearLock \/ ClearSetup \/ NewSnapshot
           \/ UpdateRoot \/ (\E o \in orphans : OrphanWrites(o) \/ OrphanEnds(o))
    PROVE  DeploymentInv'
<1>0. /\ FilesTyped /\ process \in [Runs -> Process] /\ lock \in Runs \union {NoRun}
      /\ \A r \in Runs : Holding(r) => lock = r
  BY DEF DeploymentInv
<1>1. ASSUME NEW r \in Runs, StartCommand(r) PROVE DeploymentInv'
  <2>1. PICK command \in Commands, snap \in References :
           process' = [process EXCEPT ![r] =
             [Off EXCEPT !.command = command, !.stage = "open",
                         !.reference = IF command = "broadcast-contracts" \/ command = "prepare"
                                       THEN NoReference ELSE snap]]
    BY <1>1 DEF StartCommand
  <2>2. PICK q : q = (IF command = "broadcast-contracts" \/ command = "prepare"
                      THEN NoReference ELSE snap)
    OBVIOUS
  <2>3. PICK p : p = [Off EXCEPT !.command = command, !.stage = "open", !.reference = q]
    OBVIOUS
  <2>4. q \in References \union {NoReference} /\ Off.next = 1
    BY <2>2 DEF Off
  <2>5. p \in Process /\ p.stage = "open" /\ p.next = 1
    BY <2>3, <2>4, OffIsProcess DEF Process, Stages
  <2>6. process' = [process EXCEPT ![r] = p]
    BY <2>1, <2>2, <2>3
  <2>7. /\ starts < MaxStarts /\ starts' = starts + 1
        /\ lock' = lock /\ setup' = setup /\ source' = source /\ prepared' = prepared
        /\ artifact' = artifact /\ journal' = journal /\ manifest' = manifest
        /\ generated' = generated /\ deployed' = deployed /\ verifier' = verifier
        /\ revocationRoot' = revocationRoot /\ published' = published /\ orphans' = orphans
    BY <1>1 DEF StartCommand, files, fujiVars
  <2>8. starts' \in 0 .. MaxStarts
    BY <1>0, <2>7, DeploymentAssumption DEF FilesTyped
  <2>9. FilesTyped'
    BY <1>0, <2>7, <2>8 DEF FilesTyped
  <2>10. /\ process' \in [Runs -> Process]
         /\ \A x \in Runs : \/ process'[x] = process[x]
                            \/ (process'[x].stage = "open" /\ process'[x].next = 1)
    BY <1>0, <2>5, <2>6
  <2> QED
    BY <1>0, <2>7, <2>9, <2>10, OutsideStep
<1>2. CASE ClearLock
  <2>1. /\ ~Holding(lock) /\ lock # NoRun /\ lock' = NoRun /\ process' = process
        /\ setup' = setup /\ source' = source /\ prepared' = prepared /\ artifact' = artifact
        /\ journal' = journal /\ manifest' = manifest /\ generated' = generated
        /\ deployed' = deployed /\ verifier' = verifier /\ revocationRoot' = revocationRoot
        /\ published' = published /\ starts' = starts /\ orphans' = orphans
    BY <1>2 DEF ClearLock, files, fujiVars, Elsewhere
  <2>2. FilesTyped'
    BY <1>0, <2>1 DEF FilesTyped
  <2>3. \A r \in Runs : ~Holding(r)
    BY <1>0, <2>1
  <2> QED
    BY <1>0, <2>1, <2>2, <2>3, OutsideStep
<1>3. CASE \/ ClearSetup \/ NewSnapshot \/ UpdateRoot
           \/ \E o \in orphans : OrphanWrites(o) \/ OrphanEnds(o)
  <2>1. /\ lock' = lock /\ process' = process /\ journal' = journal /\ manifest' = manifest
        /\ deployed' = deployed /\ generated' = generated /\ verifier' = verifier
        /\ starts' = starts
    BY <1>3 DEF ClearSetup, NewSnapshot, UpdateRoot, OrphanWrites, OrphanEnds, files, fujiVars,
                Elsewhere
  <2>2. CASE ClearSetup
    BY <1>0, <2>1, <2>2, OutsideStep DEF ClearSetup, FilesTyped, Elsewhere, fujiVars, Versions
  <2>3. CASE NewSnapshot \/ UpdateRoot
    <3>1. published' \in Snapshots /\ revocationRoot' \in Snapshots \union {0}
      BY <1>0, <2>3, DeploymentAssumption
      DEF NewSnapshot, UpdateRoot, FilesTyped, Snapshots, fujiVars
    <3>2. UNCHANGED <<setup, source, artifact, prepared, orphans>>
      BY <2>3 DEF NewSnapshot, UpdateRoot, files
    <3> QED
      BY <1>0, <2>1, <3>1, <3>2, OutsideStep DEF FilesTyped
  <2>4. ASSUME NEW o \in orphans, OrphanWrites(o) \/ OrphanEnds(o) PROVE DeploymentInv'
    <3>1. /\ o.version \in Versions /\ [o EXCEPT !.stage = "exporting"] \in Orphan
          /\ orphans \subseteq Orphan
      BY <1>0 DEF FilesTyped, Orphan, Proving
    <3>2. /\ setup' \in Versions /\ source' \in Versions /\ artifact' \in Versions
          /\ orphans' \subseteq Orphan
      BY <1>0, <2>4, <3>1 DEF OrphanWrites, OrphanEnds, FilesTyped, files
    <3>3. UNCHANGED <<prepared, revocationRoot, published>>
      BY <2>4 DEF OrphanWrites, OrphanEnds, fujiVars, files
    <3> QED
      BY <1>0, <2>1, <3>2, <3>3, OutsideStep DEF FilesTyped
  <2> QED
    BY <1>3, <2>2, <2>3, <2>4
<1> QED
  BY <1>1, <1>2, <1>3

\* The lock is taken only when nobody is inside.
LEMMA OpenStep == ASSUME DeploymentInv, NEW r \in Runs, Open(r) PROVE DeploymentInv'
<1>0. /\ FilesTyped /\ process \in [Runs -> Process] /\ lock \in Runs \union {NoRun}
      /\ process[r] \in Process /\ JournalInv
      /\ \A q \in Runs : (Holding(q) => lock = q) /\ RunOK(process[q])
  BY DEF DeploymentInv
<1>1. /\ process[r].stage = "open"
      /\ setup' = setup /\ source' = source /\ prepared' = prepared /\ artifact' = artifact
      /\ journal' = journal /\ manifest' = manifest /\ generated' = generated
      /\ deployed' = deployed /\ verifier' = verifier /\ revocationRoot' = revocationRoot
      /\ published' = published /\ starts' = starts /\ orphans' = orphans
  BY DEF Open, In, files, fujiVars, Elsewhere
<1>2. FilesTyped' /\ JournalInv'
  BY <1>0, <1>1 DEF FilesTyped, JournalInv, DeployedOnce
<1>3. CASE /\ LockFree /\ lock' = r
           /\ To(r, IF process[r].command = "publish-snapshot" THEN "comparing" ELSE "inspect")
  <2>1. \A q \in Runs : ~Holding(q)
    BY <1>0, <1>3, DeploymentAssumption DEF LockFree
  <2>2. PICK stage \in {"comparing", "inspect"} : To(r, stage)
    BY <1>3
  <2>3. PICK p : p = [process[r] EXCEPT !.stage = stage]
    OBVIOUS
  <2>4. /\ p \in Process /\ p.stage = stage /\ p.next = 1
        /\ process' = [process EXCEPT ![r] = p]
    BY <1>0, <1>1, <2>2, <2>3 DEF Process, Stages, To, RunOK, Sending
  <2>5. /\ process' \in [Runs -> Process] /\ process'[r] = p
        /\ \A q \in Runs \ {r} : process'[q] = process[q]
    BY <1>0, <2>4
  <2>6. ASSUME NEW q \in Runs PROVE (Holding(q) => lock = q)' /\ RunOK(process[q])'
    <3>1. CASE q = r
      BY <1>3, <2>4, <2>5, <3>1 DEF RunOK, Sending
    <3>2. CASE q # r
      <4>1. process'[q] = process[q] /\ process[q].stage \in {"off", "open"}
        BY <2>1, <2>5, <3>2 DEF Holding
      <4> QED
        BY <1>0, <4>1 DEF Holding, RunOK, Sending
    <3> QED
      BY <3>1, <3>2
  <2> QED
    BY <1>2, <1>3, <2>5, <2>6 DEF DeploymentInv
<1>4. CASE ~LockFree /\ Quit(r) /\ UNCHANGED lock
  <2>1. /\ process' \in [Runs -> Process] /\ process'[r].stage = "off"
        /\ \A q \in Runs \ {r} : process'[q] = process[q]
    BY <1>0, <1>4, OffIsProcess DEF Quit
  <2> QED
    BY <1>0, <1>1, <1>2, <1>4, <2>1, OutsideStep
<1> QED
  BY <1>3, <1>4 DEF Open

LEMMA DeploymentStep == DeploymentInv /\ [DeploymentNext]_deploymentVars => DeploymentInv'
<1> SUFFICES ASSUME DeploymentInv, [DeploymentNext]_deploymentVars PROVE DeploymentInv'
  OBVIOUS
<1>1. CASE DeploymentNext
  BY <1>1, EarlyStepsInv, JournalSteps, SendingStep, ManifestSteps, PublishSteps, EndingSteps,
     OutsideSteps, OpenStep
  DEF DeploymentNext, EarlySteps
<1>2. CASE UNCHANGED deploymentVars
  <2>1. /\ lock' = lock /\ setup' = setup /\ source' = source /\ prepared' = prepared
        /\ artifact' = artifact /\ journal' = journal /\ manifest' = manifest
        /\ generated' = generated /\ deployed' = deployed /\ verifier' = verifier
        /\ revocationRoot' = revocationRoot /\ published' = published /\ process' = process
        /\ orphans' = orphans /\ starts' = starts
    BY <1>2 DEF deploymentVars
  <2>2. FilesTyped'
    BY <2>1 DEF DeploymentInv, FilesTyped
  <2> QED
    BY <2>1, <2>2, OutsideStep DEF DeploymentInv
<1> QED
  BY <1>1, <1>2

LEMMA DeploymentAlways == DeploymentSpec => []DeploymentInv
  BY DeploymentInitInv, DeploymentStep, PTL DEF DeploymentSpec

\* deploy-fuji.mjs and publish-snapshot.mjs keep the state well formed.
THEOREM DeploymentIsTyped == DeploymentSpec => []DeploymentTypeOK
  BY DeploymentAlways, DeploymentTyped, PTL

\* No contract is deployed twice, whatever is killed, left behind and started
\* again (deploy-fuji.mjs: the lock, the journal and the manifest are each
\* looked for before a transaction is sent).
THEOREM ContractsDeployedOnce == DeploymentSpec => []DeployedOnce
<1>1. DeploymentInv => DeployedOnce
  BY DEF DeploymentInv, JournalInv
<1> QED
  BY <1>1, DeploymentAlways, PTL

-----------------------------------------------------------------------------
(* What prepared.json, the setup, the verifier source, the artifacts and   *)
(* the chain say of each other.  A prover left behind could write over the *)
(* setup that another run has checked; it cannot while its run's lock      *)
(* stays, and then nobody is inside.                                       *)

Whole == prepared = [setup |-> setup, source |-> source] /\ source = setup

SetupOK(p) ==
    /\ p.stage \in Proving \union {"noting"} => prepared = NoFile
    /\ p.stage = "exporting" => setup = p.setup
    /\ p.stage = "noting" => source = setup
    /\ p.stage = "noted" => prepared = Torn /\ source = setup
    /\ p.stage \in {"noted", "building", "validating", "journal"} \union Sending =>
         p.setup = setup /\ p.source = setup
    /\ p.stage \in {"building", "linking", "validating", "journal"} \union Sending => Whole
    /\ p.stage = "linking" => p.setup = setup /\ artifact = setup
    /\ p.stage \in {"retrieving", "saving", "filling"} => p.setup = setup

SetupInv ==
    /\ prepared \in Prepared => Whole
    /\ journal => Whole
    /\ deployed["verifier"] > 0 => verifier = setup
    /\ manifest \in Manifest => manifest.setup = setup
    /\ \A o \in orphans : IF o.stage = "building"
                          THEN Whole /\ o.version = setup
                          ELSE prepared = NoFile /\ \A r \in Runs : ~Holding(r)
    /\ \A r \in Runs : SetupOK(process[r])

\* As long as the setup is not prepared, nothing has come of it.
LEMMA NotWhole ==
    ASSUME DeploymentInv, SetupInv, prepared \in {NoFile, Torn}
    PROVE  /\ ~Whole /\ ~journal /\ deployed["verifier"] = 0 /\ manifest = NoFile
           /\ \A o \in orphans : o.stage # "building"
<1>1. ~Whole
  <2>1. [setup |-> setup, source |-> source] \in Prepared
    BY DEF DeploymentInv, FilesTyped, Prepared
  <2> QED
    BY <2>1, DeploymentAssumption DEF Whole
<1>2. ~journal /\ \A o \in orphans : o.stage # "building"
  BY <1>1 DEF SetupInv
<1> QED
  BY <1>1, <1>2 DEF DeploymentInv, JournalInv, ContractNames

\* A run inside the lock moves on, leaving what is whole as it is.
LEMMA SetupRunStep ==
    ASSUME DeploymentInv, SetupInv, NEW r \in Runs, Holding(r), NEW p,
           process' = [process EXCEPT ![r] = p],
           Whole => Whole' /\ setup' = setup,
           orphans' = orphans \/ (/\ p.stage = "off" /\ lock' = lock
                                  /\ prepared' = prepared
                                  /\ \E o : /\ orphans' = orphans \union {o}
                                            /\ o.stage = "building" => Whole /\ o.version = setup
                                            /\ o.stage # "building" => prepared = NoFile),
           (prepared \in Prepared => Whole)', (journal => Whole)',
           (deployed["verifier"] > 0 => verifier = setup)',
           (manifest \in Manifest => manifest.setup = setup)',
           SetupOK(p)'
    PROVE  SetupInv'
<1>1. /\ process \in [Runs -> Process] /\ \A q \in Runs : q # r => ~Holding(q)
  BY DEF DeploymentInv
<1>2. /\ process'[r] = p /\ \A q \in Runs : q # r => process'[q] = process[q]
  BY <1>1
<1>3. ASSUME NEW q \in Runs PROVE SetupOK(process[q])'
  <2>1. CASE q = r
    BY <1>2, <2>1 DEF SetupOK, Whole
  <2>2. CASE q # r
    <3>1. process'[q] = process[q] /\ process[q].stage \in {"off", "open"}
      BY <1>1, <1>2, <2>2 DEF Holding
    <3> QED
      BY <3>1 DEF SetupOK, Proving, Sending
  <2> QED
    BY <2>1, <2>2
<1>4. ASSUME NEW o \in orphans
      PROVE  o.stage = "building" /\ Whole' /\ o.version = setup'
  BY DEF SetupInv
<1>5. ASSUME NEW o \in orphans'
      PROVE  IF o.stage = "building" THEN Whole' /\ o.version = setup'
             ELSE prepared' = NoFile /\ \A q \in Runs : ~Holding(q)'
  <2>1. CASE o \in orphans
    BY <1>4, <2>1
  <2>2. CASE o \notin orphans
    <3>1. /\ p.stage = "off" /\ prepared' = prepared
          /\ o.stage = "building" => Whole /\ o.version = setup
          /\ o.stage # "building" => prepared = NoFile
      BY <1>5, <2>2
    <3>2. \A q \in Runs : ~Holding(q)'
      BY <1>1, <1>2, <3>1 DEF Holding
    <3> QED
      BY <3>1, <3>2
  <2> QED
    BY <2>1, <2>2
<1> QED
  BY <1>3, <1>5 DEF SetupInv

\* The step of another actor touches none of it.
LEMMA SetupOutsideStep ==
    ASSUME DeploymentInv, SetupInv, process' \in [Runs -> Process],
           UNCHANGED <<setup, source, prepared, manifest, journal, deployed, verifier>>,
           artifact' = artifact \/ (Whole /\ artifact' = setup),
           orphans' \subseteq orphans,
           \A q \in Runs : \/ process'[q] = process[q]
                           \/ process'[q].stage \in {"off", "open"}
                           \/ (process'[q].stage \in {"inspect", "comparing"}
                                 /\ \A o \in orphans : o.stage = "building")
    PROVE  SetupInv'
<1>1. Whole' <=> Whole
  BY DEF Whole
<1>2. ASSUME NEW q \in Runs PROVE SetupOK(process[q])'
  <2>1. CASE process'[q] = process[q]
    <3>1. SetupOK(process[q])
      BY DEF SetupInv
    <3> QED
      BY <1>1, <2>1, <3>1 DEF SetupOK
  <2>2. CASE process'[q].stage \in {"off", "open", "inspect", "comparing"}
    BY <2>2 DEF SetupOK, Proving, Sending
  <2> QED
    BY <2>1, <2>2
<1>3. ASSUME NEW o \in orphans', o.stage # "building"
      PROVE  prepared' = NoFile /\ \A q \in Runs : ~Holding(q)'
  <2>1. o \in orphans /\ prepared = NoFile /\ \A q \in Runs : ~Holding(q)
    BY <1>3 DEF SetupInv
  <2>2. ASSUME NEW q \in Runs PROVE ~Holding(q)'
    BY <1>3, <2>1 DEF Holding
  <2> QED
    BY <2>1, <2>2
<1>4. \A o \in orphans' : o.stage = "building" => Whole' /\ o.version = setup'
  BY <1>1 DEF SetupInv
<1> QED
  BY <1>1, <1>2, <1>3, <1>4 DEF SetupInv

LEMMA SetupInitInv == DeploymentInit => SetupInv
<1> SUFFICES ASSUME DeploymentInit PROVE SetupInv
  OBVIOUS
<1>1. \A r \in Runs : SetupOK(process[r])
  BY OffIsProcess DEF DeploymentInit, SetupOK, Proving, Sending
<1>2. prepared \notin Prepared /\ manifest \notin Manifest /\ deployed["verifier"] = 0
  BY DeploymentAssumption DEF DeploymentInit, ContractNames
<1> QED
  BY <1>1, <1>2 DEF DeploymentInit, SetupInv

LEMMA EarlySetup ==
    ASSUME DeploymentInv, SetupInv, NEW r \in Runs, EarlySteps(r)
    PROVE  SetupInv'
<1>0. /\ process[r] \in Process /\ FilesTyped /\ process \in [Runs -> Process]
      /\ SetupOK(process[r])
  BY RunFacts DEF SetupInv
<1>1. PICK stage \in Early, s \in Versions, v \in Versions, n \in Snapshots :
         /\ stage = "journal" => manifest = NoFile
         /\ process' = [process EXCEPT ![r].stage = stage, ![r].setup = s, ![r].source = v,
                                       ![r].snapshot = n]
  BY EarlyMoves
<1>2. /\ process[r].stage \in Early \union {"inspect"}
      /\ journal' = journal /\ manifest' = manifest /\ orphans' = orphans
      /\ deployed' = deployed /\ verifier' = verifier
  BY EarlyMoves
<1>3. PICK p : p = [process[r] EXCEPT !.stage = stage, !.setup = s, !.source = v,
                                      !.snapshot = n]
  OBVIOUS
<1>4. /\ p.stage = stage /\ p.setup = s /\ p.source = v /\ process' = [process EXCEPT ![r] = p]
      /\ process'[r] = p /\ Holding(r)
  BY <1>0, <1>1, <1>2, <1>3 DEF Process, Holding, Early, Proving
<1>5. \A o \in orphans : o.stage = "building" /\ Whole
  BY <1>4 DEF SetupInv
<1>6. ASSUME UNCHANGED <<setup, source, prepared>>, SetupOK(p)' PROVE SetupInv'
  <2>1. (Whole' <=> Whole) /\ setup' = setup
    BY <1>6 DEF Whole
  <2>2. /\ (prepared \in Prepared => Whole)' /\ (journal => Whole)'
        /\ (deployed["verifier"] > 0 => verifier = setup)'
        /\ (manifest \in Manifest => manifest.setup = setup)'
    BY <1>2, <1>6, <2>1 DEF SetupInv
  <2> QED
    BY <1>2, <1>4, <1>6, <2>1, <2>2, SetupRunStep
<1>7. CASE Inspect(r) \/ UsePrepared(r)
  <2>1. /\ UNCHANGED <<setup, source, prepared>> /\ p.stage \in {"preparing", "checking"}
    BY <1>0, <1>4, <1>7 DEF Inspect, UsePrepared, OnlyReads, files, To, Process
  <2> QED
    BY <1>6, <2>1 DEF SetupOK, Proving, Sending
<1>8. CASE StartProver(r)
  <2>1. /\ UNCHANGED <<setup, source, prepared>> /\ prepared = NoFile /\ p.stage = "proving"
    BY <1>0, <1>4, <1>8 DEF StartProver, Process
  <2> QED
    BY <1>6, <2>1 DEF SetupOK, Proving, Sending
<1>9. CASE WriteKeys(r) \/ ExportSolidity(r) \/ NotePrepared(r)
  <2>1. /\ prepared = NoFile /\ prepared' \in {NoFile, Torn}
    BY <1>0, <1>9 DEF WriteKeys, ExportSolidity, NotePrepared, In, SetupOK, Proving
  <2>2. ~Whole /\ ~journal /\ deployed["verifier"] = 0 /\ manifest = NoFile
    BY <2>1, NotWhole
  <2>3. prepared' \notin Prepared /\ ~journal' /\ ~(deployed'["verifier"] > 0)
        /\ manifest' \notin Manifest
    BY <1>2, <2>1, <2>2, DeploymentAssumption
  <2>4. SetupOK(p)'
    <3>1. CASE WriteKeys(r)
      <4>1. p.stage = "exporting" /\ prepared' = NoFile /\ setup' = p.setup
        BY <1>0, <1>4, <2>1, <3>1 DEF WriteKeys, To, Process
      <4> QED
        BY <4>1 DEF SetupOK, Proving, Sending
    <3>2. CASE ExportSolidity(r)
      <4>1. /\ p.stage = "noting" /\ prepared' = NoFile /\ setup = process[r].setup
            /\ setup' = setup /\ source' = process[r].setup
        BY <1>0, <1>4, <2>1, <3>2 DEF ExportSolidity, To, Process, SetupOK, In
      <4> QED
        BY <4>1 DEF SetupOK, Proving, Sending
    <3>3. CASE NotePrepared(r)
      <4>1. /\ p.stage = "noted" /\ prepared' = Torn /\ source = setup /\ setup' = setup
            /\ source' = source /\ p.setup = setup /\ p.source = source
        BY <1>0, <1>4, <2>1, <3>3 DEF NotePrepared, Process, SetupOK, In
      <4> QED
        BY <4>1 DEF SetupOK, Proving, Sending
    <3> QED
      BY <1>9, <3>1, <3>2, <3>3
  <2> QED
    BY <1>2, <1>4, <2>2, <2>3, <2>4, SetupRunStep
<1>10. CASE FillPrepared(r)
  <2>1. /\ prepared = Torn /\ source = setup /\ setup' = setup /\ source' = source
        /\ p.stage = "checking"
        /\ prepared' = [setup |-> process[r].setup, source |-> process[r].source]
        /\ process[r].setup = setup /\ process[r].source = setup
    BY <1>0, <1>4, <1>10 DEF FillPrepared, In, SetupOK, To, Process
  <2>2. ~Whole /\ ~journal /\ deployed["verifier"] = 0 /\ manifest = NoFile
    BY <2>1, NotWhole
  <2>3. Whole' /\ ~journal' /\ ~(deployed'["verifier"] > 0) /\ manifest' \notin Manifest
    BY <1>2, <2>1, <2>2, DeploymentAssumption DEF Whole
  <2>4. SetupOK(p)'
    BY <2>1 DEF SetupOK, Proving, Sending
  <2> QED
    BY <1>2, <1>4, <2>2, <2>3, <2>4, SetupRunStep
<1>11. CASE CheckSetup(r)
  <2>1. /\ UNCHANGED <<setup, source, prepared>>
        /\ prepared = [setup |-> setup, source |-> source] /\ p.stage = "building"
        /\ p.setup = setup /\ p.source = source
    BY <1>0, <1>4, <1>11 DEF CheckSetup, OnlyReads, files, Process
  <2>2. Whole
    <3>1. prepared \in Prepared
      BY <1>0, <2>1 DEF FilesTyped, Prepared
    <3> QED
      BY <3>1 DEF SetupInv
  <2>3. SetupOK(p)'
    BY <2>1, <2>2 DEF SetupOK, Proving, Sending, Whole
  <2> QED
    BY <1>6, <2>1, <2>3
<1>12. CASE Build(r)
  <2>1. /\ UNCHANGED <<setup, source, prepared>> /\ Whole /\ process[r].setup = setup
        /\ p.stage = "linking" /\ p.setup = setup /\ artifact' = setup
    BY <1>0, <1>4, <1>12 DEF Build, In, To, Process, SetupOK
  <2>2. SetupOK(p)'
    BY <2>1 DEF SetupOK, Proving, Sending, Whole
  <2> QED
    BY <1>6, <2>1, <2>2
<1>13. CASE Intend(r)
  <2>1. /\ UNCHANGED <<setup, source, prepared>> /\ Whole
        /\ p.stage = "validating" /\ p.setup = setup /\ p.source = setup
    BY <1>0, <1>4, <1>13 DEF Intend, In, Process, SetupOK, OnlyReads, files
  <2>2. SetupOK(p)'
    BY <2>1 DEF SetupOK, Proving, Sending, Whole
  <2> QED
    BY <1>6, <2>1, <2>2
<1>14. CASE Validate(r)
  <2>1. /\ UNCHANGED <<setup, source, prepared>> /\ Whole
        /\ p.stage = "journal" /\ p.setup = setup /\ p.source = setup
    BY <1>0, <1>4, <1>14 DEF Validate, In, Process, SetupOK, OnlyReads, files
  <2>2. SetupOK(p)'
    BY <2>1 DEF SetupOK, Proving, Sending, Whole
  <2> QED
    BY <1>6, <2>1, <2>2
<1> QED
  BY <1>7, <1>8, <1>9, <1>10, <1>11, <1>12, <1>13, <1>14 DEF EarlySteps

\* From the journal on, the setup is whole and stays as it is.
LateSteps(r) ==
    \/ OpenJournal(r) \/ SendDeploy(r) \/ RecordReceipt(r) \/ VerifyDeployed(r)
    \/ WriteManifest(r) \/ FillManifest(r) \/ Compare(r) \/ RetrieveSnapshot(r)
    \/ SaveReference(r)

LEMMA LateSetup ==
    ASSUME DeploymentInv, SetupInv, NEW r \in Runs, LateSteps(r)
    PROVE  SetupInv'
<1>0. /\ process[r] \in Process /\ RunOK(process[r]) /\ FilesTyped /\ JournalInv
      /\ process \in [Runs -> Process] /\ SetupOK(process[r])
  BY RunFacts DEF SetupInv
<1>1. /\ setup' = setup /\ source' = source /\ prepared' = prepared /\ artifact' = artifact
      /\ orphans' = orphans /\ Holding(r)
  BY DEF LateSteps, OpenJournal, SendDeploy, RecordReceipt, VerifyDeployed, WriteManifest,
         FillManifest, Compare, RetrieveSnapshot, SaveReference, Truncate, OnlyReads, Elsewhere,
         files, In, Holding
<1>2. Whole' <=> Whole
  BY <1>1 DEF Whole
<1>3. (prepared \in Prepared => Whole)'
  BY <1>1, <1>2 DEF SetupInv
<1>4. CASE OpenJournal(r) \/ RecordReceipt(r) \/ VerifyDeployed(r)
  <2>1. /\ process[r].stage \in {"journal", "settling", "verifying"}
        /\ manifest' = manifest /\ deployed' = deployed /\ verifier' = verifier
    BY <1>4 DEF OpenJournal, RecordReceipt, VerifyDeployed, OnlyReads, Elsewhere, files, fujiVars,
                In
  <2>2. Whole /\ process[r].setup = setup /\ process[r].source = setup
    BY <1>0, <2>1 DEF SetupOK, Sending
  <2>3. PICK p : p = process'[r]
    OBVIOUS
  <2>4. /\ process' = [process EXCEPT ![r] = p] /\ p.stage \in Sending
        /\ p.setup = setup /\ p.source = setup
    BY <1>0, <1>4, <2>2, <2>3
    DEF OpenJournal, RecordReceipt, VerifyDeployed, To, Process, Sending
  <2>5. SetupOK(p)'
    BY <1>1, <1>2, <2>2, <2>4 DEF SetupOK, Proving, Sending
  <2>6. /\ (journal => Whole)' /\ (deployed["verifier"] > 0 => verifier = setup)'
        /\ (manifest \in Manifest => manifest.setup = setup)'
    BY <1>1, <1>2, <2>1, <2>2 DEF SetupInv
  <2> QED
    BY <1>1, <1>2, <1>3, <2>4, <2>5, <2>6, SetupRunStep
<1>5. CASE SendDeploy(r)
  <2>1. /\ process[r].stage = "sending" /\ manifest' = manifest /\ journal' = journal
        /\ To(r, "settling")
        /\ deployed' = [deployed EXCEPT ![Contract(r)] = @ + 1]
        /\ verifier' = (IF Contract(r) = "verifier" THEN process[r].source ELSE verifier)
    BY <1>5 DEF SendDeploy, In, files
  <2>2. Whole /\ process[r].setup = setup /\ process[r].source = setup
    BY <1>0, <2>1 DEF SetupOK, Sending
  <2>3. PICK p : p = [process[r] EXCEPT !.stage = "settling"]
    OBVIOUS
  <2>4. /\ process' = [process EXCEPT ![r] = p] /\ p.stage = "settling"
        /\ p.setup = setup /\ p.source = setup
    BY <1>0, <2>1, <2>2, <2>3 DEF To, Process
  <2>5. SetupOK(p)'
    BY <1>1, <1>2, <2>2, <2>4 DEF SetupOK, Proving, Sending
  <2>6. (deployed["verifier"] > 0 => verifier = setup)'
    <3>1. CASE Contract(r) = "verifier"
      BY <1>1, <2>1, <2>2, <3>1
    <3>2. CASE Contract(r) # "verifier"
      <4>1. deployed'["verifier"] = deployed["verifier"]
        BY <1>0, <2>1, <3>2 DEF FilesTyped, ContractNames
      <4> QED
        BY <1>1, <2>1, <3>2, <4>1 DEF SetupInv
    <3> QED
      BY <3>1, <3>2
  <2>7. (journal => Whole)' /\ (manifest \in Manifest => manifest.setup = setup)'
    BY <1>1, <1>2, <2>1, <2>2 DEF SetupInv
  <2> QED
    BY <1>1, <1>2, <1>3, <2>4, <2>5, <2>6, <2>7, SetupRunStep
<1>6. CASE WriteManifest(r) \/ SaveReference(r) \/ FillManifest(r)
  <2>1. /\ process[r].stage \in {"manifest", "saving", "filling"}
        /\ journal' = journal /\ deployed' = deployed /\ verifier' = verifier
        /\ manifest' \in Manifest => manifest'.setup = process[r].setup
    BY <1>6, DeploymentAssumption
    DEF WriteManifest, SaveReference, FillManifest, Truncate, In, Elsewhere, fujiVars
  <2>2. process[r].setup = setup
    BY <1>0, <2>1 DEF SetupOK, Sending
  <2>3. PICK p : p = process'[r]
    OBVIOUS
  <2>4. /\ process' = [process EXCEPT ![r] = p] /\ p.stage \in {"filling", "finished"}
        /\ p.setup = setup
    BY <1>0, <1>6, <2>2, <2>3
    DEF WriteManifest, SaveReference, FillManifest, Truncate, To, Process
  <2>5. SetupOK(p)'
    BY <1>1, <1>2, <2>4 DEF SetupOK, Proving, Sending
  <2>6. /\ (journal => Whole)' /\ (deployed["verifier"] > 0 => verifier = setup)'
        /\ (manifest \in Manifest => manifest.setup = setup)'
    BY <1>1, <1>2, <2>1, <2>2 DEF SetupInv
  <2> QED
    BY <1>1, <1>2, <1>3, <2>4, <2>5, <2>6, SetupRunStep
<1>7. CASE Compare(r) \/ RetrieveSnapshot(r)
  <2>1. /\ manifest' = manifest /\ journal' = journal /\ deployed' = deployed
        /\ verifier' = verifier
    BY <1>7 DEF Compare, RetrieveSnapshot, OnlyReads, Elsewhere, files, fujiVars
  <2>2. PICK p : p = process'[r]
    OBVIOUS
  <2>3. /\ process' = [process EXCEPT ![r] = p] /\ p.stage \in {"retrieving", "saving"}
        /\ p.setup = setup
    <3>1. CASE Compare(r)
      <4>1. manifest.setup = setup
        BY <1>0, <3>1 DEF Compare, FilesTyped, SetupInv
      <4> QED
        BY <1>0, <2>2, <3>1, <4>1 DEF Compare, Process
    <3>2. CASE RetrieveSnapshot(r)
      BY <1>0, <2>2, <3>2 DEF RetrieveSnapshot, To, In, Process, SetupOK
    <3> QED
      BY <1>7, <3>1, <3>2
  <2>4. SetupOK(p)'
    BY <1>1, <1>2, <2>3 DEF SetupOK, Proving, Sending
  <2>5. /\ (journal => Whole)' /\ (deployed["verifier"] > 0 => verifier = setup)'
        /\ (manifest \in Manifest => manifest.setup = setup)'
    BY <1>1, <1>2, <2>1 DEF SetupInv
  <2> QED
    BY <1>1, <1>2, <1>3, <2>3, <2>4, <2>5, SetupRunStep
<1> QED
  BY <1>4, <1>5, <1>6, <1>7 DEF LateSteps

\* A killed run leaves a prover only where nothing is prepared, and forge only
\* where everything is.
LEMMA EndingSetup ==
    ASSUME DeploymentInv, SetupInv, NEW r \in Runs, Exit(r) \/ Kill(r)
    PROVE  SetupInv'
<1>0. /\ process[r] \in Process /\ process \in [Runs -> Process] /\ SetupOK(process[r])
  BY RunFacts DEF SetupInv
<1>1. PICK p : p = Off
  OBVIOUS
<1>2. /\ Holding(r) /\ process' = [process EXCEPT ![r] = p] /\ p.stage = "off"
      /\ setup' = setup /\ source' = source /\ prepared' = prepared
      /\ journal' = journal /\ manifest' = manifest
      /\ deployed' = deployed /\ verifier' = verifier
      /\ \/ orphans' = orphans
         \/ WaitsForChild(r) /\ lock' = lock /\ orphans' = orphans \union {Child(r)}
  BY <1>1, OffIsProcess DEF Exit, Kill, Quit, files, fujiVars, Elsewhere
<1>3. Whole' <=> Whole
  BY <1>2 DEF Whole
<1>4. /\ (prepared \in Prepared => Whole)' /\ (journal => Whole)'
      /\ (deployed["verifier"] > 0 => verifier = setup)'
      /\ (manifest \in Manifest => manifest.setup = setup)'
  BY <1>2, <1>3 DEF SetupInv
<1>5. SetupOK(p)'
  BY <1>2 DEF SetupOK, Proving, Sending
<1>6. ASSUME WaitsForChild(r)
      PROVE  /\ Child(r).stage = "building" => Whole /\ Child(r).version = setup
             /\ Child(r).stage # "building" => prepared = NoFile
  BY <1>0, <1>6 DEF WaitsForChild, Child, SetupOK, In, Proving
<1>7. \/ orphans' = orphans
      \/ /\ p.stage = "off" /\ lock' = lock /\ prepared' = prepared
         /\ \E o : /\ orphans' = orphans \union {o}
                   /\ o.stage = "building" => Whole /\ o.version = setup
                   /\ o.stage # "building" => prepared = NoFile
  BY <1>2, <1>6
<1> QED
  BY <1>2, <1>3, <1>4, <1>5, <1>7, SetupRunStep

\* The others; the assumption is used where the lock is free or taken.
LEMMA OutsideSetup ==
    ASSUME DeploymentInv, SetupInv, ProverWaitedFor, DeploymentInv',
           \/ \E r \in Runs : StartCommand(r) \/ Open(r)
           \/ ClearLock \/ ClearSetup \/ NewSnapshot \/ UpdateRoot
           \/ \E o \in orphans : OrphanWrites(o) \/ OrphanEnds(o)
    PROVE  SetupInv'
<1>0. /\ FilesTyped /\ process \in [Runs -> Process] /\ lock \in Runs \union {NoRun}
      /\ process' \in [Runs -> Process] /\ orphans \subseteq Orphan
      /\ \A r \in Runs : Holding(r) => lock = r
  BY DEF DeploymentInv, FilesTyped
<1>1. ASSUME NEW r \in Runs, StartCommand(r) \/ Open(r) PROVE SetupInv'
  <2>1. /\ UNCHANGED <<setup, source, prepared, manifest, journal, deployed, verifier>>
        /\ artifact' = artifact /\ orphans' = orphans
    BY <1>1 DEF StartCommand, Open, files, fujiVars, Elsewhere
  <2>2. \A q \in Runs : q # r => process'[q] = process[q]
    BY <1>0, <1>1 DEF StartCommand, Open, To, Quit
  <2>3. \/ process'[r].stage \in {"off", "open"}
        \/ process'[r].stage \in {"inspect", "comparing"} /\ lock = NoRun
    <3>1. CASE StartCommand(r)
      <4>1. PICK command, snap :
               process' = [process EXCEPT ![r] =
                 [Off EXCEPT !.command = command, !.stage = "open", !.reference = snap]]
        BY <3>1 DEF StartCommand
      <4>2. process'[r].stage = "open"
        BY <1>0, <4>1, OffIsProcess DEF Process
      <4> QED
        BY <4>2
    <3>2. CASE Open(r)
      BY <1>0, <3>2, OffIsProcess DEF Open, To, Quit, LockFree, Process
    <3> QED
      BY <1>1, <3>1, <3>2
  <2>4. lock = NoRun => \A o \in orphans : o.stage = "building"
    BY <1>0 DEF ProverWaitedFor, Orphan
  <2>5. \A q \in Runs : \/ process'[q] = process[q]
                        \/ process'[q].stage \in {"off", "open"}
                        \/ (process'[q].stage \in {"inspect", "comparing"}
                              /\ \A o \in orphans : o.stage = "building")
    BY <2>2, <2>3, <2>4
  <2> QED
    BY <1>0, <2>1, <2>5, SetupOutsideStep
<1>2. CASE ClearLock \/ NewSnapshot \/ UpdateRoot \/ \E o \in orphans : OrphanEnds(o)
  <2>1. /\ UNCHANGED <<setup, source, prepared, manifest, journal, deployed, verifier>>
        /\ artifact' = artifact /\ orphans' \subseteq orphans /\ process' = process
    BY <1>2 DEF ClearLock, NewSnapshot, UpdateRoot, OrphanEnds, files, fujiVars, Elsewhere
  <2> QED
    BY <1>0, <2>1, SetupOutsideStep
<1>3. CASE ClearSetup
  <2>1. /\ lock = NoRun /\ prepared \in {NoFile, Torn} /\ prepared' = NoFile
        /\ UNCHANGED <<manifest, journal, deployed, verifier, process, orphans>>
    BY <1>3 DEF ClearSetup, Elsewhere, fujiVars
  <2>2. /\ ~Whole /\ ~journal /\ deployed["verifier"] = 0 /\ manifest = NoFile
        /\ \A o \in orphans : o.stage # "building"
    BY <2>1, NotWhole
  <2>3. orphans = {}
    BY <1>0, <2>1, <2>2 DEF ProverWaitedFor, Orphan
  <2>4. \A q \in Runs : ~Holding(q)
    BY <1>0, <2>1, DeploymentAssumption
  <2>5. ASSUME NEW q \in Runs PROVE SetupOK(process[q])'
    BY <2>1, <2>4 DEF Holding, SetupOK, Proving, Sending
  <2> QED
    BY <2>1, <2>2, <2>3, <2>5, DeploymentAssumption DEF SetupInv
<1>4. ASSUME NEW o \in orphans, OrphanWrites(o) PROVE SetupInv'
  <2>1. CASE o.stage = "building"
    <3>1. /\ UNCHANGED <<setup, source, prepared, manifest, journal, deployed, verifier>>
          /\ artifact' = o.version /\ orphans' = orphans /\ process' = process
      BY <1>4, <2>1 DEF OrphanWrites, fujiVars
    <3>2. Whole /\ o.version = setup
      BY <2>1 DEF SetupInv
    <3> QED
      BY <1>0, <3>1, <3>2, SetupOutsideStep
  <2>2. CASE o.stage # "building"
    <3>1. /\ UNCHANGED <<prepared, manifest, journal, deployed, verifier, process>>
          /\ orphans' \subseteq orphans \union {[o EXCEPT !.stage = "exporting"]}
      BY <1>4, <2>2 DEF OrphanWrites, fujiVars
    <3>2. prepared = NoFile /\ \A q \in Runs : ~Holding(q)
      BY <2>2 DEF SetupInv
    <3>3. /\ ~Whole /\ ~journal /\ deployed["verifier"] = 0 /\ manifest = NoFile
          /\ \A x \in orphans : x.stage # "building"
      BY <3>2, NotWhole
    <3>4. ASSUME NEW x \in orphans' PROVE x.stage # "building"
      <4>1. [o EXCEPT !.stage = "exporting"].stage = "exporting"
        BY <1>0 DEF Orphan
      <4> QED
        BY <3>1, <3>3, <4>1
    <3>5. ASSUME NEW q \in Runs PROVE SetupOK(process[q])' /\ ~Holding(q)'
      BY <3>1, <3>2 DEF Holding, SetupOK, Proving, Sending
    <3> QED
      BY <3>1, <3>2, <3>3, <3>4, <3>5, DeploymentAssumption DEF SetupInv
  <2> QED
    BY <2>1, <2>2
<1> QED
  BY <1>1, <1>2, <1>3, <1>4

LEMMA SetupStep ==
    DeploymentInv /\ SetupInv /\ ProverWaitedFor /\ [DeploymentNext]_deploymentVars => SetupInv'
<1> SUFFICES ASSUME DeploymentInv, SetupInv, ProverWaitedFor, [DeploymentNext]_deploymentVars
             PROVE  SetupInv'
  OBVIOUS
<1>1. DeploymentInv'
  BY DeploymentStep
<1>2. CASE DeploymentNext
  BY <1>1, <1>2, EarlySetup, LateSetup, EndingSetup, OutsideSetup
  DEF DeploymentNext, EarlySteps, LateSteps
<1>3. CASE UNCHANGED deploymentVars
  <2>1. /\ UNCHANGED <<setup, source, prepared, manifest, journal, deployed, verifier>>
        /\ artifact' = artifact /\ orphans' = orphans /\ process' = process
    BY <1>3 DEF deploymentVars
  <2> QED
    BY <1>1, <2>1, SetupOutsideStep DEF DeploymentInv
<1> QED
  BY <1>2, <1>3

\* A manifest stands for three deployed contracts, and one that can be read
\* for the setup on disk, which the verifier on the chain was exported with
\* (deploy-fuji.mjs), if no lock is removed under a prover at work.
THEOREM ManifestStandsForContracts ==
    DeploymentSpec /\ []ProverWaitedFor => []ManifestIsDeployed
<1>1. DeploymentInv /\ SetupInv => ManifestIsDeployed
  <2> SUFFICES ASSUME DeploymentInv, SetupInv PROVE ManifestIsDeployed
    OBVIOUS
  <2>1. manifest \in Manifest => manifest # NoFile
    BY DeploymentAssumption
  <2>2. manifest # NoFile => \A c \in ContractNames : deployed[c] > 0
    BY DEF DeploymentInv, JournalInv
  <2> QED
    BY <2>1, <2>2 DEF ManifestIsDeployed, SetupInv, ContractNames
<1> QED
  BY <1>1, SetupInitInv, SetupStep, DeploymentAlways, PTL DEF DeploymentSpec

\* What keeps a reference once it is written: whoever rewrites the manifest
\* carries the same one.
Keeps(kept) ==
    /\ manifest # NoFile
    /\ manifest \in Manifest => manifest.reference = kept
    /\ \A r \in Runs : process[r].stage \in {"retrieving", "saving", "filling"} =>
                          process[r].reference = kept

LEMMA KeepsStep ==
    ASSUME DeploymentInv, NEW kept \in References, Keeps(kept), [DeploymentNext]_deploymentVars
    PROVE  Keeps(kept)'
<1>0. /\ process \in [Runs -> Process] /\ FilesTyped /\ JournalInv
      /\ \A r \in Runs : RunOK(process[r])
  BY DEF DeploymentInv
<1>1. ASSUME manifest' = manifest,
             \A r \in Runs : process'[r].stage \in {"retrieving", "saving", "filling"} =>
                               process'[r].reference = kept
      PROVE  Keeps(kept)'
  BY <1>1 DEF Keeps
<1>2. ASSUME NEW r \in Runs, WriteManifest(r) \/ SaveReference(r)
      PROVE  Keeps(kept)'
  <2>1. /\ process[r].stage \in {"manifest", "saving"} /\ manifest' = Torn /\ To(r, "filling")
    BY <1>2 DEF WriteManifest, SaveReference, Truncate, In
  <2>2. process[r].reference = kept
    BY <1>0, <2>1 DEF Keeps, RunOK, Sending
  <2>3. ASSUME NEW q \in Runs, process'[q].stage \in {"retrieving", "saving", "filling"}
        PROVE  process'[q].reference = kept
    BY <1>0, <2>1, <2>2, <2>3 DEF To, Process, Keeps
  <2> QED
    BY <2>1, <2>3, DeploymentAssumption DEF Keeps
<1>3. ASSUME NEW r \in Runs, FillManifest(r) PROVE Keeps(kept)'
  <2>1. /\ process[r].stage = "filling" /\ To(r, "finished")
        /\ manifest' = [setup |-> process[r].setup, snapshot |-> process[r].snapshot,
                        reference |-> process[r].reference]
    BY <1>3 DEF FillManifest, In
  <2>2. process[r].reference = kept /\ manifest' \in Manifest /\ manifest'.reference = kept
    BY <1>0, <2>1 DEF Keeps, Manifest, Process
  <2>3. ASSUME NEW q \in Runs, process'[q].stage \in {"retrieving", "saving", "filling"}
        PROVE  process'[q].reference = kept
    BY <1>0, <2>1, <2>3 DEF To, Process, Keeps
  <2> QED
    BY <2>2, <2>3, DeploymentAssumption DEF Keeps
<1>4. ASSUME NEW r \in Runs, Compare(r) \/ RetrieveSnapshot(r) PROVE Keeps(kept)'
  <2>1. manifest' = manifest /\ process[r].reference = kept
    <3>1. CASE Compare(r)
      <4>1. manifest \in Manifest /\ manifest.reference \in {NoReference, process[r].reference}
        BY <1>0, <3>1 DEF Compare, Replaces, FilesTyped
      <4> QED
        BY <3>1, <4>1, DeploymentAssumption DEF Compare, Keeps, OnlyReads, files
    <3>2. CASE RetrieveSnapshot(r)
      BY <3>2 DEF RetrieveSnapshot, In, Keeps, OnlyReads, files
    <3> QED
      BY <1>4, <3>1, <3>2
  <2>2. ASSUME NEW q \in Runs, process'[q].stage \in {"retrieving", "saving", "filling"}
        PROVE  process'[q].reference = kept
    <3>1. q # r => process'[q] = process[q]
      BY <1>0, <1>4 DEF Compare, RetrieveSnapshot, To
    <3>2. process'[r].reference = process[r].reference
      BY <1>0, <1>4 DEF Compare, RetrieveSnapshot, To, Process
    <3> QED
      BY <2>1, <2>2, <3>1, <3>2 DEF Keeps
  <2> QED
    BY <1>1, <2>1, <2>2
\* Nobody else comes near the manifest.
<1>5. ASSUME manifest' = manifest,
             \A q \in Runs : \/ process'[q] = process[q]
                             \/ process'[q].stage \notin {"retrieving", "saving", "filling"}
      PROVE  Keeps(kept)'
  BY <1>5 DEF Keeps
<1>6. ASSUME NEW r \in Runs, EarlySteps(r) PROVE Keeps(kept)'
  <2>1. PICK stage \in Early, s \in Versions, v \in Versions, n \in Snapshots :
           /\ stage = "journal" => manifest = NoFile
           /\ process' = [process EXCEPT ![r].stage = stage, ![r].setup = s, ![r].source = v,
                                         ![r].snapshot = n]
    BY <1>6, EarlyMoves
  <2>2. manifest' = manifest
    BY <1>6, EarlyMoves
  <2>3. /\ process'[r].stage \notin {"retrieving", "saving", "filling"}
        /\ \A q \in Runs : q # r => process'[q] = process[q]
    BY <1>0, <2>1 DEF Process, Early, Proving
  <2> QED
    BY <1>5, <2>2, <2>3
<1>7. ASSUME NEW r \in Runs,
             \/ StartCommand(r) \/ Open(r) \/ Exit(r) \/ Kill(r)
             \/ OpenJournal(r) \/ SendDeploy(r) \/ RecordReceipt(r) \/ VerifyDeployed(r)
      PROVE  Keeps(kept)'
  <2>1. manifest' = manifest /\ \A q \in Runs : q # r => process'[q] = process[q]
    BY <1>0, <1>7
    DEF StartCommand, Open, Exit, Kill, OpenJournal, SendDeploy, RecordReceipt, VerifyDeployed,
        OnlyReads, files, To, Quit
  <2>2. process'[r].stage \notin {"retrieving", "saving", "filling"}
    <3>1. CASE StartCommand(r)
      <4>1. PICK command, snap :
               process' = [process EXCEPT ![r] =
                 [Off EXCEPT !.command = command, !.stage = "open", !.reference = snap]]
        BY <3>1 DEF StartCommand
      <4>2. process'[r].stage = "open"
        BY <1>0, <4>1, OffIsProcess DEF Process
      <4> QED
        BY <4>2
    <3>2. CASE \/ Open(r) \/ Exit(r) \/ Kill(r)
      BY <1>0, <3>2, OffIsProcess DEF Open, Exit, Kill, To, Quit, Process
    <3>3. CASE \/ OpenJournal(r) \/ SendDeploy(r) \/ RecordReceipt(r) \/ VerifyDeployed(r)
      BY <1>0, <3>3 DEF OpenJournal, SendDeploy, RecordReceipt, VerifyDeployed, To, Process
    <3> QED
      BY <1>7, <3>1, <3>2, <3>3
  <2> QED
    BY <1>5, <2>1, <2>2
<1>8. ASSUME \/ ClearLock \/ ClearSetup \/ NewSnapshot \/ UpdateRoot
              \/ \E o \in orphans : OrphanWrites(o) \/ OrphanEnds(o)
       PROVE  Keeps(kept)'
  <2>1. manifest' = manifest /\ process' = process
    BY <1>8 DEF ClearLock, ClearSetup, NewSnapshot, UpdateRoot, OrphanWrites, OrphanEnds, files
  <2> QED
    BY <1>5, <2>1
<1>9. CASE DeploymentNext
  BY <1>2, <1>3, <1>4, <1>6, <1>7, <1>8, <1>9 DEF DeploymentNext, EarlySteps
<1>10. CASE UNCHANGED deploymentVars
  BY <1>5, <1>10 DEF deploymentVars
<1> QED
  BY <1>9, <1>10

\* A reference in the manifest stays, through runs killed while they rewrite
\* it (publish-snapshot.mjs: a different one is refused; deploy-fuji.mjs: any
\* manifest on disk is refused).
THEOREM ReferenceStays == DeploymentSpec => ReferenceIsFinal
<1> SUFFICES ASSUME NEW kept \in References
             PROVE  DeploymentSpec =>
                      [](manifest \in Manifest /\ manifest.reference = kept =>
                           [](manifest # NoFile
                                /\ (manifest \in Manifest => manifest.reference = kept)))
  BY DEF ReferenceIsFinal
<1>1. DeploymentInv /\ manifest \in Manifest /\ manifest.reference = kept => Keeps(kept)
  <2> SUFFICES ASSUME DeploymentInv, manifest \in Manifest, manifest.reference = kept
               PROVE  Keeps(kept)
    OBVIOUS
  <2>1. manifest \notin {NoFile, Torn} /\ kept # NoReference
    BY DeploymentAssumption
  <2>2. \A r \in Runs : RunOK(process[r])
    BY DEF DeploymentInv
  <2> QED
    BY <2>1, <2>2 DEF Keeps, RunOK
<1>2. DeploymentInv /\ Keeps(kept) /\ [DeploymentNext]_deploymentVars => Keeps(kept)'
  BY KeepsStep
<1>3. Keeps(kept) => manifest # NoFile /\ (manifest \in Manifest => manifest.reference = kept)
  BY DEF Keeps
<1>4. DeploymentSpec => []DeploymentInv
  BY DeploymentAlways
<1> QED
  BY <1>1, <1>2, <1>3, <1>4, PTL DEF DeploymentSpec

-----------------------------------------------------------------------------
(* Approval by hand: enrollment-operator.mjs and issue-enrollment.mjs.     *)

\* The operator inside the lock is alone.  Of the indexes spent or about to be
\* spent by a command left behind, all but one go with a run that broke down.
ApprovalInv ==
    /\ OperatorTypeOK
    /\ \A o \in Operators : InsideLock(o) => holder = o
    /\ \A o \in Operators :
         /\ operator[o].stage = "reserved" => operator[o].index # 0
         /\ operator[o].stage \in {"reading", "sealed"} => credential # 0
         /\ operator[o].stage = "sealed" => operator[o].index = credential
    /\ used + starting <= 1 + breaks
    /\ credential = 0 /\ (\A o \in Operators : operator[o].stage # "reserved") =>
         used + starting <= breaks
    /\ (\E o \in Operators : operator[o].stage = "issuing") => used + starting <= breaks
    /\ 0 \notin unwritten
    /\ row \subseteq {credential} \ {0}

LEMMA ApprovalInitInv == ApprovalInit => ApprovalInv
  BY OperatorAssumption
  DEF ApprovalInit, ApprovalInv, OperatorTypeOK, Away, ApprovalStages, Index, InsideLock

LEMMA ApprovalStepInv ==
    ASSUME ApprovalInv, NEW o \in Operators,
           \/ Query(o) \/ TakeLock(o) \/ FindCredential(o) \/ ReserveIndex(o)
           \/ WriteCredential(o) \/ Seal(o) \/ Approve(o) \/ Break(o)
    PROVE  ApprovalInv'
<1> DEFINE Person == [stage : ApprovalStages, index : Index \union {0}]
<1>0. /\ holder \in Operators \union {NoOperator}
      /\ credential \in Index \union {0} /\ used \in Index \union {0}
      /\ row \subseteq Index /\ breaks \in 0 .. MaxBreaks
      /\ starting \in 0 .. MaxBreaks /\ starting \in Nat /\ unwritten \subseteq Index
      /\ 0 \notin unwritten
      /\ operator \in [Operators -> Person] /\ operator[o] \in Person
      /\ MaxIndex \in Nat /\ MaxBreaks \in Nat /\ NoOperator \notin Operators
      /\ used \in Nat /\ breaks \in Nat /\ credential \in Nat
      /\ \A x \in Operators : InsideLock(x) => holder = x
      /\ \A x \in Operators :
           /\ operator[x].stage = "reserved" => operator[x].index # 0
           /\ operator[x].stage \in {"reading", "sealed"} => credential # 0
           /\ operator[x].stage = "sealed" => operator[x].index = credential
      /\ used + starting <= 1 + breaks
      /\ credential = 0 /\ (\A x \in Operators : operator[x].stage # "reserved")
            => used + starting <= breaks
      /\ (\E x \in Operators : operator[x].stage = "issuing") => used + starting <= breaks
      /\ row \subseteq {credential} \ {0}
  BY OperatorAssumption DEF ApprovalInv, OperatorTypeOK, Index
\* Only one operator changes, and it moves to p.
<1>1. ASSUME NEW p \in Person, operator' = [operator EXCEPT ![o] = p],
             holder' \in Operators \union {NoOperator},
             p.stage \notin {"idle", "queried"} => holder' = o,
             \A x \in Operators \ {o} : InsideLock(x) => holder' = x,
             credential' \in Index \union {0}, used' \in Index \union {0},
             breaks' \in 0 .. MaxBreaks, starting' \in 0 .. MaxBreaks,
             unwritten' \subseteq Index, 0 \notin unwritten',
             p.stage = "reserved" => p.index # 0,
             p.stage \in {"reading", "sealed"} => credential' # 0,
             p.stage = "sealed" => p.index = credential',
             \/ credential' = credential
             \/ \A x \in Operators \ {o} : ~InsideLock(x),
             used' + starting' <= 1 + breaks',
             credential' = 0 /\ p.stage # "reserved"
               /\ (\A x \in Operators \ {o} : operator[x].stage # "reserved")
                  => used' + starting' <= breaks',
             p.stage = "issuing" \/ (\E x \in Operators \ {o} : operator[x].stage = "issuing")
                  => used' + starting' <= breaks',
             row' \subseteq {credential'} \ {0}
      PROVE  ApprovalInv'
  <2>1. /\ operator' \in [Operators -> Person] /\ operator'[o] = p
        /\ \A x \in Operators \ {o} : operator'[x] = operator[x]
    BY <1>0, <1>1
  <2>2. OperatorTypeOK'
    BY <1>1, <2>1 DEF OperatorTypeOK
  <2>3. ASSUME NEW x \in Operators
        PROVE  /\ (InsideLock(x) => holder = x)'
               /\ (operator[x].stage = "reserved" => operator[x].index # 0)'
               /\ (operator[x].stage \in {"reading", "sealed"} => credential # 0)'
               /\ (operator[x].stage = "sealed" => operator[x].index = credential)'
    <3>1. CASE x = o
      BY <1>1, <2>1, <3>1 DEF InsideLock
    <3>2. CASE x # o
      BY <1>0, <1>1, <2>1, <3>2 DEF InsideLock
    <3> QED
      BY <3>1, <3>2
  <2>4. (credential = 0 /\ (\A x \in Operators : operator[x].stage # "reserved")
            => used + starting <= breaks)'
    BY <1>1, <2>1
  <2>5. ((\E x \in Operators : operator[x].stage = "issuing") => used + starting <= breaks)'
    BY <1>1, <2>1
  <2> QED
    BY <1>1, <2>2, <2>3, <2>4, <2>5 DEF ApprovalInv
<1> HIDE DEF Person
<1>2. CASE Query(o)
  <2>1. PICK p : p = [operator[o] EXCEPT !.stage = "queried"]
    OBVIOUS
  <2>2. /\ p \in Person /\ p.stage = "queried" /\ operator' = [operator EXCEPT ![o] = p]
        /\ operator[o].stage = "idle"
        /\ holder' = holder /\ credential' = credential /\ used' = used /\ row' = row
        /\ breaks' = breaks /\ starting' = starting /\ unwritten' = unwritten
    BY <1>0, <1>2, <2>1 DEF Query, abandoned, Move, Is, Person, ApprovalStages
  <2> QED
    BY <1>0, <1>1, <2>2
<1>3. CASE TakeLock(o)
  <2>1. /\ operator[o].stage = "queried"
        /\ credential' = credential /\ used' = used /\ row' = row /\ breaks' = breaks
        /\ starting' = starting /\ unwritten' = unwritten
    BY <1>3 DEF TakeLock, abandoned, Is
  <2>2. CASE Unlocked /\ holder' = o /\ Move(o, "locked")
    <3>1. PICK p : p = [operator[o] EXCEPT !.stage = "locked"]
      OBVIOUS
    <3>2. /\ p \in Person /\ p.stage = "locked" /\ operator' = [operator EXCEPT ![o] = p]
      BY <1>0, <2>2, <3>1 DEF Move, Person, ApprovalStages
    <3>3. holder' = o /\ \A x \in Operators : ~InsideLock(x)
      BY <1>0, <2>2 DEF Unlocked
    <3> QED
      BY <1>0, <1>1, <2>1, <3>2, <3>3
  <2>3. CASE ~Unlocked /\ Leave(o) /\ UNCHANGED holder
    <3>1. PICK p : p = Away
      OBVIOUS
    <3>2. /\ p \in Person /\ p.stage = "idle" /\ operator' = [operator EXCEPT ![o] = p]
      BY <1>0, <2>3, <3>1 DEF Leave, Away, Person, ApprovalStages
    <3> QED
      BY <1>0, <1>1, <2>1, <2>3, <3>2
  <2> QED
    BY <1>3, <2>2, <2>3 DEF TakeLock
<1>4. CASE FindCredential(o)
  <2>1. PICK stage \in {"issuing", "reading"} :
          /\ Move(o, stage)
          /\ (stage = "reading" => credential # 0) /\ (stage = "issuing" => credential = 0)
    BY <1>4 DEF FindCredential
  <2>2. PICK p : p = [operator[o] EXCEPT !.stage = stage]
    OBVIOUS
  <2>3. /\ p \in Person /\ p.stage = stage /\ operator' = [operator EXCEPT ![o] = p]
        /\ operator[o].stage = "locked"
        /\ holder' = holder /\ credential' = credential /\ used' = used /\ row' = row
        /\ breaks' = breaks /\ starting' = starting /\ unwritten' = unwritten
    BY <1>0, <1>4, <2>1, <2>2 DEF FindCredential, abandoned, Move, Is, Person, ApprovalStages
  <2>4. holder = o /\ \A x \in Operators \ {o} : ~InsideLock(x)
    BY <1>0, <2>3 DEF InsideLock
  <2>5. \A x \in Operators \ {o} : operator[x].stage \notin {"reserved", "issuing"}
    BY <2>4 DEF InsideLock
  <2>6. \A x \in Operators : operator[x].stage # "reserved"
    BY <2>3, <2>5
  <2>7. stage = "issuing" => used + starting <= breaks
    BY <1>0, <2>1, <2>6
  <2> QED
    BY <1>0, <1>1, <2>1, <2>3, <2>4, <2>5, <2>7
<1>5. CASE ReserveIndex(o)
  <2>1. PICK p : p = [stage |-> "reserved", index |-> used + 1]
    OBVIOUS
  <2>2. /\ operator[o].stage = "issuing" /\ used < MaxIndex /\ used' = used + 1
        /\ operator' = [operator EXCEPT ![o] = p]
        /\ holder' = holder /\ credential' = credential /\ row' = row /\ breaks' = breaks
        /\ starting' = starting /\ unwritten' = unwritten
    BY <1>5, <2>1 DEF ReserveIndex, abandoned, Is
  <2>3. used' \in Index
    BY <1>0, <2>2 DEF Index
  <2>4. p \in Person /\ p.stage = "reserved" /\ p.index # 0
    BY <1>0, <2>1, <2>2, <2>3 DEF Person, ApprovalStages
  <2>5. holder = o /\ \A x \in Operators \ {o} : ~InsideLock(x)
    BY <1>0, <2>2 DEF InsideLock
  <2>6. used + starting <= breaks
    BY <1>0, <2>2
  <2>7. used' + starting' <= 1 + breaks'
    BY <1>0, <2>2, <2>6
  <2>8. \A x \in Operators \ {o} : operator[x].stage # "issuing"
    BY <2>5 DEF InsideLock
  <2> QED
    BY <1>0, <1>1, <2>2, <2>3, <2>4, <2>5, <2>7, <2>8
<1>6. CASE WriteCredential(o)
  <2>1. PICK p : p = [operator[o] EXCEPT !.stage = "reading"]
    OBVIOUS
  <2>2. /\ p \in Person /\ p.stage = "reading" /\ operator' = [operator EXCEPT ![o] = p]
        /\ operator[o].stage = "reserved" /\ credential = 0
        /\ credential' = operator[o].index
        /\ holder' = holder /\ used' = used /\ row' = row /\ breaks' = breaks
        /\ starting' = starting /\ unwritten' = unwritten
    BY <1>0, <1>6, <2>1 DEF WriteCredential, abandoned, Move, Is, Person, ApprovalStages
  <2>3. holder = o /\ \A x \in Operators \ {o} : ~InsideLock(x)
    BY <1>0, <2>2 DEF InsideLock
  <2>4. credential' \in Index \union {0} /\ credential' # 0
    BY <1>0, <2>2 DEF Person
  <2>5. row' = {} /\ \A x \in Operators \ {o} : operator[x].stage # "issuing"
    BY <1>0, <2>2, <2>3 DEF InsideLock
  <2> QED
    BY <1>0, <1>1, <2>2, <2>3, <2>4, <2>5
<1>7. CASE Seal(o)
  <2>1. PICK p : p = [stage |-> "sealed", index |-> credential]
    OBVIOUS
  <2>2. /\ p \in Person /\ p.stage = "sealed" /\ p.index = credential
        /\ operator' = [operator EXCEPT ![o] = p] /\ operator[o].stage = "reading"
        /\ holder' = holder /\ credential' = credential /\ used' = used /\ row' = row
        /\ breaks' = breaks /\ starting' = starting /\ unwritten' = unwritten
    BY <1>0, <1>7, <2>1 DEF Seal, abandoned, Is, Person, ApprovalStages
  <2>3. holder = o
    BY <1>0, <2>2 DEF InsideLock
  <2> QED
    BY <1>0, <1>1, <2>2, <2>3
<1>8. CASE Approve(o)
  <2>1. PICK p : p = Away
    OBVIOUS
  <2>2. /\ p \in Person /\ p.stage = "idle" /\ operator' = [operator EXCEPT ![o] = p]
        /\ holder' = NoOperator /\ operator[o].stage = "sealed"
        /\ credential' = credential /\ used' = used /\ breaks' = breaks
        /\ starting' = starting /\ unwritten' = unwritten
        /\ row' = row \union {operator[o].index}
    BY <1>0, <1>8, <2>1 DEF Approve, abandoned, Leave, Is, Away, Person, ApprovalStages
  <2>3. \A x \in Operators \ {o} : ~InsideLock(x)
    BY <1>0, <2>2 DEF InsideLock
  <2>4. credential' # 0 /\ row' \subseteq {credential'} \ {0}
    BY <1>0, <2>2
  <2>5. \A x \in Operators \ {o} : operator[x].stage # "issuing"
    BY <2>3 DEF InsideLock
  <2> QED
    BY <1>0, <1>1, <2>2, <2>3, <2>4, <2>5
<1>9. CASE Break(o)
  <2>1. PICK p : p = Away
    OBVIOUS
  <2>2. /\ p \in Person /\ p.stage = "idle" /\ operator' = [operator EXCEPT ![o] = p]
        /\ holder' \in {holder, NoOperator} /\ InsideLock(o)
        /\ credential' = credential /\ used' = used
        /\ breaks' = breaks + 1 /\ breaks < MaxBreaks
        /\ \/ row' = row
           \/ operator[o].stage = "sealed" /\ row' = row \union {operator[o].index}
    BY <1>0, <1>9, <2>1
    DEF Break, abandoned, Leave, Is, Away, Person, ApprovalStages
  <2>3. \/ starting' = starting
        \/ operator[o].stage = "issuing" /\ starting' = starting + 1
    BY <1>9 DEF Break, abandoned, Is
  <2>4. /\ used' + starting' <= breaks' /\ used' + starting' <= 1 + breaks'
        /\ starting' \in 0 .. MaxBreaks /\ starting' \in Nat
        /\ breaks' \in 0 .. MaxBreaks /\ breaks' \in Nat /\ used' \in Nat
    <3>1. /\ used \in Nat /\ starting \in Nat /\ breaks \in Nat /\ MaxBreaks \in Nat
          /\ used + starting <= 1 + breaks /\ starting <= MaxBreaks
          /\ used' = used /\ breaks' = breaks + 1 /\ breaks < MaxBreaks
      BY <1>0, <2>2
    <3>2. CASE starting' = starting
      BY <3>1, <3>2
    <3>3. CASE operator[o].stage = "issuing" /\ starting' = starting + 1
      <4>1. used + starting <= breaks
        BY <1>0, <3>3
      <4> QED
        BY <3>1, <3>3, <4>1
    <3> QED
      BY <2>3, <3>2, <3>3
  <2>5. unwritten' \subseteq Index /\ 0 \notin unwritten'
    <3>1. \/ unwritten' = unwritten
          \/ /\ operator[o].stage = "reserved"
             /\ unwritten' = unwritten \union {operator[o].index}
      BY <1>9 DEF Break, abandoned, Is
    <3>2. operator[o].stage = "reserved" =>
            operator[o].index \in Index /\ operator[o].index # 0
      BY <1>0 DEF Person
    <3> QED
      BY <1>0, <3>1, <3>2
  <2>6. row' \subseteq {credential'} \ {0}
    BY <1>0, <2>2
  <2>7. \A x \in Operators \ {o} : ~InsideLock(x)
    BY <1>0, <2>2
  <2> QED
    BY <1>0, <1>1, <2>2, <2>4, <2>5, <2>6, <2>7
<1> QED
  BY <1>2, <1>3, <1>4, <1>5, <1>6, <1>7, <1>8, <1>9

LEMMA NoMoreSpent ==
    ASSUME NEW u \in Nat, NEW s \in Nat, NEW b \in Nat, NEW v \in Nat, NEW t \in Nat,
           v + t <= u + s, u + s <= 1 + b
    PROVE  v + t <= 1 + b /\ (u + s <= b => v + t <= b)
  OBVIOUS

\* What a command left behind does: its index was counted when its run ended.
LEMMA AbandonedStepInv ==
    ASSUME ApprovalInv,
           \/ \E i \in unwritten : AbandonedWrites(i)
           \/ AbandonedReserves \/ AbandonedEnds
    PROVE  ApprovalInv'
<1>0. /\ OperatorTypeOK /\ MaxIndex \in Nat /\ MaxBreaks \in Nat
      /\ used \in Nat /\ starting \in Nat /\ breaks \in Nat
      /\ used + starting <= 1 + breaks /\ 0 \notin unwritten /\ unwritten \subseteq Index
  BY OperatorAssumption DEF ApprovalInv, OperatorTypeOK, Index
<1>1. /\ holder' = holder /\ row' = row /\ breaks' = breaks /\ operator' = operator
      /\ credential' = credential \/ (credential = 0 /\ credential' \in unwritten)
  BY DEF AbandonedWrites, AbandonedReserves, AbandonedEnds
<1>2. /\ used' \in Index \union {0} /\ starting' \in 0 .. MaxBreaks
      /\ used' + starting' <= used + starting /\ used' \in Nat /\ starting' \in Nat
      /\ unwritten' \subseteq Index /\ 0 \notin unwritten'
  <2>1. CASE \E i \in unwritten : AbandonedWrites(i)
    BY <1>0, <2>1 DEF AbandonedWrites, OperatorTypeOK
  <2>2. CASE AbandonedReserves
    BY <1>0, <2>2 DEF AbandonedReserves, OperatorTypeOK, Index
  <2>3. CASE AbandonedEnds
    <3>1. /\ used' = used /\ used \in Index \union {0} /\ starting <= MaxBreaks
          /\ unwritten' \subseteq unwritten
      BY <1>0, <2>3 DEF AbandonedEnds, OperatorTypeOK
    <3>2. CASE starting > 0 /\ starting' = starting - 1
      BY <1>0, <3>1, <3>2
    <3>3. CASE starting' = starting
      BY <1>0, <3>1, <3>3
    <3> QED
      BY <2>3, <3>2, <3>3 DEF AbandonedEnds
  <2> QED
    BY <2>1, <2>2, <2>3
<1>3. credential' \in Index \union {0} /\ (credential # 0 => credential' = credential)
      /\ (credential' = 0 => credential = 0)
  BY <1>0, <1>1 DEF OperatorTypeOK
<1>4. OperatorTypeOK'
  BY <1>0, <1>1, <1>2, <1>3 DEF OperatorTypeOK
<1>5. row' \subseteq {credential'} \ {0}
  BY <1>1, <1>3 DEF ApprovalInv
<1>6. /\ used + starting <= breaks => used' + starting' <= breaks'
      /\ used' + starting' <= 1 + breaks'
  <2>1. /\ used' \in Nat /\ starting' \in Nat /\ breaks' = breaks
        /\ used' + starting' <= used + starting
        /\ used \in Nat /\ starting \in Nat /\ breaks \in Nat
        /\ used + starting <= 1 + breaks
    BY <1>0, <1>1, <1>2
  <2> QED
    BY <2>1, NoMoreSpent
<1>7. /\ (credential = 0 /\ (\A o \in Operators : operator[o].stage # "reserved") =>
           used + starting <= breaks)'
      /\ ((\E o \in Operators : operator[o].stage = "issuing") => used + starting <= breaks)'
  BY <1>1, <1>3, <1>6 DEF ApprovalInv
<1>8. \A o \in Operators :
         /\ (InsideLock(o) => holder = o)'
         /\ (operator[o].stage = "reserved" => operator[o].index # 0)'
         /\ (operator[o].stage \in {"reading", "sealed"} => credential # 0)'
         /\ (operator[o].stage = "sealed" => operator[o].index = credential)'
  BY <1>1, <1>3 DEF ApprovalInv, InsideLock
<1> QED
  BY <1>2, <1>4, <1>5, <1>6, <1>7, <1>8 DEF ApprovalInv

LEMMA ApprovalAlways == ApprovalSpec => []ApprovalInv
<1>1. ASSUME ApprovalInv, RemoveLock PROVE ApprovalInv'
  <2>1. /\ holder' = NoOperator /\ credential' = credential /\ used' = used /\ row' = row
        /\ breaks' = breaks /\ operator' = operator /\ starting' = starting
        /\ unwritten' = unwritten
    BY <1>1 DEF RemoveLock, abandoned
  <2>2. \A o \in Operators : ~InsideLock(o)
    BY <1>1 DEF RemoveLock, ApprovalInv
  <2>3. OperatorTypeOK'
    BY <1>1, <2>1 DEF ApprovalInv, OperatorTypeOK
  <2>4. \A o \in Operators : ~InsideLock(o)'
    BY <2>1, <2>2 DEF InsideLock
  <2> QED
    BY <1>1, <2>1, <2>3, <2>4 DEF ApprovalInv
<1>2. ASSUME ApprovalInv, UNCHANGED approvalVars PROVE ApprovalInv'
  <2>1. /\ holder' = holder /\ credential' = credential /\ used' = used /\ row' = row
        /\ breaks' = breaks /\ operator' = operator /\ starting' = starting
        /\ unwritten' = unwritten
    BY <1>2 DEF approvalVars
  <2> QED
    BY <1>2, <2>1 DEF ApprovalInv, OperatorTypeOK, InsideLock
<1>3. ApprovalInv /\ [ApprovalNext]_approvalVars => ApprovalInv'
  BY <1>1, <1>2, ApprovalStepInv, AbandonedStepInv DEF ApprovalNext
<1> QED
  BY ApprovalInitInv, <1>3, PTL DEF ApprovalSpec

\* Approval by hand spends an index once for each run that broke down and
\* once more, and sends one credential (enrollment-operator.mjs,
\* issue-enrollment.mjs).
THEOREM IndexesAreSpentOnce == ApprovalSpec => []IndexesSpent
<1>1. ApprovalInv => IndexesSpent
  <2> SUFFICES ASSUME ApprovalInv PROVE IndexesSpent
    OBVIOUS
  <2>1. used <= 1 + breaks /\ row \in SUBSET {credential}
    BY OperatorAssumption DEF ApprovalInv, OperatorTypeOK, Index
  <2>2. IsFiniteSet({credential}) /\ Cardinality({credential}) = 1
    BY FS_Singleton
  <2>3. IsFiniteSet(row) /\ Cardinality(row) <= Cardinality({credential})
    BY <2>1, <2>2, FS_Subset
  <2> QED
    BY <2>1, <2>2, <2>3 DEF IndexesSpent
<1> QED
  BY <1>1, ApprovalAlways, PTL

\* One run at a time moves the ticket: it may write the credential file that
\* was not there, or put that credential in the inbox record.
LEMMA ApprovalMoves ==
    ASSUME ApprovalInv, [ApprovalNext]_approvalVars
    PROVE  /\ \/ credential' = credential
              \/ credential = 0 /\ row = {} /\ credential' \in Index /\ row' = row
           /\ row' = row \/ (credential # 0 /\ row' = row \union {credential})
<1>1. ASSUME NEW o \in Operators, WriteCredential(o)
      PROVE  credential = 0 /\ row = {} /\ credential' \in Index /\ row' = row
  <2>1. /\ operator[o] \in [stage : ApprovalStages, index : Index \union {0}]
        /\ operator[o].index # 0 /\ row \subseteq {credential} \ {0}
    BY <1>1 DEF WriteCredential, Is, ApprovalInv, OperatorTypeOK
  <2> QED
    BY <1>1, <2>1 DEF WriteCredential
<1>2. ASSUME NEW o \in Operators, Approve(o) \/ Break(o)
      PROVE  /\ credential' = credential
             /\ row' = row \/ (credential # 0 /\ row' = row \union {credential})
  BY <1>2 DEF Approve, Break, Is, ApprovalInv
<1>3. ASSUME NEW o \in Operators,
             Query(o) \/ TakeLock(o) \/ FindCredential(o) \/ ReserveIndex(o) \/ Seal(o)
      PROVE  credential' = credential /\ row' = row
  BY <1>3 DEF Query, TakeLock, FindCredential, ReserveIndex, Seal
<1>4. RemoveLock \/ AbandonedReserves \/ AbandonedEnds \/ UNCHANGED approvalVars
      => credential' = credential /\ row' = row
  BY DEF RemoveLock, AbandonedReserves, AbandonedEnds, approvalVars
<1>5. ASSUME NEW i \in unwritten, AbandonedWrites(i)
      PROVE  credential = 0 /\ row = {} /\ credential' \in Index /\ row' = row
  BY <1>5 DEF AbandonedWrites, ApprovalInv, OperatorTypeOK
<1> QED
  BY <1>1, <1>2, <1>3, <1>4, <1>5 DEF ApprovalNext

\* Whoever approves, and however often a run breaks down and is repeated, the
\* applicant gets what the hosted issuer would give: one credential, that of
\* the application (enrollment-operator.mjs, issue-enrollment.mjs).
THEOREM ApprovalImplementsPromise == ApprovalSpec => ApprovalKeepsPromise
<1> DEFINE Entry(k) == IF k = 0 THEN [digest |-> 0, credential |-> Unapproved]
                       ELSE [digest |-> 1, credential |-> Approval(k)]
<1>1. ApprovalInit => Applicant!PInit
  BY DEF ApprovalInit, Applicant!PInit
<1>2. ASSUME ApprovalInv, [ApprovalNext]_approvalVars
      PROVE  [Applicant!PNext]_(Applicant!pvars)
  <2>1. CASE UNCHANGED <<credential, row>>
    BY <2>1 DEF Applicant!pvars
  <2>2. CASE credential = 0 /\ credential' \in Index /\ UNCHANGED row
    <3>1. Entry(credential) # Entry(credential') /\ credential' # 0
      BY <2>2 DEF Index
    <3> QED
      BY <2>2, <3>1 DEF Applicant!PNext, Applicant!Grant, Applicant!Given,
                        Applicant!EntryFor, Approval
  <2>3. CASE credential # 0 /\ row' = row \union {credential} /\ UNCHANGED credential
    <3>1. row \subseteq {credential} /\ row' = {credential}
      BY <1>2, <2>3 DEF ApprovalInv
    <3>2. CASE row = {}
      BY <2>3, <3>1, <3>2 DEF Applicant!PNext, Applicant!Answer, Approval, Unapproved
    <3>3. CASE row # {}
      BY <2>1, <2>3, <3>1, <3>3
    <3> QED
      BY <3>2, <3>3
  <2> QED
    BY <1>2, <2>1, <2>2, <2>3, ApprovalMoves
<1> QED
  BY <1>1, <1>2, ApprovalAlways, PTL DEF ApprovalSpec, ApprovalKeepsPromise, Applicant!PSpec

\* The files of enrollment-operator.mjs and issue-enrollment.mjs keep their
\* form.
THEOREM ApprovalIsTyped == ApprovalSpec => []OperatorTypeOK
<1>1. ApprovalInv => OperatorTypeOK
  BY DEF ApprovalInv
<1> QED
  BY <1>1, ApprovalAlways, PTL

-----------------------------------------------------------------------------
(* The upload endpoints of pilot/start.mjs.                                *)

Uploading(r) == phase[r] = "uploading"

\* A document is stored by the one upload that holds its lock.
ServerInv ==
    /\ ServerTypeOK
    /\ \A r \in Requests : phase[r] # "idle" => serving[r] \in Items
    /\ LockedWhileUploading
    /\ \A r \in Requests : Uploading(r) => serving[r] \notin cached
    /\ \A u \in Items : succeeded[u] = IF u \in cached THEN 1 ELSE 0

LEMMA ItemFacts ==
    ASSUME NEW u \in Items
    PROVE  LockOf(u) \in Locks /\ Counter(u) \in Counters
<1>1. u.kind \in Kinds /\ u.owner \in Owners
  BY DEF Items
<1> QED
  BY <1>1 DEF Locks, Counters, Counter

LEMMA ServerInitInv == ServerInit => ServerInv
  BY ServerAssumptions
  DEF ServerInit, ServerInv, ServerTypeOK, LockedWhileUploading, Uploading

\* A request that does not touch the uploads.
LEMMA QuietStep ==
    ASSUME ServerInv, NEW r \in Requests, phase[r] # "uploading",
           NEW u \in Items \union {NoUpload}, NEW p \in {"idle", "reading"},
           serving' = [serving EXCEPT ![r] = u], phase' = [phase EXCEPT ![r] = p],
           p = "reading" => u \in Items,
           UNCHANGED <<Quiet, restarts>>, served' \in 0 .. MaxServed
    PROVE  ServerInv'
<1>1. /\ serving \in [Requests -> Items \union {NoUpload}]
      /\ phase \in [Requests -> {"idle", "reading", "uploading"}]
      /\ cached' = cached /\ locked' = locked /\ counted' = counted /\ restarts' = restarts
      /\ started' = started /\ succeeded' = succeeded
  BY DEF ServerInv, ServerTypeOK, Quiet
<1>2. /\ serving'[r] = u /\ phase'[r] = p
      /\ \A q \in Requests \ {r} : serving'[q] = serving[q] /\ phase'[q] = phase[q]
  BY <1>1
<1>3. ServerTypeOK'
  BY <1>1 DEF ServerInv, ServerTypeOK
<1>4. \A q \in Requests : /\ phase'[q] = "uploading" <=> phase[q] = "uploading"
                          /\ phase[q] = "uploading" => serving'[q] = serving[q]
  BY <1>2
<1>5. LockedWhileUploading'
  BY <1>1, <1>4 DEF ServerInv, LockedWhileUploading
<1>6. \A q \in Requests : phase'[q] # "idle" => serving'[q] \in Items
  BY <1>2 DEF ServerInv
<1> QED
  BY <1>1, <1>3, <1>4, <1>5, <1>6 DEF ServerInv, Uploading

LEMMA UploadStarts == ASSUME ServerInv, NEW r \in Requests, Upload(r) PROVE ServerInv'
<1>1. /\ serving \in [Requests -> Items \union {NoUpload}]
      /\ phase \in [Requests -> {"idle", "reading", "uploading"}]
      /\ cached \subseteq Items /\ locked \subseteq Locks
      /\ counted \in [Counters -> Nat] /\ started \in [Items -> Nat]
  BY DEF ServerInv, ServerTypeOK
<1>2. PICK u : u = serving[r]
  OBVIOUS
<1>3. /\ phase[r] = "reading" /\ u \in Items /\ u \notin cached /\ LockOf(u) \notin locked
      /\ phase' = [phase EXCEPT ![r] = "uploading"] /\ serving' = serving
      /\ locked' = locked \union {LockOf(u)}
      /\ counted' = counted \/ counted' = [counted EXCEPT ![Counter(u)] = @ + 1]
      /\ started' = [started EXCEPT ![u] = @ + 1]
      /\ cached' = cached /\ succeeded' = succeeded /\ served' = served /\ restarts' = restarts
  BY <1>2 DEF Upload, Uploadable, CountUpload, ServerInv
<1>4. /\ phase'[r] = "uploading" /\ \A q \in Requests \ {r} : phase'[q] = phase[q]
      /\ phase' \in [Requests -> {"idle", "reading", "uploading"}]
  BY <1>1, <1>3
<1>5. ServerTypeOK'
  <2>1. LockOf(u) \in Locks /\ Counter(u) \in Counters
    BY <1>3, ItemFacts
  <2>2. counted' \in [Counters -> Nat]
    BY <1>1, <1>3, <2>1
  <2>3. started' \in [Items -> Nat]
    BY <1>1, <1>3
  <2> QED
    BY <1>1, <1>3, <1>4, <2>1, <2>2, <2>3 DEF ServerInv, ServerTypeOK
<1>6. LockedWhileUploading'
  <2>1. /\ locked = {LockOf(serving[x]) : x \in {q \in Requests : phase[q] = "uploading"}}
        /\ \A x, q \in Requests :
             phase[x] = "uploading" /\ phase[q] = "uploading" /\ x # q
                => LockOf(serving[x]) # LockOf(serving[q])
    BY DEF ServerInv, LockedWhileUploading
  <2>2. {q \in Requests : phase'[q] = "uploading"}
           = {q \in Requests : phase[q] = "uploading"} \union {r}
    BY <1>4
  <2>3. locked' = {LockOf(serving[x]) : x \in {q \in Requests : phase'[q] = "uploading"}}
    BY <1>2, <1>3, <2>1, <2>2
  <2>4. \A q \in Requests : phase[q] = "uploading" => LockOf(serving[q]) # LockOf(u)
    BY <1>3, <2>1
  <2>5. ASSUME NEW x \in Requests, NEW q \in Requests, phase'[x] = "uploading",
               phase'[q] = "uploading", x # q
        PROVE  LockOf(serving[x]) # LockOf(serving[q])
    <3>1. CASE x = r
      BY <1>2, <1>4, <2>4, <2>5, <3>1
    <3>2. CASE q = r
      BY <1>2, <1>4, <2>4, <2>5, <3>2
    <3>3. CASE x # r /\ q # r
      BY <1>4, <2>1, <2>5, <3>3
    <3> QED
      BY <3>1, <3>2, <3>3
  <2>6. /\ locked' = {LockOf(serving'[x]) : x \in {q \in Requests : phase'[q] = "uploading"}}
        /\ \A x, q \in Requests :
             phase'[x] = "uploading" /\ phase'[q] = "uploading" /\ x # q
                => LockOf(serving'[x]) # LockOf(serving'[q])
    BY <1>3, <2>3, <2>5
  <2> QED
    BY <2>6 DEF LockedWhileUploading, LockOf
<1> QED
  BY <1>2, <1>3, <1>4, <1>5, <1>6 DEF ServerInv, Uploading

\* The end of an upload, stored or not.
LEMMA UploadEnds ==
    ASSUME ServerInv, NEW r \in Requests, Stored(r) \/ NotStored(r)
    PROVE  ServerInv'
<1>1. /\ serving \in [Requests -> Items \union {NoUpload}]
      /\ phase \in [Requests -> {"idle", "reading", "uploading"}]
      /\ cached \subseteq Items /\ locked \subseteq Locks
      /\ counted \in [Counters -> Nat] /\ succeeded \in [Items -> Nat]
      /\ \A v \in Items : succeeded[v] = IF v \in cached THEN 1 ELSE 0
      /\ \A q \in Requests : phase[q] = "uploading" => serving[q] \in Items \ cached
  BY DEF ServerInv, ServerTypeOK, Uploading
<1>2. PICK u : u = serving[r]
  OBVIOUS
<1>3. /\ phase[r] = "uploading" /\ u \in Items /\ u \notin cached
      /\ locked' = locked \ {LockOf(u)}
      /\ phase' = [phase EXCEPT ![r] = "idle"] /\ serving' = [serving EXCEPT ![r] = NoUpload]
      /\ counted' = counted \/ counted' = [counted EXCEPT ![Counter(u)] = @ + 1]
      /\ started' = started /\ served' = served /\ restarts' = restarts
  BY <1>1, <1>2 DEF Stored, NotStored, Rest, Released, CountUpload
<1>4. \/ cached' = cached /\ succeeded' = succeeded
      \/ cached' = cached \union {u} /\ succeeded' = [succeeded EXCEPT ![u] = @ + 1]
  BY <1>2 DEF Stored, NotStored
<1>5. /\ phase'[r] = "idle" /\ serving'[r] = NoUpload
      /\ \A q \in Requests \ {r} : phase'[q] = phase[q] /\ serving'[q] = serving[q]
      /\ phase' \in [Requests -> {"idle", "reading", "uploading"}]
      /\ serving' \in [Requests -> Items \union {NoUpload}]
  BY <1>1, <1>3
<1>6. /\ succeeded' \in [Items -> Nat] /\ cached' \subseteq Items
      /\ \A v \in Items : succeeded'[v] = IF v \in cached' THEN 1 ELSE 0
  <2>1. CASE cached' = cached /\ succeeded' = succeeded
    BY <1>1, <2>1
  <2>2. CASE cached' = cached \union {u} /\ succeeded' = [succeeded EXCEPT ![u] = @ + 1]
    <3>1. succeeded[u] = 0
      BY <1>1, <1>3
    <3>2. /\ succeeded' \in [Items -> Nat] /\ succeeded'[u] = 1
          /\ \A v \in Items \ {u} : succeeded'[v] = succeeded[v]
      BY <1>1, <1>3, <2>2, <3>1
    <3> QED
      BY <1>1, <1>3, <2>2, <3>2
  <2> QED
    BY <1>4, <2>1, <2>2
<1>7. ServerTypeOK'
  <2>1. Counter(u) \in Counters
    BY <1>3, ItemFacts
  <2>2. counted' \in [Counters -> Nat]
    BY <1>1, <1>3, <2>1
  <2> QED
    BY <1>1, <1>3, <1>5, <1>6, <2>2 DEF ServerInv, ServerTypeOK
<1>8. /\ locked = {LockOf(serving[x]) : x \in {q \in Requests : phase[q] = "uploading"}}
      /\ \A x, q \in Requests :
           phase[x] = "uploading" /\ phase[q] = "uploading" /\ x # q
              => LockOf(serving[x]) # LockOf(serving[q])
  BY DEF ServerInv, LockedWhileUploading
<1>9. LockedWhileUploading'
  <2>1. {q \in Requests : phase'[q] = "uploading"}
           = {q \in Requests : phase[q] = "uploading"} \ {r}
    BY <1>5
  <2>2. \A q \in Requests \ {r} : phase[q] = "uploading" => LockOf(serving[q]) # LockOf(u)
    BY <1>2, <1>3, <1>8
  <2>3. locked' = {LockOf(serving[x]) : x \in {q \in Requests : phase[q] = "uploading"} \ {r}}
    BY <1>2, <1>3, <1>8, <2>2
  <2>4. \A x \in Requests \ {r} : LockOf(serving'[x]) = LockOf(serving[x])
    BY <1>5
  <2>5. locked' = {LockOf(serving'[x]) : x \in {q \in Requests : phase'[q] = "uploading"}}
    BY <2>1, <2>3, <2>4
  <2>6. \A x, q \in Requests :
           phase'[x] = "uploading" /\ phase'[q] = "uploading" /\ x # q
              => LockOf(serving'[x]) # LockOf(serving'[q])
    <3>1. \A x \in Requests : phase'[x] = "uploading" => x # r /\ phase[x] = "uploading"
      BY <1>5
    <3> QED
      BY <1>8, <2>4, <3>1
  <2> QED
    BY <2>5, <2>6 DEF LockedWhileUploading, LockOf
<1>10. ASSUME NEW q \in Requests, phase'[q] = "uploading" PROVE serving'[q] \notin cached'
  <2>1. q # r /\ phase[q] = "uploading" /\ serving'[q] = serving[q] /\ serving[q] \notin cached
    BY <1>1, <1>5, <1>10
  <2>2. serving[q] # u
    BY <1>2, <1>3, <1>8, <2>1
  <2> QED
    BY <1>4, <2>1, <2>2
<1>11. \A q \in Requests : phase'[q] # "idle" => serving'[q] \in Items
  BY <1>5 DEF ServerInv
<1> QED
  BY <1>6, <1>7, <1>9, <1>10, <1>11 DEF ServerInv, Uploading

LEMMA ServerStep == ServerInv /\ [ServerNext]_serverVars => ServerInv'
<1> SUFFICES ASSUME ServerInv, [ServerNext]_serverVars PROVE ServerInv'
  OBVIOUS
<1>1. ASSUME NEW r \in Requests, ReceiveTerms(r) \/ ReceiveReport(r) PROVE ServerInv'
  <2>1. PICK u \in Items : serving' = [serving EXCEPT ![r] = u]
    BY <1>1 DEF ReceiveTerms, ReceiveReport, Receive
  <2>2. /\ phase[r] # "uploading" /\ phase' = [phase EXCEPT ![r] = "reading"]
        /\ UNCHANGED <<Quiet, restarts>> /\ served' \in 0 .. MaxServed
    BY <1>1, ServerAssumptions
    DEF ReceiveTerms, ReceiveReport, Receive, ServerInv, ServerTypeOK
  <2> QED
    BY <2>1, <2>2, QuietStep
<1>2. ASSUME NEW r \in Requests, RefuseTerms(r) \/ RefuseReport(r) \/ Decline(r)
      PROVE  ServerInv'
  <2>1. /\ phase[r] # "uploading" /\ phase' = [phase EXCEPT ![r] = "idle"]
        /\ serving' = [serving EXCEPT ![r] = NoUpload]
        /\ UNCHANGED <<Quiet, restarts>> /\ served' \in 0 .. MaxServed
    BY <1>2 DEF RefuseTerms, RefuseReport, Refuse, Decline, Rest, ServerInv, ServerTypeOK
  <2> QED
    BY <2>1, QuietStep
<1>3. CASE Restart
  <2>1. /\ cached' = {} /\ locked' = {} /\ \A r \in Requests : phase'[r] = "idle"
        /\ \A u \in Items : succeeded'[u] = 0
    BY <1>3 DEF Restart
  <2>2. ServerTypeOK'
    BY <1>3, ServerAssumptions DEF Restart, ServerInv, ServerTypeOK
  <2>3. LockedWhileUploading'
    BY <2>1 DEF LockedWhileUploading
  <2> QED
    BY <2>1, <2>2, <2>3 DEF ServerInv, Uploading
<1>4. CASE UNCHANGED serverVars
  <2>1. /\ serving' = serving /\ phase' = phase /\ cached' = cached /\ locked' = locked
        /\ counted' = counted /\ served' = served /\ restarts' = restarts
        /\ started' = started /\ succeeded' = succeeded
    BY <1>4 DEF serverVars
  <2>2. ServerTypeOK'
    BY <2>1 DEF ServerInv, ServerTypeOK
  <2>3. LockedWhileUploading'
    BY <2>1 DEF ServerInv, LockedWhileUploading
  <2> QED
    BY <2>1, <2>2, <2>3 DEF ServerInv, Uploading
<1> QED
  BY <1>1, <1>2, <1>3, <1>4, UploadStarts, UploadEnds DEF ServerNext

LEMMA ServerAlways == ServerSpec => []ServerInv
  BY ServerInitInv, ServerStep, PTL DEF ServerSpec

\* The maps of pilot/start.mjs keep their form.
THEOREM ServerIsTyped == ServerSpec => []ServerTypeOK
<1>1. ServerInv => ServerTypeOK
  BY DEF ServerInv
<1> QED
  BY <1>1, ServerAlways, PTL

\* pilot/start.mjs holds a lock exactly while the upload it protects runs.
THEOREM LocksFollowUploads == ServerSpec => []LockedWhileUploading
<1>1. ServerInv => LockedWhileUploading
  BY DEF ServerInv
<1> QED
  BY <1>1, ServerAlways, PTL

\* One process of pilot/start.mjs stores a document at most once.
THEOREM DocumentStoredOnce == ServerSpec => [](\A u \in Items : succeeded[u] <= 1)
<1>1. ServerInv => \A u \in Items : succeeded[u] <= 1
  BY DEF ServerInv
<1> QED
  BY <1>1, ServerAlways, PTL

ItemOf(kind, o, d) == [kind |-> kind, owner |-> o, document |-> d]

LEMMA NumberedFinite ==
    ASSUME NEW count \in [Items -> Nat], NEW kind \in Kinds, NEW o \in Owners
    PROVE  IsFiniteSet(Numbered(count, kind, o))
<1> DEFINE of(d) == {d} \X (1 .. count[ItemOf(kind, o, d)])
           parts == {of(d) : d \in Contents}
           f == [d \in Contents |-> of(d)]
<1>1. f \in Surjection(Contents, parts)
  BY DEF Surjection
<1>2. IsFiniteSet(parts)
  BY <1>1, ServerAssumptions, FS_Surjection
<1>3. ASSUME NEW d \in Contents PROVE IsFiniteSet(of(d))
  <2>1. count[ItemOf(kind, o, d)] \in Nat
    BY DEF Items, ItemOf
  <2>2. IsFiniteSet(1 .. count[ItemOf(kind, o, d)])
    BY <2>1, FS_Interval
  <2>3. IsFiniteSet({d})
    BY FS_Singleton
  <2> QED
    BY <2>2, <2>3, FS_Product
<1>4. \A p \in parts : IsFiniteSet(p)
  BY <1>3
<1> HIDE DEF parts
<1>5. IsFiniteSet(UNION parts)
  BY <1>2, <1>4, FS_UNION
<1> QED
  BY <1>5 DEF Numbered, parts, ItemOf

\* An upload counted for a document is one more for its owner, and for nobody else.
LEMMA TotalAdds ==
    ASSUME NEW count \in [Items -> Nat], NEW more, NEW u \in Items,
           more[u] = count[u] + 1, \A v \in Items \ {u} : more[v] = count[v],
           NEW kind \in Kinds, NEW o \in Owners
    PROVE  /\ Total(count, kind, o) \in Nat
           /\ Counter(u) = <<kind, o>> => Total(more, kind, o) = Total(count, kind, o) + 1
           /\ Counter(u) # <<kind, o>> => Total(more, kind, o) = Total(count, kind, o)
<1> DEFINE S == Numbered(count, kind, o)
           item(d) == ItemOf(kind, o, d)
           pair == <<u.document, count[u] + 1>>
<1>1. IsFiniteSet(S) /\ Cardinality(S) \in Nat
  BY NumberedFinite, FS_CardinalityType
<1>2. \A d \in Contents : item(d) \in Items
  BY DEF Items, ItemOf
<1>3. \A x, c : x \in Numbered(c, kind, o)
                  <=> \E d \in Contents : \E n \in 1 .. c[item(d)] : x = <<d, n>>
  <2>1. \A x, c : x \in Numbered(c, kind, o) <=> \E d \in Contents : x \in {d} \X (1 .. c[item(d)])
    BY DEF Numbered, ItemOf
  <2>2. \A d, T, x : x \in {d} \X T <=> \E n \in T : x = <<d, n>>
    OBVIOUS
  <2> QED
    BY <2>1, <2>2
<1>4. CASE Counter(u) = <<kind, o>>
  <2>1. u.document \in Contents /\ u = item(u.document)
    BY <1>4 DEF Items, ItemOf, Counter
  <2>2. \A d \in Contents : d # u.document => item(d) # u
    BY <2>1 DEF ItemOf
  <2>3. /\ more[u] = count[u] + 1 /\ count[u] \in Nat
        /\ \A d \in Contents : d # u.document => more[item(d)] = count[item(d)]
    BY <1>2, <2>2
  <2>4. pair \notin S
    <3>1. ASSUME NEW d \in Contents, NEW n \in 1 .. count[item(d)], pair = <<d, n>>
          PROVE  FALSE
      BY <2>1, <2>3, <3>1
    <3> QED
      BY <1>3, <3>1
  <2>5. Numbered(more, kind, o) = S \union {pair}
    <3>1. ASSUME NEW x \in Numbered(more, kind, o) PROVE x \in S \union {pair}
      <4>0. PICK d \in Contents : \E m \in 1 .. more[item(d)] : x = <<d, m>>
        BY <1>3
      <4>1. PICK n \in 1 .. more[item(d)] : x = <<d, n>>
        BY <4>0
      <4>2. CASE d # u.document
        BY <1>3, <2>3, <4>1, <4>2
      <4>3. CASE d = u.document /\ n = count[u] + 1
        BY <4>1, <4>3
      <4>4. CASE d = u.document /\ n # count[u] + 1
        <5>1. n \in 1 .. count[item(d)]
          BY <2>1, <2>3, <4>4
        <5> QED
          BY <1>3, <4>1, <5>1
      <4> QED
        BY <4>2, <4>3, <4>4
    <3>2. ASSUME NEW x \in S PROVE x \in Numbered(more, kind, o)
      <4>0. PICK d \in Contents : \E m \in 1 .. count[item(d)] : x = <<d, m>>
        BY <1>3
      <4>1. PICK n \in 1 .. count[item(d)] : x = <<d, n>>
        BY <4>0
      <4>2. n \in 1 .. more[item(d)]
        BY <2>1, <2>3
      <4> QED
        BY <1>3, <4>1, <4>2
    <3>3. pair \in Numbered(more, kind, o)
      <4>1. count[u] + 1 \in 1 .. more[item(u.document)]
        BY <2>1, <2>3
      <4> QED
        BY <1>3, <2>1, <4>1
    <3> QED
      BY <3>1, <3>2, <3>3
  <2> HIDE DEF S, pair
  <2>6. Cardinality(S \union {pair}) = Cardinality(S) + 1
    BY <1>1, <2>4, FS_AddElement
  <2> QED
    BY <1>1, <1>4, <2>5, <2>6 DEF Total, S
<1>5. CASE Counter(u) # <<kind, o>>
  <2>1. \A d \in Contents : item(d) # u
    BY <1>5 DEF ItemOf, Counter
  <2>2. \A d \in Contents : more[item(d)] = count[item(d)]
    BY <1>2, <2>1
  <2>3. ASSUME NEW x
        PROVE  x \in Numbered(more, kind, o) <=> x \in S
    <3>1. x \in Numbered(more, kind, o)
            <=> \E d \in Contents : \E n \in 1 .. more[item(d)] : x = <<d, n>>
      BY <1>3
    <3>2. x \in S <=> \E d \in Contents : \E n \in 1 .. count[item(d)] : x = <<d, n>>
      BY <1>3
    <3> QED
      BY <2>2, <3>1, <3>2
  <2>4. Numbered(more, kind, o) = S
    BY <2>3
  <2> QED
    BY <1>1, <1>5, <2>4 DEF Total
<1> QED
  BY <1>4, <1>5

LEMMA TotalOfNone ==
    ASSUME NEW count, \A u \in Items : count[u] = 0, NEW kind \in Kinds, NEW o \in Owners
    PROVE  Total(count, kind, o) = 0
<1>1. \A d \in Contents : 1 .. count[ItemOf(kind, o, d)] = {}
  BY DEF Items, ItemOf
<1>2. Numbered(count, kind, o) = {}
  BY <1>1 DEF Numbered, ItemOf
<1> QED
  BY <1>2, FS_EmptySet DEF Total

\* The counters are what was uploaded, and a report on its way has room left.
QuotaInv ==
    /\ \A o \in Owners :
         /\ Total(started, "terms", o) = counted[<<"terms", o>>]
         /\ Total(succeeded, "report", o) = counted[<<"report", o>>]
         /\ counted[<<"terms", o>>] <= TermsQuota /\ counted[<<"report", o>>] <= ReportQuota
    /\ \A r \in Requests :
         Uploading(r) /\ serving[r].kind = "report"
            => counted[Counter(serving[r])] < ReportQuota

LEMMA QuotaStart == ServerInit => QuotaInv
<1> SUFFICES ASSUME ServerInit PROVE QuotaInv
  OBVIOUS
<1>1. /\ \A u \in Items : started[u] = 0 /\ succeeded[u] = 0
      /\ \A c \in Counters : counted[c] = 0
      /\ \A r \in Requests : ~Uploading(r)
  BY DEF ServerInit, Uploading
<1>2. ASSUME NEW o \in Owners
      PROVE  /\ <<"terms", o>> \in Counters /\ <<"report", o>> \in Counters
             /\ Total(started, "terms", o) = 0 /\ Total(succeeded, "report", o) = 0
  BY <1>1, TotalOfNone DEF Counters, Kinds
<1> QED
  BY <1>1, <1>2, ServerAssumptions DEF QuotaInv

\* A step that starts and ends no upload.
LEMMA QuotaSame ==
    ASSUME QuotaInv, UNCHANGED <<started, succeeded, counted>>,
           \A r \in Requests : phase'[r] = "uploading" =>
              phase[r] = "uploading" /\ serving'[r] = serving[r]
    PROVE  QuotaInv'
<1>1. started' = started /\ succeeded' = succeeded /\ counted' = counted
  OBVIOUS
<1>2. \A r \in Requests : Uploading(r)' => Uploading(r) /\ serving'[r] = serving[r]
  BY DEF Uploading
<1> QED
  BY <1>1, <1>2 DEF QuotaInv, Total, Numbered, Counter

LEMMA QuotaUpload == ASSUME ServerInv, QuotaInv, NEW r \in Requests, Upload(r) PROVE QuotaInv'
<1>1. /\ counted \in [Counters -> Nat] /\ started \in [Items -> Nat]
      /\ phase \in [Requests -> {"idle", "reading", "uploading"}]
  BY DEF ServerInv, ServerTypeOK
<1>2. PICK u : u = serving[r]
  OBVIOUS
<1>3. /\ u \in Items /\ counted[Counter(u)] < Quota(u)
      /\ phase' = [phase EXCEPT ![r] = "uploading"] /\ serving' = serving
      /\ started' = [started EXCEPT ![u] = @ + 1] /\ succeeded' = succeeded
      /\ u.kind = "terms" => counted' = [counted EXCEPT ![Counter(u)] = @ + 1]
      /\ u.kind # "terms" => counted' = counted
  BY <1>2 DEF Upload, Uploadable, CountUpload, Reserved, ServerInv
<1>4. u.kind \in {"terms", "report"} /\ u.owner \in Owners /\ Counter(u) = <<u.kind, u.owner>>
  BY <1>3 DEF Items, Kinds, Counter
<1>5. Counter(u) \in Counters
  BY <1>3, ItemFacts
<1>6. /\ \A c \in Counters : c # Counter(u) => counted'[c] = counted[c]
      /\ counted'[Counter(u)]
           = counted[Counter(u)] + (IF u.kind = "terms" THEN 1 ELSE 0)
  BY <1>1, <1>3, <1>5
<1>7. ASSUME NEW o \in Owners
      PROVE  /\ Total(started, "terms", o)' = counted'[<<"terms", o>>]
             /\ Total(succeeded, "report", o)' = counted'[<<"report", o>>]
             /\ counted'[<<"terms", o>>] <= TermsQuota
             /\ counted'[<<"report", o>>] <= ReportQuota
  <2>1. /\ Total(started, "terms", o) = counted[<<"terms", o>>]
        /\ Total(succeeded, "report", o) = counted[<<"report", o>>]
        /\ counted[<<"terms", o>>] <= TermsQuota /\ counted[<<"report", o>>] <= ReportQuota
    BY DEF QuotaInv
  <2>2. /\ <<"terms", o>> \in Counters /\ <<"report", o>> \in Counters
        /\ counted[<<"terms", o>>] \in Nat
    BY <1>1 DEF Counters, Kinds
  <2>3. /\ Counter(u) = <<"terms", o>> => Total(started', "terms", o) = Total(started, "terms", o) + 1
        /\ Counter(u) # <<"terms", o>> => Total(started', "terms", o) = Total(started, "terms", o)
    <3>1. "terms" \in Kinds
      BY DEF Kinds
    <3>2. /\ started \in [Items -> Nat] /\ u \in Items
          /\ started'[u] = started[u] + 1 /\ \A v \in Items \ {u} : started'[v] = started[v]
      BY <1>1, <1>3
    <3> QED
      BY <3>1, <3>2, TotalAdds
  <2>4. /\ Total(started, "terms", o)' = Total(started', "terms", o)
        /\ Total(succeeded, "report", o)' = Total(succeeded, "report", o)
    BY <1>3 DEF Total, Numbered
  <2>5. counted'[<<"report", o>>] = counted[<<"report", o>>]
    <3>1. CASE u.kind = "terms"
      <4>1. <<"report", o>> # Counter(u)
        BY <1>4, <3>1
      <4> QED
        BY <1>6, <2>2, <4>1
    <3>2. CASE u.kind # "terms"
      BY <1>3, <3>2
    <3> QED
      BY <3>1, <3>2
  <2>6. CASE Counter(u) = <<"terms", o>>
    <3>1. u.kind = "terms" /\ counted[<<"terms", o>>] < TermsQuota
      BY <1>3, <1>4, <2>6 DEF Quota
    <3>2. counted'[<<"terms", o>>] = counted[<<"terms", o>>] + 1
      BY <1>6, <2>6, <3>1
    <3> QED
      BY <2>1, <2>2, <2>3, <2>4, <2>5, <2>6, <3>1, <3>2, ServerAssumptions
  <2>7. CASE Counter(u) # <<"terms", o>>
    <3>1. counted'[<<"terms", o>>] = counted[<<"terms", o>>]
      BY <1>6, <2>2, <2>7
    <3> QED
      BY <2>1, <2>2, <2>3, <2>4, <2>5, <2>7, <3>1
  <2> QED
    BY <2>6, <2>7
<1>8. ASSUME NEW q \in Requests, phase'[q] = "uploading", serving[q].kind = "report"
      PROVE  counted'[Counter(serving[q])] < ReportQuota
  <2>1. CASE q = r
    <3>1. u.kind # "terms" /\ counted' = counted
      BY <1>2, <1>3, <1>8, <2>1
    <3> QED
      BY <1>2, <1>3, <2>1, <3>1 DEF Quota
  <2>2. CASE q # r
    <3>1. Uploading(q) /\ serving[q] \in Items
      BY <1>1, <1>3, <1>8, <2>2 DEF Uploading, ServerInv
    <3>2. counted[Counter(serving[q])] < ReportQuota
      BY <1>8, <3>1 DEF QuotaInv
    <3>3. Counter(serving[q]) \in Counters /\ Counter(serving[q])[1] = "report"
      BY <1>8, <3>1, ItemFacts DEF Counter
    <3>4. counted'[Counter(serving[q])] = counted[Counter(serving[q])]
      <4>1. CASE u.kind = "terms"
        <5>1. Counter(u)[1] = "terms"
          BY <1>4, <4>1
        <5> QED
          BY <1>6, <3>3, <5>1
      <4>2. CASE u.kind # "terms"
        BY <1>3, <4>2
      <4> QED
        BY <4>1, <4>2
    <3> QED
      BY <3>2, <3>4
  <2> QED
    BY <2>1, <2>2
<1> QED
  BY <1>3, <1>7, <1>8 DEF QuotaInv, Uploading, Counter

LEMMA QuotaStored == ASSUME ServerInv, QuotaInv, NEW r \in Requests, Stored(r) PROVE QuotaInv'
<1>1. /\ counted \in [Counters -> Nat] /\ succeeded \in [Items -> Nat]
      /\ phase \in [Requests -> {"idle", "reading", "uploading"}]
      /\ serving \in [Requests -> Items \union {NoUpload}]
  BY DEF ServerInv, ServerTypeOK
<1>2. PICK u : u = serving[r]
  OBVIOUS
<1>3. /\ u \in Items /\ Uploading(r)
      /\ phase' = [phase EXCEPT ![r] = "idle"] /\ serving' = [serving EXCEPT ![r] = NoUpload]
      /\ succeeded' = [succeeded EXCEPT ![u] = @ + 1] /\ started' = started
      /\ u.kind # "terms" => counted' = [counted EXCEPT ![Counter(u)] = @ + 1]
      /\ u.kind = "terms" => counted' = counted
  BY <1>2 DEF Stored, Rest, CountUpload, Reserved, ServerInv, Uploading
<1>4. u.kind \in {"terms", "report"} /\ u.owner \in Owners /\ Counter(u) = <<u.kind, u.owner>>
  BY <1>3 DEF Items, Kinds, Counter
<1>5. Counter(u) \in Counters
  BY <1>3, ItemFacts
<1>6. /\ \A c \in Counters : c # Counter(u) => counted'[c] = counted[c]
      /\ counted'[Counter(u)]
           = counted[Counter(u)] + (IF u.kind = "report" THEN 1 ELSE 0)
  BY <1>1, <1>3, <1>4, <1>5
<1>7. u.kind = "report" => counted[Counter(u)] < ReportQuota
  BY <1>2, <1>3 DEF QuotaInv
<1>8. ASSUME NEW o \in Owners
      PROVE  /\ Total(started, "terms", o)' = counted'[<<"terms", o>>]
             /\ Total(succeeded, "report", o)' = counted'[<<"report", o>>]
             /\ counted'[<<"terms", o>>] <= TermsQuota
             /\ counted'[<<"report", o>>] <= ReportQuota
  <2>1. /\ Total(started, "terms", o) = counted[<<"terms", o>>]
        /\ Total(succeeded, "report", o) = counted[<<"report", o>>]
        /\ counted[<<"terms", o>>] <= TermsQuota /\ counted[<<"report", o>>] <= ReportQuota
    BY DEF QuotaInv
  <2>2. /\ <<"terms", o>> \in Counters /\ <<"report", o>> \in Counters
        /\ counted[<<"report", o>>] \in Nat
    BY <1>1 DEF Counters, Kinds
  <2>3. /\ Counter(u) = <<"report", o>> => Total(succeeded', "report", o) = Total(succeeded, "report", o) + 1
        /\ Counter(u) # <<"report", o>> => Total(succeeded', "report", o) = Total(succeeded, "report", o)
    <3>1. "report" \in Kinds
      BY DEF Kinds
    <3>2. /\ succeeded \in [Items -> Nat] /\ u \in Items
          /\ succeeded'[u] = succeeded[u] + 1 /\ \A v \in Items \ {u} : succeeded'[v] = succeeded[v]
      BY <1>1, <1>3
    <3> QED
      BY <3>1, <3>2, TotalAdds
  <2>4. /\ Total(succeeded, "report", o)' = Total(succeeded', "report", o)
        /\ Total(started, "terms", o)' = Total(started, "terms", o)
    BY <1>3 DEF Total, Numbered
  <2>5. counted'[<<"terms", o>>] = counted[<<"terms", o>>]
    <3>1. CASE u.kind # "terms"
      <4>1. <<"terms", o>> # Counter(u)
        BY <1>4, <3>1
      <4> QED
        BY <1>6, <2>2, <4>1
    <3>2. CASE u.kind = "terms"
      BY <1>3, <3>2
    <3> QED
      BY <3>1, <3>2
  <2>6. CASE Counter(u) = <<"report", o>>
    <3>1. u.kind = "report" /\ counted[<<"report", o>>] < ReportQuota
      BY <1>4, <1>7, <2>6
    <3>2. counted'[<<"report", o>>] = counted[<<"report", o>>] + 1
      BY <1>6, <2>6, <3>1
    <3> QED
      BY <2>1, <2>2, <2>3, <2>4, <2>5, <2>6, <3>1, <3>2, ServerAssumptions
  <2>7. CASE Counter(u) # <<"report", o>>
    <3>1. counted'[<<"report", o>>] = counted[<<"report", o>>]
      BY <1>6, <2>2, <2>7
    <3> QED
      BY <2>1, <2>2, <2>3, <2>4, <2>5, <2>7, <3>1
  <2> QED
    BY <2>6, <2>7
<1>9. ASSUME NEW q \in Requests, phase'[q] = "uploading", serving'[q].kind = "report"
      PROVE  counted'[Counter(serving'[q])] < ReportQuota
  <2>1. q # r /\ Uploading(q) /\ serving'[q] = serving[q] /\ serving[q] \in Items
    BY <1>1, <1>3, <1>9 DEF Uploading, ServerInv
  <2>2. counted[Counter(serving[q])] < ReportQuota
    BY <1>9, <2>1 DEF QuotaInv
  <2>3. LockOf(serving[q]) # LockOf(u)
    BY <1>2, <1>3, <2>1 DEF ServerInv, LockedWhileUploading, Uploading
  <2>4. Counter(serving[q]) # Counter(u)
    <3>1. u.kind = "report" => serving[q].owner # u.owner
      BY <1>9, <2>1, <2>3 DEF LockOf
    <3> QED
      BY <1>4, <1>9, <2>1, <3>1 DEF Counter
  <2>5. Counter(serving[q]) \in Counters
    BY <2>1, ItemFacts
  <2> QED
    BY <1>6, <2>1, <2>2, <2>4, <2>5
<1> QED
  BY <1>8, <1>9 DEF QuotaInv, Uploading, Counter

LEMMA QuotaStep == ServerInv /\ QuotaInv /\ [ServerNext]_serverVars => QuotaInv'
<1> SUFFICES ASSUME ServerInv, QuotaInv, [ServerNext]_serverVars PROVE QuotaInv'
  OBVIOUS
<1>1. /\ serving \in [Requests -> Items \union {NoUpload}]
      /\ phase \in [Requests -> {"idle", "reading", "uploading"}]
  BY DEF ServerInv, ServerTypeOK
<1>2. ASSUME NEW r \in Requests, ReceiveTerms(r) \/ ReceiveReport(r) PROVE QuotaInv'
  <2>1. PICK u \in Items : serving' = [serving EXCEPT ![r] = u]
    BY <1>2 DEF ReceiveTerms, ReceiveReport, Receive
  <2>2. /\ phase' = [phase EXCEPT ![r] = "reading"]
        /\ UNCHANGED <<started, succeeded, counted>>
    BY <1>2 DEF ReceiveTerms, ReceiveReport, Receive, Quiet
  <2> QED
    BY <1>1, <2>1, <2>2, QuotaSame
<1>3. ASSUME NEW r \in Requests, RefuseTerms(r) \/ RefuseReport(r) \/ Decline(r) \/ NotStored(r)
      PROVE  QuotaInv'
  <2>1. /\ serving' = [serving EXCEPT ![r] = NoUpload] /\ phase' = [phase EXCEPT ![r] = "idle"]
        /\ UNCHANGED <<started, succeeded, counted>>
    BY <1>3 DEF RefuseTerms, RefuseReport, Refuse, Decline, NotStored, Rest, Quiet
  <2> QED
    BY <1>1, <2>1, QuotaSame
<1>4. CASE Restart
  <2>1. /\ \A u \in Items : started'[u] = 0 /\ succeeded'[u] = 0
        /\ \A c \in Counters : counted'[c] = 0
        /\ \A r \in Requests : phase'[r] # "uploading"
    BY <1>4 DEF Restart
  <2>2. ASSUME NEW o \in Owners
        PROVE  /\ <<"terms", o>> \in Counters /\ <<"report", o>> \in Counters
               /\ Total(started', "terms", o) = 0 /\ Total(succeeded', "report", o) = 0
    BY <2>1, TotalOfNone DEF Counters, Kinds
  <2>3. \A o \in Owners :
           /\ Total(started, "terms", o)' = Total(started', "terms", o)
           /\ Total(succeeded, "report", o)' = Total(succeeded', "report", o)
    BY DEF Total, Numbered
  <2> QED
    BY <2>1, <2>2, <2>3, ServerAssumptions DEF QuotaInv, Uploading
<1>5. CASE UNCHANGED serverVars
  <2>1. phase' = phase /\ serving' = serving /\ UNCHANGED <<started, succeeded, counted>>
    BY <1>5 DEF serverVars
  <2> QED
    BY <2>1, QuotaSame
<1> QED
  BY <1>2, <1>3, <1>4, <1>5, QuotaUpload, QuotaStored DEF ServerNext

\* However many requests run at the same time, and whichever of their uploads
\* fail, pilot/start.mjs starts no more scope uploads for a client, and stores
\* no more reports of a job, than their quotas allow.
THEOREM QuotasAreKept == ServerSpec => []QuotasHold
<1>1. ServerInit => ServerInv /\ QuotaInv
  BY ServerInitInv, QuotaStart
<1>2. ServerInv /\ QuotaInv /\ [ServerNext]_serverVars => (ServerInv /\ QuotaInv)'
  BY ServerStep, QuotaStep
<1>3. ASSUME ServerInv, QuotaInv PROVE QuotasHold
  <2>1. \A u \in Items : succeeded[u] <= 1
    BY <1>3 DEF ServerInv
  <2> QED
    BY <1>3, <2>1 DEF QuotaInv, QuotasHold
<1> QED
  BY <1>1, <1>2, <1>3, PTL DEF ServerSpec

-----------------------------------------------------------------------------
(* The workbench: runtime/start.mjs.                                       *)

HelperTyped ==
    /\ jobs \in Seq(Statuses) /\ Len(jobs) \in 1 .. MaxJobs
    /\ committed \in [Jobs -> Nat \union {NoDocument}] /\ escrowRoot \in Roots
    /\ advertised \in Roots /\ current \in Proof \union {NoProof}
    /\ documents \in [Jobs -> Nat \union {NoDocument}]
    /\ actions \in 0 .. MaxActions

\* The action that holds the flag, and what it can rely on.
Busy(o) == o.step \notin {"none", "arrived"}

AnswerOK(o) ==
    o.step = "reporting" =>
        /\ o.action = "create" => o.got = o.job
        /\ o.action = "prove" =>
              current # NoProof /\ current.job = o.job /\ current.root = escrowRoot

PostOK(o) ==
    /\ o.job <= Len(jobs)
    /\ o.step = "written" /\ o.action = "create" => o.job = Len(jobs)
    /\ o.step = "written" /\ o.action = "prove" => advertised = escrowRoot
    /\ AnswerOK(o)

WorkbenchInv ==
    /\ HelperTyped /\ helperBusy \in BOOLEAN /\ post \in [Posts -> Post]
    /\ \A p \in Posts : Busy(post[p]) => helperBusy
    /\ \A p, q \in Posts : Busy(post[p]) /\ Busy(post[q]) => p = q
    /\ \A p \in Posts : PostOK(post[p])

LEMMA WorkbenchInitInv == WorkbenchInit => WorkbenchInv
<1> SUFFICES ASSUME WorkbenchInit PROVE WorkbenchInv
  OBVIOUS
<1>1. NoPost \in Post /\ NoPost.step = "none" /\ NoPost.job = 1
  BY WorkbenchAssumptions DEF NoPost, Post, Steps, Actions, Jobs
<1>2. jobs \in Seq(Statuses) /\ Len(jobs) = 1
  BY DEF WorkbenchInit, Statuses
<1>3. HelperTyped
  BY <1>2, WorkbenchAssumptions DEF WorkbenchInit, HelperTyped, Roots
<1>4. post \in [Posts -> Post] /\ \A p \in Posts : post[p].step = "none" /\ post[p].job = 1
  BY <1>1 DEF WorkbenchInit
<1>5. \A p \in Posts : ~Busy(post[p]) /\ PostOK(post[p])
  BY <1>2, <1>4 DEF Busy, PostOK, AnswerOK
<1>6. helperBusy \in BOOLEAN
  BY DEF WorkbenchInit
<1> QED
  BY <1>3, <1>4, <1>5, <1>6 DEF WorkbenchInv

\* The action with the flag goes one step: nobody else is past the flag.
LEMMA BusyStep ==
    ASSUME WorkbenchInv, NEW p \in Posts, Busy(post[p]), NEW o \in Post,
           post' = [post EXCEPT ![p] = o],
           helperBusy' = helperBusy \/ (helperBusy' = FALSE /\ o.step = "none"),
           HelperTyped', Len(jobs') >= Len(jobs), PostOK(o)'
    PROVE  WorkbenchInv'
<1>1. /\ post' \in [Posts -> Post] /\ post'[p] = o
      /\ \A q \in Posts \ {p} : post'[q] = post[q]
  BY DEF WorkbenchInv
<1>2. helperBusy = TRUE /\ \A q \in Posts \ {p} : ~Busy(post[q])
  BY DEF WorkbenchInv
<1>3. helperBusy' \in BOOLEAN /\ (Busy(o) => helperBusy')
  BY <1>2 DEF Busy
<1>4. ASSUME NEW q \in Posts \ {p}
      PROVE  PostOK(post[q])'
  <2>1. /\ post'[q] = post[q] /\ post[q].step \in {"none", "arrived"}
        /\ post[q].job \in Nat /\ post[q].job <= Len(jobs)
    BY <1>1, <1>2, <1>4 DEF WorkbenchInv, PostOK, Busy, Post, Jobs
  <2>2. post[q].job <= Len(jobs')
    BY <2>1 DEF WorkbenchInv, HelperTyped
  <2> QED
    BY <2>1, <2>2 DEF PostOK, AnswerOK
<1>5. \A q \in Posts : PostOK(post[q])'
  <2>1. PostOK(post[p])'
    BY <1>1
  <2> QED
    BY <1>4, <2>1
<1>6. \A q \in Posts \ {p} : ~Busy(post'[q])
  BY <1>1, <1>2
<1>7. /\ \A q \in Posts : Busy(post'[q]) => helperBusy'
      /\ \A q, x \in Posts : Busy(post'[q]) /\ Busy(post'[x]) => q = x
  BY <1>1, <1>3, <1>6
<1> QED
  BY <1>1, <1>3, <1>5, <1>7 DEF WorkbenchInv, Busy

\* A request that has not got the flag.
LEMMA WaitingStep ==
    ASSUME WorkbenchInv, NEW p \in Posts, ~Busy(post[p]), NEW o \in Post,
           post' = [post EXCEPT ![p] = o], o.job <= Len(jobs),
           \/ helperBusy' = helperBusy /\ o.step \in {"none", "arrived"}
           \/ ~helperBusy /\ helperBusy' = TRUE /\ o.step = "started",
           UNCHANGED <<Escrow, Helper>>, actions' \in 0 .. MaxActions
    PROVE  WorkbenchInv'
<1>1. /\ post' \in [Posts -> Post] /\ post'[p] = o
      /\ \A q \in Posts \ {p} : post'[q] = post[q]
      /\ jobs' = jobs /\ committed' = committed /\ escrowRoot' = escrowRoot
      /\ advertised' = advertised /\ current' = current /\ documents' = documents
  BY DEF WorkbenchInv, Escrow, Helper
<1>2. HelperTyped'
  BY <1>1 DEF WorkbenchInv, HelperTyped
<1>3. ASSUME NEW q \in Posts PROVE PostOK(post[q])'
  <2>1. CASE q = p
    BY <1>1, <2>1 DEF PostOK, AnswerOK
  <2>2. CASE q # p
    BY <1>1, <2>2 DEF WorkbenchInv, PostOK, AnswerOK
  <2> QED
    BY <2>1, <2>2
<1>4. helperBusy' \in BOOLEAN
  BY DEF WorkbenchInv
<1>5. CASE helperBusy' = helperBusy /\ o.step \in {"none", "arrived"}
  <2>1. ~Busy(o)
    BY <1>5 DEF Busy
  <2>2. \A q \in Posts : Busy(post'[q]) => Busy(post[q])
    BY <1>1, <2>1
  <2>3. /\ \A q \in Posts : Busy(post'[q]) => helperBusy'
        /\ \A q, x \in Posts : Busy(post'[q]) /\ Busy(post'[x]) => q = x
    BY <1>5, <2>2 DEF WorkbenchInv
  <2> QED
    BY <1>1, <1>2, <1>3, <1>4, <2>3 DEF WorkbenchInv, Busy
<1>6. CASE ~helperBusy /\ helperBusy' = TRUE /\ o.step = "started"
  <2>1. \A q \in Posts : ~Busy(post[q])
    BY <1>6 DEF WorkbenchInv
  <2>2. \A q \in Posts : Busy(post'[q]) => q = p
    BY <1>1, <2>1
  <2>3. /\ \A q \in Posts : Busy(post'[q]) => helperBusy'
        /\ \A q, x \in Posts : Busy(post'[q]) /\ Busy(post'[x]) => q = x
    BY <1>6, <2>2
  <2> QED
    BY <1>1, <1>2, <1>3, <1>4, <2>3 DEF WorkbenchInv, Busy
<1> QED
  BY <1>5, <1>6

\* Steps of the action that holds the flag, one by one.
LEMMA PostFacts ==
    ASSUME WorkbenchInv, NEW p \in Posts
    PROVE  /\ post[p] \in Post /\ PostOK(post[p]) /\ HelperTyped
           /\ post \in [Posts -> Post] /\ helperBusy \in BOOLEAN
           /\ post[p].job \in Jobs /\ post[p].job \in Nat /\ post[p].job <= Len(jobs)
           /\ post[p].action \in Actions /\ post[p].got \in Jobs \union {0}
           /\ NoPost \in Post /\ NoPost.step = "none" /\ NoPost.job = 1
           /\ Len(jobs) \in Nat /\ 1 <= Len(jobs)
<1>1. post[p] \in Post /\ PostOK(post[p]) /\ HelperTyped /\ post \in [Posts -> Post]
      /\ helperBusy \in BOOLEAN
  BY DEF WorkbenchInv
<1>2. NoPost \in Post /\ NoPost.step = "none" /\ NoPost.job = 1
  BY WorkbenchAssumptions DEF NoPost, Post, Steps, Actions, Jobs
<1> QED
  BY <1>1, <1>2, WorkbenchAssumptions DEF Post, PostOK, Jobs, HelperTyped

LEMMA RequestSteps ==
    ASSUME WorkbenchInv, NEW p \in Posts, Arrive(p) \/ Take(p) \/ Fail(p) \/ Report(p)
    PROVE  WorkbenchInv'
<1>0. /\ post[p] \in Post /\ PostOK(post[p]) /\ HelperTyped
      /\ post \in [Posts -> Post] /\ helperBusy \in BOOLEAN
      /\ post[p].job \in Nat /\ post[p].job <= Len(jobs)
      /\ NoPost \in Post /\ NoPost.step = "none" /\ NoPost.job = 1
      /\ Len(jobs) \in 1 .. MaxJobs /\ Len(jobs) \in Nat
      /\ MaxJobs \in Nat /\ MaxActions \in Nat
  BY PostFacts, WorkbenchAssumptions DEF HelperTyped
<1>1. CASE Arrive(p)
  <2>1. PICK a \in Actions, j \in 1 .. Len(jobs) :
          post' = [post EXCEPT ![p] = [NoPost EXCEPT !.step = "arrived", !.action = a, !.job = j]]
    BY <1>1 DEF Arrive, Put
  <2>2. PICK o : o = [NoPost EXCEPT !.step = "arrived", !.action = a, !.job = j]
    OBVIOUS
  <2>3. j \in Jobs
    BY <1>0 DEF Jobs
  <2>4. o \in Post /\ o.step = "arrived" /\ o.job = j
    BY <1>0, <2>2, <2>3 DEF Post, Steps
  <2>5. actions' \in 0 .. MaxActions
    <3>1. actions < MaxActions /\ actions' = actions + 1
      BY <1>1 DEF Arrive
    <3> QED
      BY <1>0, <3>1 DEF HelperTyped
  <2>6. ~Busy(post[p]) /\ helperBusy' = helperBusy /\ UNCHANGED <<Escrow, Helper>>
    BY <1>1 DEF Arrive, Busy
  <2>7. helperBusy' = helperBusy /\ o.step \in {"none", "arrived"} /\ o.job <= Len(jobs)
    BY <1>0, <2>4, <2>6
  <2>8. post' = [post EXCEPT ![p] = o]
    BY <2>1, <2>2
  <2> QED
    BY <2>4, <2>5, <2>6, <2>7, <2>8, WaitingStep
<1>2. CASE Take(p)
  <2>1. /\ ~Busy(post[p]) /\ UNCHANGED <<Escrow, Helper>> /\ actions' \in 0 .. MaxActions
    BY <1>0, <1>2 DEF Take, HelperTyped, Busy
  <2>2. CASE ~helperBusy
    <3>1. PICK o : o = [post[p] EXCEPT !.step = "started"]
      OBVIOUS
    <3>2. o \in Post /\ o.step = "started" /\ o.job = post[p].job
      BY <1>0, <3>1 DEF Post, Steps
    <3>3. post' = [post EXCEPT ![p] = o] /\ helperBusy' = TRUE
      BY <1>2, <2>2, <3>1 DEF Take, Free, Goto, Put
    <3> QED
      BY <1>0, <2>1, <2>2, <3>2, <3>3, WaitingStep
  <2>3. CASE helperBusy
    <3>1. PICK o : o = NoPost
      OBVIOUS
    <3>2. post' = [post EXCEPT ![p] = o] /\ helperBusy' = helperBusy
      BY <1>2, <2>3, <3>1 DEF Take, Free, Put
    <3>3. o \in Post /\ o.step \in {"none", "arrived"} /\ o.job <= Len(jobs)
      BY <1>0, <3>1
    <3> QED
      BY <2>1, <3>2, <3>3, WaitingStep
  <2> QED
    BY <2>2, <2>3
<1>3. CASE Fail(p) \/ Report(p)
  <2>1. /\ Busy(post[p]) /\ post' = [post EXCEPT ![p] = NoPost] /\ helperBusy' = FALSE
        /\ jobs' = jobs /\ committed' = committed /\ escrowRoot' = escrowRoot
        /\ advertised' = advertised /\ current' = current /\ documents' = documents
        /\ actions' = actions
    BY <1>3 DEF Fail, Report, Put, Busy, Escrow, Helper
  <2>2. HelperTyped'
    BY <1>0, <2>1 DEF HelperTyped
  <2>3. PICK o : o = NoPost
    OBVIOUS
  <2>4. PostOK(o)'
    BY <1>0, <2>1, <2>3 DEF PostOK, AnswerOK
  <2>5. /\ Busy(post[p]) /\ o \in Post /\ post' = [post EXCEPT ![p] = o]
        /\ helperBusy' = FALSE /\ o.step = "none" /\ Len(jobs') >= Len(jobs)
    BY <1>0, <2>1, <2>3
  <2> QED
    BY <2>2, <2>4, <2>5, BusyStep
<1> QED
  BY <1>1, <1>2, <1>3

\* The awaited calls of an action.
LEMMA JobSteps ==
    ASSUME WorkbenchInv, NEW p \in Posts,
           Create(p) \/ Accept(p) \/ Submit(p) \/ Settle(p)
    PROVE  WorkbenchInv'
<1>0. /\ post[p] \in Post /\ PostOK(post[p]) /\ HelperTyped
      /\ post \in [Posts -> Post] /\ post[p].job \in 1 .. Len(jobs)
      /\ post[p].job \in Jobs /\ post[p].job \in Nat
      /\ Len(jobs) \in 1 .. MaxJobs /\ Len(jobs) \in Nat /\ jobs \in Seq(Statuses)
      /\ MaxJobs \in Nat /\ MaxActions \in Nat /\ actions \in Nat
  BY PostFacts, WorkbenchAssumptions DEF HelperTyped, Jobs
<1>1. CASE Create(p)
  <2>1. PICK o : o = [post[p] EXCEPT !.step = "written", !.job = Len(jobs) + 1]
    OBVIOUS
  <2>2. /\ post[p].step = "started" /\ post[p].action = "create" /\ Len(jobs) < MaxJobs
        /\ jobs' = Append(jobs, "Open") /\ post' = [post EXCEPT ![p] = o]
        /\ committed' = committed /\ escrowRoot' = escrowRoot /\ advertised' = advertised
        /\ current' = current /\ documents' = documents /\ actions' = actions
        /\ helperBusy' = helperBusy
    BY <1>1, <2>1 DEF Create, Doing, Put, Helper
  <2>3. jobs' \in Seq(Statuses) /\ Len(jobs') = Len(jobs) + 1
    BY <1>0, <2>2, AppendProperties DEF Statuses
  <2>4. HelperTyped'
    BY <1>0, <2>2, <2>3 DEF HelperTyped
  <2>5. /\ o \in Post /\ o.step = "written" /\ o.job = Len(jobs) + 1
        /\ o.action = "create"
    <3>1. Len(jobs) + 1 \in Jobs
      BY <1>0, <2>2 DEF Jobs
    <3> QED
      BY <1>0, <2>1, <2>2, <3>1 DEF Post, Steps
  <2>6. PostOK(o)'
    BY <1>0, <2>3, <2>5 DEF PostOK, AnswerOK
  <2>7. Busy(post[p]) /\ Len(jobs') >= Len(jobs)
    BY <1>0, <2>2, <2>3 DEF Busy
  <2> QED
    BY <2>2, <2>4, <2>5, <2>6, <2>7, BusyStep
<1>2. CASE Accept(p) \/ Submit(p) \/ Settle(p)
  <2>1. PICK step \in {"written", "reporting"}, s \in Statuses :
          /\ post' = [post EXCEPT ![p] = [post[p] EXCEPT !.step = step]]
          /\ jobs' = [jobs EXCEPT ![post[p].job] = s]
          /\ post[p].action \notin {"create", "prove"}
    BY <1>2
    DEF Accept, Submit, Settle, Doing, Goto, Put, Statuses
  <2>2. /\ Busy(post[p]) /\ escrowRoot' = escrowRoot /\ advertised' = advertised
        /\ current' = current /\ documents' = documents /\ actions' = actions
        /\ helperBusy' = helperBusy
        /\ \/ committed' = committed
           \/ committed' = [committed EXCEPT ![post[p].job] = actions]
    BY <1>2 DEF Accept, Submit, Settle, Doing, Helper, Busy
  <2>3. PICK o : o = [post[p] EXCEPT !.step = step]
    OBVIOUS
  <2>4. jobs' \in Seq(Statuses) /\ Len(jobs') = Len(jobs)
    BY <1>0, <2>1, ExceptSeq
  <2>5. committed' \in [Jobs -> Nat \union {NoDocument}]
    BY <1>0, <2>2 DEF HelperTyped
  <2>6. HelperTyped'
    BY <1>0, <2>2, <2>4, <2>5 DEF HelperTyped
  <2>7. /\ o \in Post /\ o.step = step /\ o.action \notin {"create", "prove"}
        /\ o.job = post[p].job /\ post' = [post EXCEPT ![p] = o]
    BY <1>0, <2>1, <2>3 DEF Post, Steps
  <2>8. PostOK(o)'
    BY <1>0, <2>4, <2>7 DEF PostOK, AnswerOK
  <2>9. Len(jobs') >= Len(jobs)
    BY <1>0, <2>4
  <2> QED
    BY <2>2, <2>6, <2>7, <2>8, <2>9, BusyStep
<1> QED
  BY <1>1, <1>2

LEMMA HelperSteps ==
    ASSUME WorkbenchInv, NEW p \in Posts,
           \/ Created(p) \/ Forget(p) \/ Check(p) \/ Prove(p) \/ Advertise(p) \/ SetRoot(p)
           \/ Remember(p) \/ Retrieve(p)
    PROVE  WorkbenchInv'
<1>0. /\ post[p] \in Post /\ PostOK(post[p]) /\ HelperTyped
      /\ post \in [Posts -> Post] /\ post[p].job \in Jobs /\ post[p].job \in Nat
      /\ Len(jobs) \in Jobs /\ Len(jobs) \in Nat
  BY PostFacts, WorkbenchAssumptions DEF HelperTyped, Jobs
<1>1. CASE Created(p)
  <2>1. PICK o : o = [post[p] EXCEPT !.step = "reporting", !.got = Len(jobs)]
    OBVIOUS
  <2>2. /\ Busy(post[p]) /\ post[p].step = "written" /\ post[p].action = "create"
        /\ post' = [post EXCEPT ![p] = o]
        /\ current' = NoProof
        /\ committed' = committed /\ escrowRoot' = escrowRoot /\ advertised' = advertised
        /\ documents' = documents /\ jobs' = jobs /\ actions' = actions
        /\ helperBusy' = helperBusy
    BY <1>1, <2>1 DEF Created, Doing, Goto, Put, Busy, Escrow, Helper
  <2>3. /\ o \in Post /\ o.step = "reporting" /\ o.action = post[p].action
        /\ o.job = post[p].job /\ o.got = Len(jobs)
    BY <1>0, <2>1 DEF Post, Steps
  <2>4. HelperTyped'
    BY <1>0, <2>2 DEF HelperTyped
  <2>5. PostOK(o)'
    BY <1>0, <2>2, <2>3 DEF PostOK, AnswerOK
  <2>6. Len(jobs') >= Len(jobs)
    BY <1>0, <2>2
  <2> QED
    BY <2>2, <2>3, <2>4, <2>5, <2>6, BusyStep
<1>2. CASE Forget(p)
  <2>1. PICK o : o = [post[p] EXCEPT !.step = "reading"]
    OBVIOUS
  <2>2. /\ Busy(post[p]) /\ post[p].action = "prove"
        /\ post' = [post EXCEPT ![p] = o]
        /\ current' = NoProof
        /\ committed' = committed /\ escrowRoot' = escrowRoot /\ advertised' = advertised
        /\ documents' = documents /\ jobs' = jobs /\ actions' = actions
        /\ helperBusy' = helperBusy
    BY <1>2, <2>1 DEF Forget, Doing, Goto, Put, Busy, Escrow, Helper
  <2>3. /\ o \in Post /\ o.step = "reading" /\ o.action = post[p].action
        /\ o.job = post[p].job
    BY <1>0, <2>1 DEF Post, Steps
  <2>4. HelperTyped'
    BY <1>0, <2>2 DEF HelperTyped
  <2>5. PostOK(o)'
    BY <1>0, <2>2, <2>3 DEF PostOK, AnswerOK
  <2>6. Len(jobs') >= Len(jobs)
    BY <1>0, <2>2
  <2> QED
    BY <2>2, <2>3, <2>4, <2>5, <2>6, BusyStep
<1>3. CASE Check(p)
  <2>1. PICK o : o = [post[p] EXCEPT !.step = "written"]
    OBVIOUS
  <2>2. /\ Busy(post[p]) /\ post[p].action = "prove" /\ advertised = escrowRoot
        /\ post' = [post EXCEPT ![p] = o]
        /\ committed' = committed /\ escrowRoot' = escrowRoot /\ advertised' = advertised
        /\ current' = current /\ documents' = documents /\ jobs' = jobs /\ actions' = actions
        /\ helperBusy' = helperBusy
    BY <1>3, <2>1 DEF Check, Matches, Doing, Goto, Put, Busy, Escrow, Helper
  <2>3. /\ o \in Post /\ o.step = "written" /\ o.action = post[p].action
        /\ o.job = post[p].job
    BY <1>0, <2>1 DEF Post, Steps
  <2>4. HelperTyped'
    BY <1>0, <2>2 DEF HelperTyped
  <2>5. PostOK(o)'
    BY <1>0, <2>2, <2>3 DEF PostOK, AnswerOK
  <2>6. Len(jobs') >= Len(jobs)
    BY <1>0, <2>2
  <2> QED
    BY <2>2, <2>3, <2>4, <2>5, <2>6, BusyStep
<1>4. CASE Prove(p)
  <2>1. PICK o : o = [post[p] EXCEPT !.step = "reporting"]
    OBVIOUS
  <2>2. /\ Busy(post[p]) /\ post[p].step = "written" /\ post[p].action = "prove"
        /\ post' = [post EXCEPT ![p] = o]
        /\ current' = [job |-> post[p].job, root |-> advertised]
        /\ committed' = committed /\ escrowRoot' = escrowRoot /\ advertised' = advertised
        /\ documents' = documents /\ jobs' = jobs /\ actions' = actions
        /\ helperBusy' = helperBusy
    BY <1>4, <2>1 DEF Prove, Doing, Goto, Put, Busy, Escrow, Helper
  <2>3. /\ o \in Post /\ o.step = "reporting" /\ o.action = post[p].action
        /\ o.job = post[p].job
    BY <1>0, <2>1 DEF Post, Steps
  <2>4. HelperTyped'
    BY <1>0, <2>2 DEF HelperTyped, Proof
  <2>5. PostOK(o)'
    <3>1. current' # NoProof /\ current'.job = o.job /\ current'.root = escrowRoot'
      BY <1>0, <2>2, <2>3, WorkbenchAssumptions DEF PostOK, HelperTyped, Proof
    <3> QED
      BY <1>0, <2>2, <2>3, <3>1 DEF PostOK, AnswerOK
  <2>6. Len(jobs') >= Len(jobs)
    BY <1>0, <2>2
  <2> QED
    BY <2>2, <2>3, <2>4, <2>5, <2>6, BusyStep
<1>5. CASE Advertise(p)
  <2>1. PICK o : o = [post[p] EXCEPT !.step = "sending"]
    OBVIOUS
  <2>2. /\ Busy(post[p]) /\ post[p].action \in {"revoke", "restore"}
        /\ post' = [post EXCEPT ![p] = o]
        /\ advertised' = Target(p)
        /\ committed' = committed /\ escrowRoot' = escrowRoot /\ current' = current
        /\ documents' = documents /\ jobs' = jobs /\ actions' = actions
        /\ helperBusy' = helperBusy
    BY <1>5, <2>1 DEF Advertise, Doing, Goto, Put, Busy, Escrow, Helper
  <2>3. /\ o \in Post /\ o.step = "sending" /\ o.action = post[p].action
        /\ o.job = post[p].job
    BY <1>0, <2>1 DEF Post, Steps
  <2>4. HelperTyped'
    BY <1>0, <2>2 DEF HelperTyped, Target, Roots
  <2>5. PostOK(o)'
    BY <1>0, <2>2, <2>3 DEF PostOK, AnswerOK
  <2>6. Len(jobs') >= Len(jobs)
    BY <1>0, <2>2
  <2> QED
    BY <2>2, <2>3, <2>4, <2>5, <2>6, BusyStep
<1>6. CASE SetRoot(p)
  <2>1. PICK o : o = [post[p] EXCEPT !.step = "reporting"]
    OBVIOUS
  <2>2. /\ Busy(post[p]) /\ post[p].action \in {"revoke", "restore"}
        /\ post' = [post EXCEPT ![p] = o]
        /\ escrowRoot' = Target(p)
        /\ committed' = committed /\ advertised' = advertised /\ current' = current
        /\ documents' = documents /\ jobs' = jobs /\ actions' = actions
        /\ helperBusy' = helperBusy
    BY <1>6, <2>1 DEF SetRoot, Doing, Goto, Put, Busy, Escrow, Helper
  <2>3. /\ o \in Post /\ o.step = "reporting" /\ o.action = post[p].action
        /\ o.job = post[p].job
    BY <1>0, <2>1 DEF Post, Steps
  <2>4. HelperTyped'
    BY <1>0, <2>2 DEF HelperTyped, Target, Roots
  <2>5. PostOK(o)'
    BY <1>0, <2>2, <2>3 DEF PostOK, AnswerOK
  <2>6. Len(jobs') >= Len(jobs)
    BY <1>0, <2>2
  <2> QED
    BY <2>2, <2>3, <2>4, <2>5, <2>6, BusyStep
<1>7. CASE Remember(p)
  <2>1. PICK o : o = [post[p] EXCEPT !.step = "reporting"]
    OBVIOUS
  <2>2. /\ Busy(post[p]) /\ post[p].action = "submit-document"
        /\ post' = [post EXCEPT ![p] = o]
        /\ documents' = [documents EXCEPT ![post[p].job] = committed[post[p].job]]
        /\ committed' = committed /\ escrowRoot' = escrowRoot /\ advertised' = advertised
        /\ current' = current /\ jobs' = jobs /\ actions' = actions /\ helperBusy' = helperBusy
    BY <1>7, <2>1 DEF Remember, Doing, Goto, Put, Busy, Escrow, Helper
  <2>3. /\ o \in Post /\ o.step = "reporting" /\ o.action = post[p].action
        /\ o.job = post[p].job
    BY <1>0, <2>1 DEF Post, Steps
  <2>4. HelperTyped'
    BY <1>0, <2>2 DEF HelperTyped
  <2>5. PostOK(o)'
    BY <1>0, <2>2, <2>3 DEF PostOK, AnswerOK
  <2>6. Len(jobs') >= Len(jobs)
    BY <1>0, <2>2
  <2> QED
    BY <2>2, <2>3, <2>4, <2>5, <2>6, BusyStep
<1>8. CASE Retrieve(p)
  <2>1. PICK o : o = [post[p] EXCEPT !.step = "reporting"]
    OBVIOUS
  <2>2. /\ Busy(post[p]) /\ post[p].action = "retrieve"
        /\ post' = [post EXCEPT ![p] = o]
        /\ committed' = committed /\ escrowRoot' = escrowRoot /\ advertised' = advertised
        /\ current' = current /\ documents' = documents /\ jobs' = jobs /\ actions' = actions
        /\ helperBusy' = helperBusy
    BY <1>8, <2>1 DEF Retrieve, Doing, Goto, Put, Busy, Escrow, Helper
  <2>3. /\ o \in Post /\ o.step = "reporting" /\ o.action = post[p].action
        /\ o.job = post[p].job
    BY <1>0, <2>1 DEF Post, Steps
  <2>4. HelperTyped'
    BY <1>0, <2>2 DEF HelperTyped
  <2>5. PostOK(o)'
    BY <1>0, <2>2, <2>3 DEF PostOK, AnswerOK
  <2>6. Len(jobs') >= Len(jobs)
    BY <1>0, <2>2
  <2> QED
    BY <2>2, <2>3, <2>4, <2>5, <2>6, BusyStep
<1> QED
  BY <1>1, <1>2, <1>3, <1>4, <1>5, <1>6, <1>7, <1>8

LEMMA WorkbenchAlways == WorkbenchSpec => []WorkbenchInv
<1>1. ASSUME WorkbenchInv, UNCHANGED workbenchVars PROVE WorkbenchInv'
  <2>1. /\ jobs' = jobs /\ committed' = committed /\ escrowRoot' = escrowRoot
        /\ helperBusy' = helperBusy /\ advertised' = advertised /\ current' = current
        /\ documents' = documents /\ post' = post /\ actions' = actions
    BY <1>1 DEF workbenchVars
  <2>2. HelperTyped'
    BY <1>1, <2>1 DEF WorkbenchInv, HelperTyped
  <2>3. ASSUME NEW p \in Posts PROVE PostOK(post[p])'
    BY <1>1, <2>1 DEF WorkbenchInv, PostOK, AnswerOK
  <2> QED
    BY <1>1, <2>1, <2>2, <2>3 DEF WorkbenchInv, Busy
<1>2. WorkbenchInv /\ [WorkbenchNext]_workbenchVars => WorkbenchInv'
  BY <1>1, RequestSteps, JobSteps, HelperSteps DEF WorkbenchNext
<1> QED
  BY WorkbenchInitInv, <1>2, PTL DEF WorkbenchSpec

\* The helper of runtime/start.mjs keeps its form.
THEOREM WorkbenchIsTyped == WorkbenchSpec => []WorkbenchTypeOK
<1>1. WorkbenchInv => WorkbenchTypeOK
  BY WorkbenchAssumptions DEF WorkbenchInv, HelperTyped, WorkbenchTypeOK
<1> QED
  BY <1>1, WorkbenchAlways, PTL

\* An answer of runtime/start.mjs is about the request's own job.
THEOREM AnswersAreAboutTheirJob == WorkbenchSpec => []AnswersAreOwn
<1>1. WorkbenchInv => AnswersAreOwn
  BY DEF WorkbenchInv, PostOK, AnswerOK, AnswersAreOwn
<1> QED
  BY <1>1, WorkbenchAlways, PTL

-----------------------------------------------------------------------------
(* The accountless storage client: swarm-gateway.ts.                       *)

Call == [step : UploadSteps, expected : 0 .. MaxRevision, attempt : 0 .. MaxRetries]

\* What a call has posted and been answered, by the step it is at.
CallHistory(u) ==
    /\ upload[u].step \in {"idle", "hashing"} => posts[u] = 0
    /\ posts[u] <= 1
    /\ acked[u] => upload[u].step \in {"verifying", "pausing", "returned", "unverified"}
    /\ upload[u].step = "pausing" => upload[u].attempt < MaxRetries

GatewayInv ==
    /\ GatewayTypeOK
    /\ \A u \in Uploads : CallHistory(u)

LEMMA GatewayInitInv == GatewayInit => GatewayInv
<1> SUFFICES ASSUME GatewayInit PROVE GatewayInv
  OBVIOUS
<1>1. GatewayTypeOK
  <2>1. 0 \in 0 .. MaxRevision /\ 0 \in 0 .. MaxRetries /\ "idle" \in UploadSteps
    BY GatewayAssumptions DEF UploadSteps
  <2>2. upload \in [Uploads -> [step : UploadSteps, expected : 0 .. MaxRevision,
                                attempt : 0 .. MaxRetries]]
    BY <2>1 DEF GatewayInit
  <2>3. posts \in [Uploads -> Nat] /\ acked \in [Uploads -> BOOLEAN]
    BY DEF GatewayInit
  <2> QED
    BY <2>1, <2>2, <2>3 DEF GatewayInit, GatewayTypeOK
<1>2. \A u \in Uploads : CallHistory(u)
  BY DEF GatewayInit, CallHistory
<1> QED
  BY <1>1, <1>2 DEF GatewayInv

\* One call goes a step, and nothing is posted or answered in it.
LEMMA CallStep ==
    ASSUME GatewayInv, NEW u \in Uploads, NEW c \in Call,
           upload' = [upload EXCEPT ![u] = c], UNCHANGED <<Client, posts, acked>>,
           c.step \in {"idle", "hashing"} => posts[u] = 0,
           acked[u] => c.step \in {"verifying", "pausing", "returned", "unverified"},
           c.step = "pausing" => c.attempt < MaxRetries
    PROVE  GatewayInv'
<1>1. /\ epoch' = epoch /\ destroyed' = destroyed /\ ready' = ready /\ inits' = inits
      /\ posts' = posts /\ acked' = acked
  BY DEF Client
<1>2. /\ upload' \in [Uploads -> Call] /\ upload'[u] = c
      /\ \A v \in Uploads \ {u} : upload'[v] = upload[v]
  BY DEF GatewayInv, GatewayTypeOK, Call
<1>3. GatewayTypeOK'
  BY <1>1, <1>2 DEF GatewayInv, GatewayTypeOK, Call
<1>4. \A v \in Uploads : CallHistory(v)'
  BY <1>1, <1>2 DEF GatewayInv, CallHistory
<1> QED
  BY <1>3, <1>4 DEF GatewayInv

LEMMA GatewayCallSteps ==
    ASSUME GatewayInv, NEW u \in Uploads, Begin(u) \/ UploadStep(u)
    PROVE  GatewayInv'
<1>0. /\ upload \in [Uploads -> Call] /\ upload[u] \in Call
      /\ epoch \in 0 .. MaxRevision /\ MaxRetries \in Nat
      /\ posts \in [Uploads -> Nat] /\ acked \in [Uploads -> BOOLEAN]
      /\ CallHistory(u)
  BY GatewayAssumptions DEF GatewayInv, GatewayTypeOK, Call
<1>1. CASE Begin(u)
  <2>1. PICK c : c = [step |-> "hashing", expected |-> epoch, attempt |-> 0]
    OBVIOUS
  <2>2. /\ upload[u].step = "idle" /\ upload' = [upload EXCEPT ![u] = c]
        /\ UNCHANGED <<Client, posts, acked>>
    BY <1>1, <2>1 DEF Begin, SetUpload
  <2>3. c \in Call /\ c.step = "hashing"
    BY <1>0, <2>1 DEF Call, UploadSteps
  <2> QED
    BY <1>0, <2>2, <2>3, CallStep DEF CallHistory
<1>2. ASSUME NEW step \in UploadSteps \ {"idle", "hashing"}, ToStep(u, step),
             UNCHANGED <<Client, posts, acked>>,
             acked[u] => step # "failed" /\ step # "posting",
             step = "pausing" => upload[u].attempt < MaxRetries
      PROVE  GatewayInv'
  <2>1. PICK c : c = [upload[u] EXCEPT !.step = step]
    OBVIOUS
  <2>2. c \in Call /\ c.step = step /\ c.attempt = upload[u].attempt
    BY <1>0, <2>1 DEF Call
  <2>3. upload' = [upload EXCEPT ![u] = c]
    BY <1>2, <2>1 DEF ToStep, SetUpload
  <2>4. acked[u] => step \in {"verifying", "pausing", "returned", "unverified"}
    BY <1>2 DEF UploadSteps
  <2> QED
    BY <1>2, <2>2, <2>3, <2>4, CallStep
<1>3. CASE ReadBack(u) \/ NotReadBack(u) \/ Unanswered(u)
  <2>1. PICK step \in {"returned", "unverified", "failed", "pausing"} :
          /\ ToStep(u, step) /\ (step = "failed" => upload[u].step = "posting")
          /\ step = "pausing" => upload[u].attempt < MaxRetries
    BY <1>3 DEF ReadBack, NotReadBack, Unanswered, Retries
  <2>2. UNCHANGED <<Client, posts, acked>>
    BY <1>3 DEF ReadBack, NotReadBack, Unanswered
  <2>3. acked[u] => step # "failed" /\ step # "posting"
    BY <1>0, <2>1 DEF CallHistory
  <2>4. step \in UploadSteps \ {"idle", "hashing"}
    BY DEF UploadSteps
  <2> QED
    BY <1>2, <2>1, <2>2, <2>3, <2>4
<1>4. CASE Paused(u)
  <2>1. /\ upload[u].step = "pausing" /\ upload[u].attempt < MaxRetries
        /\ UNCHANGED <<Client, posts, acked>>
    BY <1>0, <1>4 DEF Paused, CallHistory
  <2>2. CASE ~Alive(upload[u].expected)
    <3>1. ToStep(u, "unverified")
      BY <1>4, <2>2 DEF Paused
    <3>2. "unverified" \in UploadSteps \ {"idle", "hashing"}
      BY DEF UploadSteps
    <3> QED
      BY <1>2, <2>1, <3>1, <3>2
  <2>3. CASE Alive(upload[u].expected)
    <3>1. PICK c : c = [upload[u] EXCEPT !.step = "verifying", !.attempt = upload[u].attempt + 1]
      OBVIOUS
    <3>2. upload' = [upload EXCEPT ![u] = c]
      BY <1>4, <2>3, <3>1 DEF Paused, SetUpload, Resume
    <3>3. upload[u].attempt + 1 \in 0 .. MaxRetries
      BY <1>0, <2>1 DEF Call
    <3>4. c \in Call /\ c.step = "verifying"
      BY <1>0, <3>1, <3>3 DEF Call, UploadSteps
    <3> QED
      BY <2>1, <3>2, <3>4, CallStep
  <2> QED
    BY <2>2, <2>3
<1>5. CASE PostBytes(u) \/ Answered(u)
  <2>1. CASE ToStep(u, "failed") /\ UNCHANGED <<Client, posts, acked>>
    <3>1. upload[u].step \in {"hashing", "posting"}
      BY <1>5 DEF PostBytes, Answered
    <3>2. "failed" \in UploadSteps \ {"idle", "hashing"} /\ ~acked[u]
      BY <1>0, <3>1 DEF UploadSteps, CallHistory
    <3> QED
      BY <1>2, <2>1, <3>2
  <2>2. CASE /\ upload[u].step = "hashing" /\ ToStep(u, "posting")
             /\ posts' = [posts EXCEPT ![u] = @ + 1] /\ UNCHANGED <<Client, acked>>
    <3>1. PICK c : c = [upload[u] EXCEPT !.step = "posting"]
      OBVIOUS
    <3>2. c \in Call /\ c.step = "posting" /\ upload' = [upload EXCEPT ![u] = c]
      BY <1>0, <2>2, <3>1 DEF Call, UploadSteps, ToStep, SetUpload
    <3>3. /\ posts[u] = 0 /\ ~acked[u] /\ epoch' = epoch /\ destroyed' = destroyed
          /\ ready' = ready /\ inits' = inits /\ acked' = acked
      BY <1>0, <2>2 DEF CallHistory, Client
    <3>4. /\ posts' \in [Uploads -> Nat] /\ posts'[u] = 1
          /\ \A v \in Uploads \ {u} : posts'[v] = posts[v] /\ upload'[v] = upload[v]
          /\ upload' \in [Uploads -> Call] /\ upload'[u] = c
      BY <1>0, <2>2, <3>2, <3>3
    <3>5. GatewayTypeOK'
      BY <3>3, <3>4 DEF GatewayInv, GatewayTypeOK, Call
    <3>6. \A v \in Uploads \ {u} : CallHistory(v)'
      BY <3>3, <3>4 DEF GatewayInv, CallHistory
    <3>7. CallHistory(u)'
      BY <3>2, <3>3, <3>4 DEF CallHistory
    <3> QED
      BY <3>5, <3>6, <3>7 DEF GatewayInv
  <2>3. CASE /\ upload[u].step = "posting" /\ ToStep(u, "verifying")
             /\ acked' = [acked EXCEPT ![u] = TRUE] /\ UNCHANGED <<Client, posts>>
    <3>1. PICK c : c = [upload[u] EXCEPT !.step = "verifying"]
      OBVIOUS
    <3>2. c \in Call /\ c.step = "verifying" /\ upload' = [upload EXCEPT ![u] = c]
      BY <1>0, <2>3, <3>1 DEF Call, UploadSteps, ToStep, SetUpload
    <3>3. /\ epoch' = epoch /\ destroyed' = destroyed
          /\ ready' = ready /\ inits' = inits /\ posts' = posts
      BY <1>0, <2>3 DEF Client
    <3>4. /\ acked' \in [Uploads -> BOOLEAN]
          /\ \A v \in Uploads \ {u} : acked'[v] = acked[v] /\ upload'[v] = upload[v]
          /\ upload' \in [Uploads -> Call] /\ upload'[u] = c
      BY <1>0, <2>3, <3>2
    <3>5. GatewayTypeOK'
      BY <3>3, <3>4 DEF GatewayInv, GatewayTypeOK, Call
    <3>6. \A v \in Uploads \ {u} : CallHistory(v)'
      BY <3>3, <3>4 DEF GatewayInv, CallHistory
    <3>7. CallHistory(u)'
      BY <1>0, <3>2, <3>3, <3>4 DEF CallHistory
    <3> QED
      BY <3>5, <3>6, <3>7 DEF GatewayInv
  <2>4. \/ ToStep(u, "failed") /\ UNCHANGED <<Client, posts, acked>>
        \/ /\ upload[u].step = "hashing" /\ ToStep(u, "posting")
           /\ posts' = [posts EXCEPT ![u] = @ + 1] /\ UNCHANGED <<Client, acked>>
        \/ /\ upload[u].step = "posting" /\ ToStep(u, "verifying")
           /\ acked' = [acked EXCEPT ![u] = TRUE] /\ UNCHANGED <<Client, posts>>
    <3>1. CASE PostBytes(u)
      BY <3>1 DEF PostBytes
    <3>2. CASE Answered(u)
      BY <3>2 DEF Answered
    <3> QED
      BY <1>5, <3>1, <3>2
  <2> QED
    BY <2>1, <2>2, <2>3, <2>4
<1> QED
  BY <1>1, <1>3, <1>4, <1>5 DEF UploadStep

LEMMA GatewayStepInv == GatewayInv /\ [GatewayNext]_gatewayVars => GatewayInv'
<1> SUFFICES ASSUME GatewayInv, [GatewayNext]_gatewayVars PROVE GatewayInv'
  OBVIOUS
<1>1. CASE /\ upload' = upload /\ posts' = posts /\ acked' = acked
           /\ epoch' \in 0 .. MaxRevision /\ destroyed' \in BOOLEAN /\ ready' \in BOOLEAN
           /\ inits' \subseteq 0 .. MaxRevision
  BY <1>1 DEF GatewayInv, GatewayTypeOK, CallHistory
<1>2. /\ epoch \in 0 .. MaxRevision /\ destroyed \in BOOLEAN /\ ready \in BOOLEAN
      /\ inits \subseteq 0 .. MaxRevision /\ MaxRevision \in Nat
  BY GatewayAssumptions DEF GatewayInv, GatewayTypeOK
<1>3. ASSUME Initialize \/ LeaveGateway \/ Destroy \/ UNCHANGED gatewayVars
              \/ \E r \in inits : CheckPassed(r) \/ CheckFailed(r)
      PROVE  GatewayInv'
  <2>1. upload' = upload /\ posts' = posts /\ acked' = acked
    BY <1>3 DEF Initialize, LeaveGateway, Destroy, Cancel, CheckPassed, CheckFailed, gatewayVars
  <2>2. epoch' \in 0 .. MaxRevision
    <3>1. epoch' = epoch \/ (epoch < MaxRevision /\ epoch' = epoch + 1)
      BY <1>3 DEF Initialize, LeaveGateway, Destroy, Cancel, CheckPassed, CheckFailed, gatewayVars
    <3> QED
      BY <1>2, <3>1
  <2>3. destroyed' \in BOOLEAN
    BY <1>2, <1>3
    DEF Initialize, LeaveGateway, Destroy, Cancel, CheckPassed, CheckFailed, gatewayVars
  <2>4. ready' \in BOOLEAN
    BY <1>2, <1>3
    DEF Initialize, LeaveGateway, Destroy, Cancel, CheckPassed, CheckFailed, gatewayVars
  <2>5. inits' \subseteq 0 .. MaxRevision
    <3>1. inits' = inits \/ inits' = inits \union {epoch} \/ \E x \in inits : inits' = inits \ {x}
      BY <1>3
      DEF Initialize, LeaveGateway, Destroy, Cancel, CheckPassed, CheckFailed, gatewayVars
    <3> QED
      BY <1>2, <3>1
  <2> QED
    BY <1>1, <2>1, <2>2, <2>3, <2>4, <2>5
<1> QED
  BY <1>3, GatewayCallSteps DEF GatewayNext

LEMMA GatewayAlways == GatewaySpec => []GatewayInv
  BY GatewayInitInv, GatewayStepInv, PTL DEF GatewaySpec

\* swarm-gateway.ts keeps its form.
THEOREM GatewayIsTyped == GatewaySpec => []GatewayTypeOK
<1>1. GatewayInv => GatewayTypeOK
  BY DEF GatewayInv
<1> QED
  BY <1>1, GatewayAlways, PTL

\* An upload of swarm-gateway.ts posts once and keeps the reference it was
\* given, and returns it only in the session it began in.
THEOREM ReferenceStaysKnown == GatewaySpec => ReferenceIsKept
<1>1. ASSUME GatewayInv, GatewayInv', [GatewayNext]_gatewayVars, NEW u \in Uploads
      PROVE  /\ posts'[u] <= 1
             /\ acked'[u] => upload'[u].step # "failed"
             /\ upload[u].step # "returned" /\ upload'[u].step = "returned"
                  => upload[u].expected = epoch /\ ~destroyed
  <2>1. posts'[u] <= 1 /\ (acked'[u] => upload'[u].step # "failed")
    BY <1>1 DEF GatewayInv, CallHistory
  <2>2. SUFFICES ASSUME upload[u].step # "returned", upload'[u].step = "returned"
                 PROVE  Alive(upload[u].expected)
    BY <2>1 DEF Alive
  <2>3. PICK v \in Uploads : Begin(v) \/ UploadStep(v)
    BY <1>1, <2>2
    DEF GatewayNext, gatewayVars, Initialize, LeaveGateway, Destroy, Cancel, CheckPassed,
        CheckFailed
  <2>4. PICK c : upload' = [upload EXCEPT ![v] = c]
    BY <2>3
    DEF Begin, UploadStep, PostBytes, Answered, Unanswered, ReadBack, NotReadBack, Paused, ToStep,
        SetUpload
  <2>5. /\ upload \in [Uploads -> Call] /\ v = u /\ c.step = "returned"
        /\ upload[u] \in Call
    BY <1>1, <2>2, <2>4 DEF GatewayInv, GatewayTypeOK, Call
  <2>6. ReadBack(u)
    <3>1. /\ upload'[u].step = "returned"
          /\ \A to : upload' = [upload EXCEPT ![u] = to] => upload'[u] = to
          /\ \A step : ToStep(u, step) => step = "returned"
      BY <2>2, <2>5 DEF ToStep, SetUpload, Call
    <3>2. ~Begin(u)
      BY <3>1 DEF Begin, SetUpload
    <3>3. ~PostBytes(u) /\ ~Answered(u) /\ ~Unanswered(u) /\ ~NotReadBack(u)
      BY <3>1 DEF PostBytes, Answered, Unanswered, NotReadBack
    <3>4. ~Paused(u)
      BY <2>5, <3>1 DEF Paused, SetUpload, Resume, Call
    <3> QED
      BY <2>3, <2>5, <3>2, <3>3, <3>4 DEF UploadStep
  <2>7. upload'[u].step = IF Alive(upload[u].expected) THEN "returned" ELSE "unverified"
    BY <2>5, <2>6 DEF ReadBack, ToStep, SetUpload, Call
  <2> QED
    BY <2>2, <2>7
<1>2. GatewayInv /\ GatewayInv' /\ [GatewayNext]_gatewayVars
        => [\A u \in Uploads :
              /\ posts'[u] <= 1
              /\ acked'[u] => upload'[u].step # "failed"
              /\ upload[u].step # "returned" /\ upload'[u].step = "returned"
                   => upload[u].expected = epoch /\ ~destroyed]_gatewayVars
  BY <1>1
<1> QED
  BY <1>2, GatewayAlways, PTL DEF GatewaySpec, ReferenceIsKept

-----------------------------------------------------------------------------
(* The Swarm ID client and the publisher: swarm-id.ts, publish-snapshot.ts. *)

\* There is an account, and the client has seen what it is.
Attended == client # "none" /\ ~closed /\ ~disconnecting /\ seen = info /\ info.id # Nobody

\* A call under way has seen every change of the account, or will notice it
\* in the revision.
SessionOK(d) ==
    /\ d \in Active => call[d].expected <= revision
    /\ d \in Active /\ ~switched[d] => Attended
    /\ d \in Active /\ switched[d] => closed \/ revision > call[d].expected
    /\ call[d].step = "returned" => ~switched[d]

SessionsTyped ==
    /\ revision \in Nat
    /\ call \in [Documents -> [step : CallSteps, expected : Nat]]
    /\ switched \in [Documents -> BOOLEAN]

SessionInv == SessionsTyped /\ \A d \in Documents : SessionOK(d)

LEMMA UpdateCounts ==
    ASSUME revision \in Nat, NEW x, NEW n \in Nat, n >= revision, Update(x, n)
    PROVE  /\ revision' \in Nat /\ revision' >= n /\ seen' = x
           /\ seen # x => revision' = n + 1
  BY DEF Update

LEMMA SessionInitInv == SwarmInit => SessionInv
<1> SUFFICES ASSUME SwarmInit PROVE SessionInv
  OBVIOUS
<1>1. SessionsTyped
  BY DEF SwarmInit, SessionsTyped, CallSteps
<1>2. \A d \in Documents : call[d].step = "idle"
  BY DEF SwarmInit
<1> QED
  BY <1>1, <1>2 DEF SessionInv, SessionOK, Active

\* No call moves.  Those under way are marked, or nothing they rely on
\* changed.
LEMMA AccountStep ==
    ASSUME SessionInv, call' = call, revision' \in Nat, revision' >= revision,
           closed => closed',
           \/ Interrupt /\ (closed' \/ revision' > revision)
           \/ /\ switched' = switched
              /\ \A d \in Active : ~switched[d] => Attended'
    PROVE  SessionInv'
<1>1. SessionsTyped /\ Active' = Active
  BY DEF SessionInv, Active
<1>2. switched' \in [Documents -> BOOLEAN]
  BY <1>1 DEF Interrupt, SessionsTyped
<1>3. SessionsTyped'
  BY <1>1, <1>2 DEF SessionsTyped
<1>4. ASSUME NEW d \in Documents PROVE SessionOK(d)'
  <2>1. /\ SessionOK(d) /\ call[d].expected \in Nat /\ revision \in Nat
    BY <1>1 DEF SessionInv, SessionsTyped
  <2>2. CASE d \notin Active
    <3>1. switched'[d] = switched[d]
      BY <1>1, <2>2 DEF Interrupt, SessionsTyped
    <3> QED
      BY <1>1, <2>1, <2>2, <3>1 DEF SessionOK
  <2>3. CASE d \in Active
    <3>1. call'[d].expected <= revision' /\ call'[d].step # "returned"
      BY <2>1, <2>3 DEF SessionOK, Active
    <3>2. CASE Interrupt /\ (closed' \/ revision' > revision)
      <4>1. switched'[d]
        BY <2>3, <3>2 DEF Interrupt
      <4>2. closed' \/ revision' > call'[d].expected
        BY <2>1, <2>3, <3>2 DEF SessionOK
      <4> QED
        BY <1>1, <3>1, <4>1, <4>2 DEF SessionOK
    <3>3. CASE /\ switched' = switched
               /\ \A x \in Active : ~switched[x] => Attended'
      <4>1. switched[d] => closed' \/ revision' > call'[d].expected
        BY <2>1, <2>3 DEF SessionOK
      <4> QED
        BY <1>1, <2>3, <3>1, <3>3, <4>1 DEF SessionOK
    <3> QED
      BY <3>2, <3>3
  <2> QED
    BY <2>2, <2>3
<1> QED
  BY <1>3, <1>4 DEF SessionInv

LEMMA AccountSteps ==
    ASSUME SessionInv, Load \/ Loaded \/ Switch \/ Disconnect \/ Disconnected \/ Close
    PROVE  SessionInv'
<1>0. /\ revision \in Nat /\ revision + 1 \in Nat
      /\ \A d \in Active : ~switched[d] => Attended
  BY DEF SessionInv, SessionsTyped, SessionOK, Active
\* The sessions of all calls under way end, and the change was counted or
\* every one of them had lost its session before.
<1>1. ASSUME Interrupt, call' = call, revision' \in Nat, revision' >= revision,
             closed => closed', Attended => closed' \/ revision' > revision
      PROVE  SessionInv'
  <2>1. CASE Attended
    BY <1>1, <2>1, AccountStep
  <2>2. CASE ~Attended
    <3>1. \A d \in Active : switched[d]
      BY <1>0, <2>2
    <3>2. switched' = switched
      BY <1>1, <3>1 DEF Interrupt, SessionInv, SessionsTyped
    <3> QED
      BY <1>1, <3>1, <3>2, AccountStep
  <2> QED
    BY <2>1, <2>2
<1>2. CASE Load
  <2>1. /\ client = "none" /\ closed' = closed /\ switched' = switched /\ call' = call
        /\ revision' = revision
    BY <1>2 DEF Load
  <2>2. \A d \in Active : switched[d]
    BY <1>0, <2>1 DEF Attended
  <2> QED
    BY <1>0, <2>1, <2>2, AccountStep
<1>3. CASE Loaded
  <2>1. client = "loading" /\ call' = call /\ closed' = closed /\ info' = info
        /\ disconnecting' = disconnecting
    BY <1>3 DEF Loaded
  <2>2. CASE ~closed /\ client' = "ready" /\ Update(Reported, revision)
             /\ UNCHANGED <<switches, switched>>
    <3>1. revision' \in Nat /\ revision' >= revision /\ seen' = Reported
      BY <1>0, <2>2, UpdateCounts
    <3>2. Attended => Attended'
      BY <2>1, <2>2, <3>1 DEF Attended, Reported
    <3> QED
      BY <1>0, <2>1, <2>2, <3>1, <3>2, AccountStep
  <2>3. CASE Count /\ client' = "none" /\ Update(Absent, revision) /\ Interrupt
    <3>1. /\ revision' \in Nat /\ revision' >= revision
          /\ seen # Absent => revision' = revision + 1
      BY <1>0, <2>3, UpdateCounts
    <3>2. Attended => seen # Absent
      BY DEF Attended, Absent
    <3>3. Attended => revision' > revision
      BY <1>0, <3>1, <3>2
    <3> QED
      BY <1>1, <2>1, <2>3, <3>1, <3>3
  <2> QED
    BY <1>3, <2>2, <2>3 DEF Loaded
<1>4. CASE Switch
  <2>1. PICK to \in Info \ {info} :
          /\ info' = to
          /\ IF to.id # info.id THEN Interrupt ELSE UNCHANGED switched
          /\ IF closed THEN UNCHANGED <<seen, revision>>
             ELSE Update(IF disconnecting THEN Absent ELSE to, revision)
    BY <1>4 DEF Switch
  <2>2. client' = client /\ disconnecting' = disconnecting /\ closed' = closed /\ call' = call
    BY <1>4 DEF Switch
  <2>3. PICK told : told = IF disconnecting THEN Absent ELSE to
    OBVIOUS
  <2>4. /\ revision' \in Nat /\ revision' >= revision
        /\ ~closed => seen' = told /\ (seen # told => revision' = revision + 1)
    <3>1. CASE closed
      BY <1>0, <2>1, <3>1
    <3>2. CASE ~closed
      BY <1>0, <2>1, <2>3, <3>2, UpdateCounts
    <3> QED
      BY <3>1, <3>2
  <2>5. CASE to.id = info.id
    <3>1. switched' = switched
      BY <2>1, <2>5
    <3>2. Attended => Attended'
      BY <2>1, <2>2, <2>3, <2>4, <2>5 DEF Attended
    <3> QED
      BY <1>0, <2>2, <2>4, <3>1, <3>2, AccountStep
  <2>6. CASE to.id # info.id
    <3>1. Attended => ~closed /\ seen # told
      BY <2>1, <2>3, <2>6 DEF Attended
    <3>2. Attended => revision' > revision
      BY <1>0, <2>4, <3>1
    <3> QED
      BY <1>1, <2>1, <2>2, <2>4, <2>6, <3>2
  <2> QED
    BY <2>5, <2>6
<1>5. CASE Disconnect \/ Close
  <2>1. /\ Update(Absent, revision + 1) /\ Interrupt /\ call' = call
        /\ closed => closed'
    BY <1>5 DEF Disconnect, Close
  <2>2. revision' \in Nat /\ revision' >= revision + 1
    BY <1>0, <2>1, UpdateCounts
  <2>3. revision' >= revision /\ revision' > revision
    BY <1>0, <2>2
  <2> QED
    BY <2>1, <2>2, <2>3, AccountStep
<1>6. CASE Disconnected
  <2>1. /\ Update(Absent, revision) /\ call' = call /\ closed' = closed
        /\ switched' = switched /\ disconnecting
    BY <1>6 DEF Disconnected
  <2>2. revision' \in Nat /\ revision' >= revision
    BY <1>0, <2>1, UpdateCounts
  <2>3. \A d \in Active : switched[d]
    BY <1>0, <2>1 DEF Attended
  <2> QED
    BY <2>1, <2>2, <2>3, AccountStep
<1> QED
  BY <1>2, <1>3, <1>4, <1>5, <1>6

\* One call moves to c; the others see at most a greater revision.
LEMMA OneCall ==
    ASSUME SessionInv, NEW d \in Documents, NEW c \in [step : CallSteps, expected : Nat],
           call' = [call EXCEPT ![d] = c], client' = client, closed' = closed,
           disconnecting' = disconnecting, info' = info,
           revision' \in Nat, revision' >= revision,
           \A x \in Documents \ {d} : x \in Active /\ ~switched[x] => seen' = info,
           switched' \in [Documents -> BOOLEAN],
           \A x \in Documents \ {d} : switched'[x] = switched[x],
           SessionOK(d)'
    PROVE  SessionInv'
<1>1. SessionsTyped
  BY DEF SessionInv
<1>2. /\ call' \in [Documents -> [step : CallSteps, expected : Nat]]
      /\ \A x \in Documents \ {d} : call'[x] = call[x]
  BY <1>1 DEF SessionsTyped
<1>3. ASSUME NEW x \in Documents \ {d} PROVE SessionOK(x)'
  <2>1. /\ SessionOK(x) /\ call[x].expected \in Nat /\ revision \in Nat
        /\ call'[x] = call[x] /\ switched'[x] = switched[x] /\ (x \in Active' <=> x \in Active)
    BY <1>1, <1>2 DEF SessionInv, SessionsTyped, Active
  <2>2. x \in Active => call'[x].expected <= revision'
    BY <2>1 DEF SessionOK
  <2>3. x \in Active /\ switched[x] => closed' \/ revision' > call'[x].expected
    BY <2>1 DEF SessionOK
  <2>4. x \in Active /\ ~switched[x] => Attended'
    BY <2>1 DEF SessionOK, Attended
  <2> QED
    BY <2>1, <2>2, <2>3, <2>4 DEF SessionOK
<1>4. SessionsTyped'
  BY <1>2 DEF SessionsTyped
<1> QED
  BY <1>3, <1>4 DEF SessionInv

LEMMA SessionStart ==
    ASSUME SessionInv, NEW d \in Documents, Start(d)
    PROVE  SessionInv'
<1>1. /\ client # "none" /\ ~disconnecting /\ ~closed /\ Update(info, revision)
      /\ info.id # Nobody
      /\ switched' = [switched EXCEPT ![d] = FALSE]
      /\ client' = client /\ info' = info /\ disconnecting' = disconnecting
      /\ closed' = closed
      /\ call' = [call EXCEPT ![d] = [step |-> "hashing", expected |-> revision']]
  BY DEF Start
<1>2. SessionsTyped /\ revision \in Nat
  BY DEF SessionInv, SessionsTyped
<1>3. revision' \in Nat /\ revision' >= revision /\ seen' = info
  BY <1>1, <1>2, UpdateCounts
<1>4. PICK n \in Nat : n = revision'
  BY <1>3
<1>5. PICK c : c = [step |-> "hashing", expected |-> n]
  OBVIOUS
<1>6. /\ c \in [step : CallSteps, expected : Nat] /\ c.step = "hashing"
      /\ c.expected = revision' /\ call' = [call EXCEPT ![d] = c]
  BY <1>1, <1>4, <1>5 DEF CallSteps
<1>7. /\ switched' \in [Documents -> BOOLEAN] /\ ~switched'[d]
      /\ \A x \in Documents \ {d} : switched'[x] = switched[x]
  BY <1>1, <1>2 DEF SessionsTyped
<1>8. call'[d] = c
  BY <1>2, <1>6 DEF SessionsTyped
<1>9. SessionOK(d)'
  BY <1>1, <1>3, <1>6, <1>7, <1>8 DEF SessionOK, Attended
<1> QED
  BY <1>1, <1>3, <1>6, <1>7, <1>9, OneCall

\* The end of an await: the session is checked where a result is used.
LEMMA SessionAwait ==
    ASSUME SessionInv, NEW d \in Documents, Send(d) \/ Uploaded(d)
    PROVE  SessionInv'
<1>1. /\ d \in Active /\ client' = client /\ info' = info /\ disconnecting' = disconnecting
      /\ closed' = closed /\ switched' = switched
  BY DEF Send, Uploaded, Active
<1>2. SessionsTyped /\ SessionOK(d) /\ revision \in Nat /\ call[d].expected \in Nat
  BY DEF SessionInv, SessionsTyped
<1>3. Update(Reported, revision) \/ UNCHANGED <<seen, revision>>
  BY DEF Send, Uploaded
<1>4. revision' \in Nat /\ revision' >= revision
  BY <1>2, <1>3, UpdateCounts
<1>5. \A x \in Active : ~switched[x] => seen' = info
  <2>1. \A x \in Active : ~switched[x] => ~disconnecting /\ client # "none" /\ seen = info
    BY DEF SessionInv, SessionOK, Active, Attended
  <2>2. CASE Update(Reported, revision)
    <3>1. seen' = Reported
      BY <1>2, <2>2, UpdateCounts
    <3> QED
      BY <2>1, <3>1 DEF Reported
  <2>3. CASE UNCHANGED <<seen, revision>>
    BY <2>1, <2>3
  <2> QED
    BY <1>3, <2>2, <2>3
<1>6. PICK step \in {"uploading", "returned", "failed"} :
        Become(d, step) /\ (step # "failed" => SameSession(d))
  <2>1. CASE Send(d)
    BY <2>1 DEF Send
  <2>2. CASE Uploaded(d)
    BY <2>2 DEF Uploaded
  <2> QED
    BY <2>1, <2>2
<1>7. step # "failed" => ~switched[d]
  BY <1>1, <1>2, <1>6 DEF SessionOK, SameSession
<1>8. PICK c : c = [call[d] EXCEPT !.step = step]
  OBVIOUS
<1>9. /\ c \in [step : CallSteps, expected : Nat] /\ c.step = step
      /\ c.expected = call[d].expected /\ call' = [call EXCEPT ![d] = c] /\ call'[d] = c
  BY <1>2, <1>6, <1>8 DEF SessionsTyped, CallSteps, Become
<1>10. SessionOK(d)'
  <2>1. d \in Active' => step = "uploading"
    BY <1>9 DEF Active
  <2>2. call'[d].expected <= revision'
    BY <1>1, <1>2, <1>4, <1>9 DEF SessionOK
  <2>3. step = "uploading" => ~switched'[d] /\ Attended'
    BY <1>1, <1>2, <1>5, <1>7 DEF SessionOK, Attended
  <2>4. call'[d].step = "returned" => ~switched'[d]
    BY <1>1, <1>7, <1>9
  <2> QED
    BY <2>1, <2>2, <2>3, <2>4 DEF SessionOK
<1> QED
  BY <1>1, <1>2, <1>4, <1>5, <1>9, <1>10, OneCall DEF SessionsTyped

LEMMA SessionAlways == SwarmSpec => []SessionInv
<1>1. ASSUME SessionInv, UNCHANGED storageVars PROVE SessionInv'
  <2>1. /\ client' = client /\ info' = info /\ seen' = seen /\ revision' = revision
        /\ disconnecting' = disconnecting /\ closed' = closed /\ call' = call
        /\ switched' = switched
    BY <1>1 DEF storageVars
  <2> QED
    BY <1>1, <2>1 DEF SessionInv, SessionsTyped, SessionOK, Active, Attended
<1>2. ASSUME SessionInv, [SwarmNext]_swarmVars PROVE SessionInv'
  <2>1. CASE UNCHANGED swarmVars
    BY <1>1, <1>2, <2>1 DEF swarmVars, storageVars
  <2>2. CASE Click \/ FetchFailed \/ Published \/ Retrieved \/ RetrievalFailed
             \/ \E d \in Documents : Store(d)
    BY <1>1, <1>2, <2>2 DEF Click, FetchFailed, Published, Retrieved, RetrievalFailed, Store
  <2>3. CASE StartNote \/ Fetched
    BY <1>2, <2>3, SessionStart DEF StartNote, Fetched, Documents
  <2> QED
    BY <1>2, <2>1, <2>2, <2>3, AccountSteps, SessionAwait DEF SwarmNext
<1> QED
  BY SessionInitInv, <1>2, PTL DEF SwarmSpec

\* No upload of swarm-id.ts returns its reference after the account changed.
THEOREM NoResultOfAnotherSession == SwarmSpec => []NoResultAcrossAccounts
<1>1. SessionInv => NoResultAcrossAccounts
  BY DEF SessionInv, SessionOK, NoResultAcrossAccounts
<1> QED
  BY <1>1, SessionAlways, PTL

\* The publisher's call is under way only while its button waits for it, and
\* a receipt that was returned is held for as long as the page is mounted.
PublisherInv ==
    /\ sent \in [Documents -> Nat]
    /\ call \in [Documents -> [step : CallSteps, expected : Nat]]
    /\ call["snapshot"].step \in {"hashing", "uploading"} => busy = "uploading"
    /\ receipted => busy \notin {"fetching", "uploading"} /\ (ref \/ ~mounted)

LEMMA PublisherStep ==
    ASSUME PublisherInv, SessionInv', [SwarmNext]_swarmVars
    PROVE  PublisherInv' /\ (receipted => sent'["snapshot"] = sent["snapshot"])
<1>1. call' \in [Documents -> [step : CallSteps, expected : Nat]]
  BY DEF SessionInv, SessionsTyped
<1>2. CASE UNCHANGED swarmVars
  BY <1>1, <1>2 DEF swarmVars, PublisherInv
<1>3. CASE Load \/ Loaded \/ Switch \/ Disconnect \/ Disconnected
  <2>1. /\ call' = call /\ busy' = busy /\ receipted' = receipted /\ ref' = ref
        /\ mounted' = mounted /\ sent' = sent
    BY <1>3 DEF Load, Loaded, Switch, Disconnect, Disconnected, publisherVars
  <2> QED
    BY <1>1, <2>1 DEF PublisherInv
<1>4. CASE Close
  <2>1. /\ call' = call /\ busy' = busy /\ receipted' = receipted /\ ref' = ref
        /\ mounted' = FALSE /\ sent' = sent
    BY <1>4 DEF Close
  <2> QED
    BY <1>1, <2>1 DEF PublisherInv
<1>5. CASE StartNote
  <2>1. /\ call'["snapshot"] = call["snapshot"] /\ busy' = busy /\ receipted' = receipted
        /\ ref' = ref /\ mounted' = mounted /\ sent' = sent
    BY <1>5 DEF StartNote, Start, publisherVars, PublisherInv, Documents
  <2> QED
    BY <1>1, <2>1 DEF PublisherInv
<1>6. CASE Fetched
  <2>1. busy = "fetching" /\ busy' = "uploading" /\ receipted' = receipted /\ sent' = sent
    BY <1>6 DEF Fetched
  <2> QED
    BY <1>1, <2>1 DEF PublisherInv
<1>7. CASE Published
  <2>1. /\ call' = call /\ mounted' = mounted /\ sent' = sent /\ busy = "uploading"
        /\ call["snapshot"].step \in {"returned", "failed"}
    BY <1>7 DEF Published, storageVars
  <2>2. CASE call["snapshot"].step = "returned" /\ mounted
    BY <1>1, <1>7, <2>1, <2>2 DEF Published, Keep, PublisherInv
  <2>3. CASE call["snapshot"].step = "returned" /\ ~mounted
    BY <1>1, <1>7, <2>1, <2>3 DEF Published, PublisherInv
  <2>4. CASE call["snapshot"].step # "returned"
    BY <1>1, <1>7, <2>1, <2>4 DEF Published, PublisherInv
  <2> QED
    BY <2>2, <2>3, <2>4
<1>8. CASE Click \/ FetchFailed \/ Retrieved \/ RetrievalFailed
  <2>1. /\ call' = call /\ mounted' = mounted /\ sent' = sent /\ ref' = ref
        /\ receipted' = receipted
    BY <1>8 DEF Click, FetchFailed, Retrieved, RetrievalFailed, storageVars
  <2>2. /\ busy' # "uploading" /\ busy # "uploading"
        /\ busy' = "fetching" => mounted /\ ~ref
    BY <1>8 DEF Click, FetchFailed, Retrieved, RetrievalFailed
  <2> QED
    BY <1>1, <2>1, <2>2 DEF PublisherInv
<1>9. ASSUME NEW d \in Documents, Store(d)
      PROVE  PublisherInv' /\ (receipted => sent'["snapshot"] = sent["snapshot"])
  BY <1>1, <1>9 DEF Store, storageVars, publisherVars, PublisherInv
<1>10. ASSUME NEW d \in Documents, Send(d) \/ Uploaded(d)
       PROVE  PublisherInv' /\ (receipted => sent'["snapshot"] = sent["snapshot"])
  <2>1. /\ busy' = busy /\ receipted' = receipted /\ ref' = ref /\ mounted' = mounted
        /\ call[d].step \in {"hashing", "uploading"}
    BY <1>10 DEF Send, Uploaded, publisherVars
  <2>2. PICK step : call' = [call EXCEPT ![d] = [call[d] EXCEPT !.step = step]]
    BY <1>10 DEF Send, Uploaded, Become
  <2>3. sent' \in [Documents -> Nat]
    BY <1>10 DEF Send, Uploaded, PublisherInv
  <2>4. CASE d = "snapshot"
    <3>1. ~receipted /\ busy = "uploading"
      BY <2>1, <2>4 DEF PublisherInv
    <3> QED
      BY <1>1, <2>1, <2>3, <3>1 DEF PublisherInv
  <2>5. CASE d # "snapshot"
    <3>1. call'["snapshot"] = call["snapshot"]
      BY <2>2, <2>5 DEF PublisherInv, Documents
    <3>2. sent' = sent \/ sent' = [sent EXCEPT ![d] = @ + 1]
      BY <1>10 DEF Send, Uploaded
    <3>3. sent'["snapshot"] = sent["snapshot"]
      BY <2>5, <3>2 DEF PublisherInv, Documents
    <3> QED
      BY <1>1, <2>1, <2>3, <3>1, <3>3 DEF PublisherInv
  <2> QED
    BY <2>4, <2>5
<1> QED
  BY <1>2, <1>3, <1>4, <1>5, <1>6, <1>7, <1>8, <1>9, <1>10 DEF SwarmNext

\* Once publish-snapshot.ts has had a receipt, nothing pays for the snapshot
\* again.
THEOREM SnapshotPaidOnce == SwarmSpec => PaidOnce
<1>1. SwarmInit => PublisherInv
  BY DEF SwarmInit, PublisherInv, Documents, CallSteps
<1>2. PublisherInv /\ SessionInv' /\ [SwarmNext]_swarmVars => PublisherInv'
  BY PublisherStep
<1>3. PublisherInv /\ SessionInv' /\ [SwarmNext]_swarmVars
        => [receipted => sent'["snapshot"] = sent["snapshot"]]_swarmVars
  BY PublisherStep
<1> QED
  BY <1>1, <1>2, <1>3, SessionAlways, PTL DEF SwarmSpec, PaidOnce

=============================================================================
