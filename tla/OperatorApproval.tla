-------------------------- MODULE OperatorApproval --------------------------
(***************************************************************************)
(* Approval of one enrollment ticket by hand, without the hosted issuer:   *)
(* "approve" of pilot/enrollment-operator.mjs, which runs                  *)
(* pilot/issue-enrollment.mjs when the ticket has no credential yet.       *)
(* Several operators may run it, a run may be killed at any step and leave *)
(* its issuing command at work, and a lock left behind is removed by hand, *)
(* whether that command has ended or not.                                  *)
(* Credentials are named by the index the registry reserved for them.      *)
(***************************************************************************)
EXTENDS Naturals, FiniteSets

CONSTANTS Operators, NoOperator, MaxIndex,
          MaxBreaks     \* kills and failed issuer commands

ASSUME OperatorAssumption == NoOperator \notin Operators /\ MaxIndex \in Nat /\ MaxBreaks \in Nat

ApprovalStages == {"idle", "queried", "locked", "issuing", "reserved", "reading", "sealed"}
Index == 1 .. MaxIndex

VARIABLES
    holder,      \* approval.lock
    credential,  \* credential.json, 0 when there is none
    used,        \* indexes the registry reserved
    row,         \* credentials ever written to the ticket's inbox record
    starting,    \* commands of killed runs that have reserved no index yet
    unwritten,   \* indexes such commands reserved and have not written
    breaks, operator
abandoned == <<starting, unwritten>>
approvalVars == <<holder, credential, used, row, starting, unwritten, breaks, operator>>

OperatorTypeOK ==
    /\ holder \in Operators \union {NoOperator}
    /\ credential \in Index \union {0} /\ used \in Index \union {0}
    /\ row \subseteq Index /\ breaks \in 0 .. MaxBreaks
    /\ starting \in 0 .. MaxBreaks /\ unwritten \subseteq Index
    /\ operator \in [Operators -> [stage : ApprovalStages, index : Index \union {0}]]

Away == [stage |-> "idle", index |-> 0]

ApprovalInit ==
    /\ holder = NoOperator /\ credential = 0 /\ used = 0 /\ row = {} /\ breaks = 0
    /\ starting = 0 /\ unwritten = {}
    /\ operator = [o \in Operators |-> Away]

Is(o, stage) == operator[o].stage = stage
Move(o, stage) == operator' = [operator EXCEPT ![o].stage = stage]
Leave(o) == operator' = [operator EXCEPT ![o] = Away]

\* The inbox is asked before the lock is taken: approved rows stop the run.
Query(o) ==
    /\ Is(o, "idle") /\ row = {} /\ Move(o, "queried")
    /\ UNCHANGED <<holder, credential, used, row, breaks, abandoned>>

MutUnlocked == TRUE
Unlocked == holder = NoOperator

TakeLock(o) ==
    /\ Is(o, "queried")
    /\ \/ Unlocked /\ holder' = o /\ Move(o, "locked")
       \/ ~Unlocked /\ Leave(o) /\ UNCHANGED holder
    /\ UNCHANGED <<credential, used, row, breaks, abandoned>>

\* An existing credential is used again; otherwise one is issued.
FindCredential(o) ==
    /\ Is(o, "locked")
    /\ Move(o, IF credential = 0 THEN "issuing" ELSE "reading")
    /\ UNCHANGED <<holder, credential, used, row, breaks, abandoned>>

\* issue-enrollment.mjs refuses an output that exists, which it looks for as
\* soon as it is run; later the registry reserves an index, signs, and writes
\* an output that must still be new.
ReserveIndex(o) ==
    /\ Is(o, "issuing") /\ used < MaxIndex
    /\ used' = used + 1
    /\ operator' = [operator EXCEPT ![o] = [stage |-> "reserved", index |-> used + 1]]
    /\ UNCHANGED <<holder, credential, row, breaks, abandoned>>

WriteCredential(o) ==
    /\ Is(o, "reserved") /\ credential = 0
    /\ credential' = operator[o].index
    /\ Move(o, "reading")
    /\ UNCHANGED <<holder, used, row, breaks, abandoned>>

\* The credential is read back, checked against the application and sealed.
Seal(o) ==
    /\ Is(o, "reading")
    /\ operator' = [operator EXCEPT ![o] = [stage |-> "sealed", index |-> credential]]
    /\ UNCHANGED <<holder, credential, used, row, breaks, abandoned>>

Approve(o) ==
    /\ Is(o, "sealed")
    /\ row' = row \union {operator[o].index}
    /\ Leave(o) /\ holder' = NoOperator
    /\ UNCHANGED <<credential, used, breaks, abandoned>>

InsideLock(o) == operator[o].stage \notin {"idle", "queried"}

\* A failed step leaves through finally, its command ended; a killed run
\* leaves its lock, and its command at work.  An approval whose answer was
\* lost may be in the inbox all the same.
Break(o) ==
    /\ breaks < MaxBreaks /\ breaks' = breaks + 1
    /\ InsideLock(o) /\ Leave(o)
    /\ \/ holder' = NoOperator /\ UNCHANGED abandoned
       \/ UNCHANGED <<holder, abandoned>>
       \/ Is(o, "issuing") /\ starting' = starting + 1 /\ UNCHANGED <<holder, unwritten>>
       \/ /\ Is(o, "reserved") /\ unwritten' = unwritten \union {operator[o].index}
          /\ UNCHANGED <<holder, starting>>
    /\ UNCHANGED row \/ (Is(o, "sealed") /\ row' = row \union {operator[o].index})
    /\ UNCHANGED <<credential, used>>

\* The command of a killed run goes on, or ends without it.
AbandonedReserves ==
    /\ starting > 0 /\ used < MaxIndex /\ used' = used + 1
    /\ starting' = starting - 1 /\ unwritten' = unwritten \union {used + 1}
    /\ UNCHANGED <<holder, credential, row, breaks, operator>>

AbandonedWrites(i) ==
    /\ credential = 0 /\ credential' = i
    /\ unwritten' = unwritten \ {i}
    /\ UNCHANGED <<holder, used, row, starting, breaks, operator>>

AbandonedEnds ==
    /\ \/ starting > 0 /\ starting' = starting - 1 /\ UNCHANGED unwritten
       \/ \E i \in unwritten : unwritten' = unwritten \ {i} /\ UNCHANGED starting
    /\ UNCHANGED <<holder, credential, used, row, breaks, operator>>

RemoveLock ==
    /\ holder # NoOperator /\ ~InsideLock(holder) /\ holder' = NoOperator
    /\ UNCHANGED <<credential, used, row, breaks, operator, abandoned>>

ApprovalNext ==
    \/ \E o \in Operators :
         \/ Query(o) \/ TakeLock(o) \/ FindCredential(o) \/ ReserveIndex(o) \/ WriteCredential(o)
         \/ Seal(o) \/ Approve(o) \/ Break(o)
    \/ \E i \in unwritten : AbandonedWrites(i)
    \/ AbandonedReserves \/ AbandonedEnds \/ RemoveLock

ApprovalSpec == ApprovalInit /\ [][ApprovalNext]_approvalVars

-----------------------------------------------------------------------------
\* An index of the issuer's tree is spent on a ticket once, and once more for
\* each run that broke down, and one credential at most is ever sent to the
\* applicant, though a run that asked the inbox before the lock was free goes
\* on with an answer that is no longer true.
IndexesSpent == used <= 1 + breaks /\ Cardinality(row) <= 1

\* What the applicant of this one ticket is promised is what the hosted
\* issuer promises: the credential file is the ledger's entry, and what the
\* inbox record holds is the answer.
Unapproved == [index |-> 0, holder |-> 0]
Approval(i) == [index |-> i, holder |-> 1]

Applicant == INSTANCE CredentialPromise WITH
    Tickets <- {1}, Calls <- {1}, Indexes <- Index,
    TicketOf <- [c \in {1} |-> 1], DigestOf <- [c \in {1} |-> 1],
    NoEntry <- [digest |-> 0, credential |-> Unapproved], NoAnswer <- Unapproved,
    granted <- [t \in {1} |->
                  IF credential = 0 THEN [digest |-> 0, credential |-> Unapproved]
                  ELSE [digest |-> 1, credential |-> Approval(credential)]],
    answers <- [c \in {1} |->
                  IF row = {} THEN Unapproved ELSE Approval(CHOOSE i \in row : TRUE)]

ApprovalKeepsPromise == Applicant!PSpec
=============================================================================
