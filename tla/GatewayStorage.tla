--------------------------- MODULE GatewayStorage ---------------------------
(***************************************************************************)
(* The accountless storage client (pilot/swarm-gateway.ts): a readiness    *)
(* check, a revision that disconnect and destroy advance, and uploads that *)
(* post a document once and then only read, with pauses, until the gateway *)
(* gives it back.  Whatever was awaiting when the revision moved resumes   *)
(* and finds out for itself.                                               *)
(***************************************************************************)
EXTENDS Integers

CONSTANTS
    Uploads,      \* concurrent calls of upload
    MaxRetries,   \* the pauses between retrieval attempts
    MaxRevision   \* bound on disconnects

ASSUME GatewayAssumptions == MaxRetries \in Nat /\ MaxRevision \in Nat

VARIABLES
    epoch, destroyed, ready, inits,  \* revision, destroyed, canUpload, checks running
    upload,                          \* what every call is doing
    posts, acked                     \* history: POSTs and answers of every call
gatewayVars == <<epoch, destroyed, ready, inits, upload, posts, acked>>

UploadSteps == {"idle", "hashing", "posting", "verifying", "pausing",
                "returned", "unverified", "failed"}

GatewayTypeOK ==
    /\ epoch \in 0 .. MaxRevision /\ destroyed \in BOOLEAN /\ ready \in BOOLEAN
    /\ inits \subseteq 0 .. MaxRevision
    /\ upload \in [Uploads -> [step : UploadSteps, expected : 0 .. MaxRevision,
                               attempt : 0 .. MaxRetries]]
    /\ posts \in [Uploads -> Nat] /\ acked \in [Uploads -> BOOLEAN]

GatewayInit ==
    /\ epoch = 0 /\ destroyed = FALSE /\ ready = FALSE /\ inits = {}
    /\ upload = [u \in Uploads |-> [step |-> "idle", expected |-> 0, attempt |-> 0]]
    /\ posts = [u \in Uploads |-> 0] /\ acked = [u \in Uploads |-> FALSE]

\* alive(expected): the client is open and no disconnect came between.
Alive(expected) == ~destroyed /\ expected = epoch

(***************************************************************************)
(* initialize (and connect): one shared check for a revision.              *)
(***************************************************************************)
Initialize ==
    /\ ~destroyed
    /\ inits' = inits \union {epoch}
    /\ UNCHANGED <<epoch, destroyed, ready, upload, posts, acked>>

\* The gateway reports itself available; or does not, or not in time.
CheckPassed(r) ==
    /\ r \in inits /\ Alive(r)
    /\ ready' = TRUE /\ inits' = inits \ {r}
    /\ UNCHANGED <<epoch, destroyed, upload, posts, acked>>

CheckFailed(r) ==
    /\ r \in inits
    /\ ready' = (ready /\ (destroyed \/ r # epoch))
    /\ inits' = inits \ {r}
    /\ UNCHANGED <<epoch, destroyed, upload, posts, acked>>

\* cancel: in flight requests are aborted; each still has to notice.
Cancel ==
    /\ epoch < MaxRevision
    /\ epoch' = epoch + 1 /\ ready' = FALSE
    /\ UNCHANGED <<inits, upload, posts, acked>>

LeaveGateway == ~destroyed /\ Cancel /\ UNCHANGED destroyed
Destroy == ~destroyed /\ Cancel /\ destroyed' = TRUE

(***************************************************************************)
(* upload.                                                                 *)
(***************************************************************************)
SetUpload(u, to) == upload' = [upload EXCEPT ![u] = to]
ToStep(u, step) == SetUpload(u, [upload[u] EXCEPT !.step = step])
Client == <<epoch, destroyed, ready, inits>>

Begin(u) ==
    /\ upload[u].step = "idle" /\ ~destroyed /\ ready
    /\ SetUpload(u, [step |-> "hashing", expected |-> epoch, attempt |-> 0])
    /\ UNCHANGED <<Client, posts, acked>>

PostBytes(u) ==
    /\ upload[u].step = "hashing"
    /\ IF Alive(upload[u].expected)
       THEN ToStep(u, "posting") /\ posts' = [posts EXCEPT ![u] = @ + 1]
       ELSE ToStep(u, "failed") /\ UNCHANGED posts
    /\ UNCHANGED <<Client, acked>>

\* The gateway's answer names the stored reference.  Without it (an error,
\* a timeout, a cancellation) the caller cannot know what was stored.
Answered(u) ==
    /\ upload[u].step = "posting"
    /\ IF Alive(upload[u].expected)
       THEN ToStep(u, "verifying") /\ acked' = [acked EXCEPT ![u] = TRUE]
       ELSE ToStep(u, "failed") /\ UNCHANGED acked
    /\ UNCHANGED <<Client, posts>>

Unanswered(u) ==
    /\ upload[u].step = "posting"
    /\ ToStep(u, "failed")
    /\ UNCHANGED <<Client, posts, acked>>

\* Retrieval by reference, checked against the digest.
ReadBack(u) ==
    /\ upload[u].step = "verifying"
    /\ ToStep(u, IF Alive(upload[u].expected) THEN "returned" ELSE "unverified")
    /\ UNCHANGED <<Client, posts, acked>>

\* Other bytes are final; a missing document is looked for again, after a
\* pause, as long as retries remain.
Retries(u) == Alive(upload[u].expected) /\ upload[u].attempt < MaxRetries

NotReadBack(u) ==
    /\ upload[u].step = "verifying"
    /\ ToStep(u, "unverified") \/ (Retries(u) /\ ToStep(u, "pausing"))
    /\ UNCHANGED <<Client, posts, acked>>

MutResume == "hashing"
Resume == "verifying"

Paused(u) ==
    /\ upload[u].step = "pausing"
    /\ IF Alive(upload[u].expected)
       THEN SetUpload(u, [upload[u] EXCEPT !.step = Resume, !.attempt = @ + 1])
       ELSE ToStep(u, "unverified")
    /\ UNCHANGED <<Client, posts, acked>>

UploadStep(u) ==
    \/ PostBytes(u) \/ Answered(u) \/ Unanswered(u)
    \/ ReadBack(u) \/ NotReadBack(u) \/ Paused(u)

GatewayNext ==
    \/ Initialize \/ LeaveGateway \/ Destroy
    \/ \E r \in inits : CheckPassed(r) \/ CheckFailed(r)
    \/ \E u \in Uploads : Begin(u) \/ UploadStep(u)

GatewaySpec == GatewayInit /\ [][GatewayNext]_gatewayVars

(***************************************************************************)
(* Properties.                                                             *)
(***************************************************************************)
\* Action property: an upload posts its document once, whatever its retrieval
\* needs; once the gateway named the reference the call never ends without it,
\* it returns the reference or fails with it; and it returns nothing after its
\* storage session was disconnected or closed, even if another has begun.
ReferenceIsKept ==
    [][\A u \in Uploads :
         /\ posts'[u] <= 1
         /\ acked'[u] => upload'[u].step # "failed"
         /\ upload[u].step # "returned" /\ upload'[u].step = "returned"
              => upload[u].expected = epoch /\ ~destroyed]_gatewayVars
=============================================================================
