---------------------------- MODULE SwarmStorage ----------------------------
(***************************************************************************)
(* The Swarm ID storage client (pilot/swarm-id.ts) and the publisher of    *)
(* the issuer snapshot that shares it (pilot/web/publish-snapshot.ts, on   *)
(* the page of web/boot.ts, which also uploads a test note).  The signed   *)
(* in identity and its postage change under every await; the client counts *)
(* the changes it sees in a revision and an upload compares revisions.     *)
(***************************************************************************)
EXTENDS Integers

CONSTANTS
    Identities, Nobody,   \* Swarm ID accounts
    MaxSwitches, MaxPosts \* bounds: changes of account or postage and failed loads; uploads

ASSUME SwarmAssumptions ==
    /\ Nobody \notin Identities
    /\ MaxSwitches \in Nat /\ MaxPosts \in Nat

Documents == {"note", "snapshot"}
Info == [id : Identities \union {Nobody}, postage : BOOLEAN]
Absent == [id |-> Nobody, postage |-> FALSE]

\* info is what the vendored client reports; seen and revision are session,
\* state and revision of this module.  The publisher keeps ref and done.
VARIABLES
    client, info, seen, revision, disconnecting, closed, call,
    busy, ref, done, mounted, receipted,
    switches, sent, stored, switched   \* history (and receipted, a receipt was returned)
storageVars == <<client, info, seen, revision, disconnecting, closed, call, switches, switched>>
publisherVars == <<busy, ref, done, mounted, receipted>>
swarmVars == <<client, info, seen, revision, disconnecting, closed, call, switches, switched,
               busy, ref, done, mounted, receipted, sent, stored>>

CallSteps == {"idle", "hashing", "uploading", "returned", "failed"}

SwarmTypeOK ==
    /\ client \in {"none", "loading", "ready"} /\ info \in Info /\ seen \in Info
    /\ revision \in Nat /\ disconnecting \in BOOLEAN /\ closed \in BOOLEAN
    /\ call \in [Documents -> [step : CallSteps, expected : Nat]]
    /\ busy \in {"no", "fetching", "uploading", "retrieving"}
    /\ ref \in BOOLEAN /\ done \in BOOLEAN /\ mounted \in BOOLEAN /\ receipted \in BOOLEAN
    /\ switches \in 0 .. MaxSwitches /\ sent \in [Documents -> 0 .. MaxPosts]
    /\ stored \subseteq Documents /\ switched \in [Documents -> BOOLEAN]

SwarmInit ==
    /\ client = "none" /\ info = Absent /\ seen = Absent /\ revision = 0
    /\ disconnecting = FALSE /\ closed = FALSE
    /\ call = [d \in Documents |-> [step |-> "idle", expected |-> 0]]
    /\ busy = "no" /\ ref = FALSE /\ done = FALSE /\ mounted = TRUE /\ receipted = FALSE
    /\ switches = 0 /\ sent = [d \in Documents |-> 0] /\ stored = {}
    /\ switched = [d \in Documents |-> FALSE]

\* update: what is reported is seen, and counted when it differs.  A client
\* that is leaving, or was forced out, counts as absent.
Update(reported, from) ==
    /\ seen' = reported
    /\ revision' = IF seen # reported THEN from + 1 ELSE from
Reported == IF disconnecting \/ client = "none" THEN Absent ELSE info

Active == {d \in Documents : call[d].step \in {"hashing", "uploading"}}
Interrupt == switched' = [d \in Documents |-> switched[d] \/ d \in Active]
Count == switches < MaxSwitches /\ switches' = switches + 1

(***************************************************************************)
(* initialize, the account (connect, its popup and its callback),          *)
(* disconnect and destroy.                                                 *)
(***************************************************************************)
\* The client is kept from before it has initialized, and used from then on.
Load ==
    /\ client = "none" /\ ~closed
    /\ client' = "loading"
    /\ UNCHANGED <<info, seen, revision, disconnecting, closed, call, switches, switched, sent, stored>>
    /\ UNCHANGED publisherVars

\* It has initialized, or failed to and is dropped with what it was doing.
Loaded ==
    /\ client = "loading"
    /\ \/ /\ ~closed /\ client' = "ready" /\ Update(Reported, revision)
          /\ UNCHANGED <<switches, switched>>
       \/ Count /\ client' = "none" /\ Update(Absent, revision) /\ Interrupt
    /\ UNCHANGED <<info, disconnecting, closed, call, sent, stored>>
    /\ UNCHANGED publisherVars

\* The account or its postage changes and the client calls back at once.
Switch ==
    /\ client # "none" /\ Count
    /\ \E to \in Info \ {info} :
         /\ to.id = Nobody => ~to.postage
         /\ info' = to
         /\ IF to.id # info.id THEN Interrupt ELSE UNCHANGED switched
         /\ IF closed THEN UNCHANGED <<seen, revision>>
            ELSE Update(IF disconnecting THEN Absent ELSE to, revision)
    /\ UNCHANGED <<client, disconnecting, closed, call, sent, stored>>
    /\ UNCHANGED publisherVars

Disconnect ==
    /\ client # "none" /\ ~closed /\ ~disconnecting /\ Count
    /\ disconnecting' = TRUE
    /\ Update(Absent, revision + 1)
    /\ Interrupt
    /\ UNCHANGED <<client, info, closed, call, sent, stored>>
    /\ UNCHANGED publisherVars

\* The service confirms, or fails and still has the account.
Disconnected ==
    /\ disconnecting
    /\ disconnecting' = FALSE
    /\ Update(Absent, revision)
    /\ info' = Absent \/ info' = info
    /\ UNCHANGED <<client, closed, call, switches, switched, sent, stored>>
    /\ UNCHANGED publisherVars

\* pagehide closes the publisher and the client.
Close ==
    /\ ~closed
    /\ closed' = TRUE /\ mounted' = FALSE
    /\ Update(Absent, revision + 1)
    /\ Interrupt
    /\ UNCHANGED <<client, info, disconnecting, call, switches, sent, stored, busy, ref, done, receipted>>

(***************************************************************************)
(* upload.                                                                 *)
(***************************************************************************)
Become(d, step) == call' = [call EXCEPT ![d].step = step]

\* checkSession: no change was seen since the call began.
MutSameSession(d) == ~closed /\ Reported.id # Nobody
SameSession(d) == ~closed /\ Reported = seen /\ revision = call[d].expected

Start(d) ==
    /\ call[d].step \notin {"hashing", "uploading"}
    /\ client # "none" /\ ~disconnecting /\ ~closed
    /\ info.id # Nobody /\ info.postage
    /\ Update(info, revision)
    /\ call' = [call EXCEPT ![d] = [step |-> "hashing", expected |-> revision']]
    /\ switched' = [switched EXCEPT ![d] = FALSE]
    /\ UNCHANGED <<client, info, disconnecting, closed, switches>>

\* The digest is ready: the session is checked and the document sent.
Send(d) ==
    /\ call[d].step = "hashing"
    /\ Update(Reported, revision)
    /\ \/ /\ SameSession(d) /\ sent[d] < MaxPosts
          /\ Become(d, "uploading") /\ sent' = [sent EXCEPT ![d] = @ + 1]
       \/ ~SameSession(d) /\ Become(d, "failed") /\ UNCHANGED sent
    /\ UNCHANGED <<client, info, disconnecting, closed, switches, switched, stored>>
    /\ UNCHANGED publisherVars

\* The network keeps the document, whether or not its answer will be used.
Store(d) ==
    /\ sent[d] > 0 /\ d \notin stored
    /\ stored' = stored \union {d}
    /\ UNCHANGED <<storageVars, publisherVars, sent>>

Uploaded(d) ==
    /\ call[d].step = "uploading"
    /\ \/ /\ d \in stored
          /\ Update(Reported, revision)
          /\ Become(d, IF SameSession(d) THEN "returned" ELSE "failed")
       \/ Become(d, "failed") /\ UNCHANGED <<seen, revision>>
    /\ UNCHANGED <<client, info, disconnecting, closed, switches, switched, sent, stored>>
    /\ UNCHANGED publisherVars

StartNote == Start("note") /\ UNCHANGED <<publisherVars, sent, stored>>

(***************************************************************************)
(* The publisher's button: check the reviewed files, upload unless a       *)
(* receipt is already held, and retrieve what the receipt names.           *)
(***************************************************************************)
Click ==
    /\ mounted /\ busy = "no" /\ ~done
    /\ \/ ref /\ busy' = "retrieving"
       \/ ~ref /\ seen.postage /\ busy' = "fetching"
    /\ UNCHANGED <<storageVars, ref, done, mounted, receipted, sent, stored>>

\* The reviewed files are unavailable, oversized or not the reviewed bytes.
FetchFailed ==
    /\ busy = "fetching"
    /\ busy' = "no"
    /\ UNCHANGED <<storageVars, ref, done, mounted, receipted, sent, stored>>

Fetched ==
    /\ busy = "fetching" /\ mounted /\ seen.postage
    /\ Start("snapshot") /\ busy' = "uploading"
    /\ UNCHANGED <<ref, done, mounted, receipted, sent, stored>>

\* The receipt is remembered before the retrieval that may fail.
MutKeep == FALSE
Keep == TRUE

Published ==
    /\ busy = "uploading" /\ call["snapshot"].step \in {"returned", "failed"}
    /\ IF call["snapshot"].step = "returned" /\ mounted
       THEN busy' = "retrieving" /\ ref' = Keep
       ELSE busy' = "no" /\ UNCHANGED ref
    /\ receipted' = (receipted \/ call["snapshot"].step = "returned")
    /\ UNCHANGED <<storageVars, done, mounted, sent, stored>>

\* download: no answer in time, too many bytes, or not the digest's bytes.
RetrievalFailed ==
    /\ busy = "retrieving"
    /\ busy' = "no"
    /\ UNCHANGED <<storageVars, ref, done, mounted, receipted, sent, stored>>

Retrieved ==
    /\ busy = "retrieving" /\ "snapshot" \in stored /\ mounted
    /\ done' = TRUE /\ busy' = "no"
    /\ UNCHANGED <<storageVars, ref, mounted, receipted, sent, stored>>

SwarmNext ==
    \/ Load \/ Loaded \/ Switch \/ Disconnect \/ Disconnected \/ Close
    \/ StartNote \/ Click \/ Fetched \/ FetchFailed
    \/ Published \/ Retrieved \/ RetrievalFailed
    \/ \E d \in Documents : Send(d) \/ Store(d) \/ Uploaded(d)

SwarmSpec == SwarmInit /\ [][SwarmNext]_swarmVars

(***************************************************************************)
(* Properties.                                                             *)
(***************************************************************************)
\* Safety: no upload returns its reference once the account it began under
\* was switched, signed out, closed or dropped, not even when the same account is
\* back (the comment at swarm-id.ts:228).
NoResultAcrossAccounts ==
    \A d \in Documents : call[d].step = "returned" => ~switched[d]

\* Safety: a published snapshot is sent again only while no receipt for it
\* was returned; after one, retries only read.
PaidOnce ==
    [][receipted => sent'["snapshot"] = sent["snapshot"]]_swarmVars
=============================================================================
