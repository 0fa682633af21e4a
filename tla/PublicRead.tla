----------------------------- MODULE PublicRead -----------------------------
(***************************************************************************)
(* One request to the public read API (pilot/hosting/read-api.ts): terms   *)
(* of the job, its encrypted report, or the issuer's revocation snapshot.  *)
(* A request pins one finalized block, reads the escrow at that block in   *)
(* parallel with each other or with the download, checks what the gateway  *)
(* returned against what the chain committed and the pinned block against  *)
(* the chain again.  Any failed check answers an error; so does the timer. *)
(***************************************************************************)
EXTENDS FinalChain

Routes == {"terms", "document", "snapshot"}
Answers == {"none", "ok", "404", "409", "502", "503", "504"}
Unread == "unread"

\* What the escrow commits for a route at a block, and what is read in the
\* two reads a job route makes (the job record and the other half of the
\* reference: locator or digest).
Values == {"absent", "terms", "original", "rotated"} \union Deliveries

Committed(r, h) ==
    IF r = "terms" THEN IF Funded(h) THEN "terms" ELSE "absent"
    ELSE IF r = "document" THEN
         IF \E d \in Deliveries : Executed({d}, h)
         THEN CHOOSE d \in Deliveries : Executed({d}, h) ELSE "absent"
    ELSE IF Rotated(h) THEN "rotated" ELSE "original"

VARIABLES
    route, phase, pinned, reads, body, answer,  \* the request
    began                                       \* history: settled height it began at
requestVars == <<route, phase, pinned, reads, body, answer, began>>
publicReadVars == <<chain, tip, final, fork, route, phase, pinned, reads, body, answer, began>>

Phases == {"idle", "network", "pinning", "reading", "downloading", "rechecking", "answered"}
NoPin == [number |-> 0, fork |-> 0]

RequestTypeOK ==
    /\ route \in Routes /\ phase \in Phases /\ answer \in Answers
    /\ pinned \in [number : 0 .. MaxHeight, fork : 0 .. MaxForks]
    /\ reads \in [{"job", "other"} -> Values \union {Unread}]
    /\ body \in Values \union {Unread, "wrong bytes"}
    /\ began \in 0 .. MaxHeight

RequestInit ==
    /\ route \in Routes /\ phase = "idle" /\ pinned = NoPin
    /\ reads = [x \in {"job", "other"} |-> Unread] /\ body = Unread
    /\ answer = "none" /\ began = 0

Answer(with) ==
    /\ phase' = "answered" /\ answer' = with
    /\ UNCHANGED <<route, pinned, reads, body, began>>

Request ==
    /\ phase = "idle"
    /\ phase' = "network" /\ began' = final
    /\ UNCHANGED <<route, pinned, reads, body, answer>>

CheckChainId ==
    /\ phase = "network"
    /\ \/ /\ phase' = "pinning"
          /\ UNCHANGED <<route, pinned, reads, body, answer, began>>
       \/ Answer("503")

\* Before the first settled block there is none to pin.
MutPin == tip
Pin == final

PinFinalized ==
    /\ phase = "pinning"
    /\ \/ /\ Pin > 0
          /\ pinned' = [number |-> Pin, fork |-> chain[Pin].fork]
          /\ phase' = "reading"
          /\ UNCHANGED <<route, reads, body, answer, began>>
       \/ Pin = 0 /\ Answer("503")

\* The escrow reads carry the pinned number; they end in either order.  The
\* snapshot route reads the root while it downloads.
ReadEscrow(x) ==
    /\ phase = "reading" /\ reads[x] = Unread
    /\ reads' = [reads EXCEPT ![x] = Committed(route, pinned.number)]
    /\ UNCHANGED <<route, phase, pinned, body, answer, began>>

ReadAll ==
    /\ phase = "reading" /\ \A x \in {"job", "other"} : reads[x] # Unread
    /\ \/ /\ route # "snapshot" /\ "absent" \in {reads["job"], reads["other"]}
          /\ Answer("404")
       \/ /\ route = "snapshot" \/ "absent" \notin {reads["job"], reads["other"]}
          /\ phase' = "downloading"
          /\ UNCHANGED <<route, pinned, reads, body, answer, began>>

\* The gateway answers with the bytes the reference names or with others;
\* the reference and its digest are the two reads.  The snapshot is the one
\* the configuration names: the original.
Authentic(got) == got = reads["job"] /\ got = reads["other"]

Current(got) == got = reads["job"]

Download ==
    /\ phase = "downloading"
    /\ \E got \in {IF route = "snapshot" THEN "original" ELSE reads["job"], "wrong bytes"} :
         \/ got = "wrong bytes" /\ Answer("502")
         \/ route = "snapshot" /\ got = "original" /\ ~Current(got) /\ Answer("409")
         \/ route # "snapshot" /\ got # "wrong bytes" /\ ~Authentic(got) /\ Answer("502")
         \/ /\ IF route = "snapshot" THEN got = "original" /\ Current(got) ELSE Authentic(got)
            /\ body' = got /\ phase' = "rechecking"
            /\ UNCHANGED <<route, pinned, reads, answer, began>>

Recheck ==
    /\ phase = "rechecking"
    /\ IF pinned.number <= tip /\ chain[pinned.number].fork = pinned.fork
       THEN Answer("ok") ELSE Answer("503")

\* The timer closes the request wherever it is, and a failed read of the
\* chain or the gateway answers as an unverifiable one.
Close ==
    /\ phase \notin {"idle", "answered"}
    /\ Answer("504") \/ Answer("502")

RequestStep ==
    /\ \/ Request \/ CheckChainId \/ PinFinalized
       \/ \E x \in {"job", "other"} : ReadEscrow(x)
       \/ ReadAll \/ Download \/ Recheck \/ Close
    /\ UNCHANGED chainVars

PublicReadInit == ChainInit /\ RequestInit
PublicReadNext == RequestStep \/ ((Mine \/ Finalise \/ Reorganise) /\ UNCHANGED requestVars)
PublicReadSpec == PublicReadInit /\ [][PublicReadNext]_publicReadVars

(***************************************************************************)
(* Properties.                                                             *)
(***************************************************************************)
\* Safety: what the API serves is what the settled chain commits: a job's
\* terms or report it serves stay committed for good, although blocks were
\* replaced and reports resubmitted while the request ran; and a request
\* begun after the issuer moved its root in a settled block never serves the
\* snapshot from before.
ServedIsSettled ==
    answer = "ok" =>
        IF route = "snapshot" THEN ~Rotated(began) ELSE Committed(route, final) = body
=============================================================================
