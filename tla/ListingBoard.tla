---------------------------- MODULE ListingBoard ----------------------------
(***************************************************************************)
(* The live board of open reviews: createListingBoard and                  *)
(* watchListingStream of pilot/listings.ts.                                *)
(*                                                                         *)
(* The board holds a snapshot of the listings that match its filter.  It   *)
(* never polls: entity events, block heads and disconnections arrive on a  *)
(* WebSocket that loses what happens while it is down, and each of them    *)
(* either triggers a query or leaves something behind that a later one     *)
(* picks up.  A query and the verification of what it returns take time,   *)
(* and events keep arriving meanwhile.                                     *)
(*                                                                         *)
(* What is abstracted.  A filter is its minimum reward.  verify() accepts  *)
(* every listing or fails.  An HTTP read is at least as recent as the      *)
(* notifications already received.  The end of a query and the clearing of *)
(* flight are one step, as are an answer and the .finally behind it.       *)
(***************************************************************************)
EXTENDS Integers, Sequences, FiniteSets, SequencesExt

CONSTANTS
    Keys,           \* Arkiv entities that are or will be listings
    JobOf,          \* the escrow job each announces
    RewardOf,       \* its reward
    Filters,        \* minimum rewards a user may ask for
    Leases,         \* lifetimes, in blocks, of a listing or an extension
    Deletable,      \* entities whose owner may delete them
    Concurrency,    \* maxHydrations: four
    Backlog,        \* 128
    MaxRounds,      \* queries per refresh: two
    MaxRetries,     \* reconnections per start: five
    MaxHead, MaxStarts, MaxFaults     \* bounds

ASSUME BoardAssumptions ==
    /\ RewardOf \in [Keys -> Nat] /\ DOMAIN JobOf = Keys
    /\ Filters \subseteq Nat \ {0} /\ Leases \subseteq Nat \ {0}
    /\ Deletable \subseteq Keys
    /\ Concurrency \in Nat \ {0} /\ Backlog \in Nat \ {0} /\ MaxRounds \in Nat \ {0}
    /\ MaxRetries \in Nat /\ MaxHead \in Nat /\ MaxStarts \in Nat /\ MaxFaults \in Nat

NoFilter == 0
NoHead == 0

\* A refresh on its way; round counts the queries it made.
Task == [step : {"idle", "asked", "read"}, round : Nat, filter : Nat, block : Nat,
         found : SUBSET [key : Keys, expires : Nat]]
Idle == [step |-> "idle", round |-> 0, filter |-> NoFilter, block |-> 0, found |-> {}]
Asked(f, n) == [Idle EXCEPT !.step = "asked", !.round = n, !.filter = f]

\* A get(key) on its way.
Get == [gen : Nat, key : Keys, answer : {"none", "found", "gone"}]

VARIABLES
    head, entity, expires,          \* the Arkiv chain
    conn, wire, retries,            \* the stream: its state, its undelivered events
    generation, filter, seen,       \* seen is state.head
    status, listings, removed,      \* the rest of BoardState
    disconnected, connected, reconcile, dirty, boundary, deleted,
    pending, active, gets,          \* keys to hydrate, and their reads
    task,                           \* by generation: its refresh
    heard,                          \* shown listings whose deletion was announced
    faults

chain == <<head, entity, expires>>
link == <<conn, wire, retries>>
session == <<generation, filter>>
marks == <<disconnected, connected, reconcile>>
hydration == <<pending, active, gets>>
vars == <<chain, link, session, seen, status, listings, removed, marks, dirty,
          boundary, deleted, hydration, task, heard, faults>>

(***************************************************************************)
(* The chain.                                                              *)
(***************************************************************************)
Alive(k) == entity[k] = "listed" /\ head < expires[k]
Matching(f) == {k \in Keys : Alive(k) /\ RewardOf[k] >= f}

\* What a query returns once duplicates of a job are dropped: one per job.
Answers(f) ==
    {s \in SUBSET {[key |-> k, expires |-> expires[k]] : k \in Matching(f)} :
        /\ {JobOf[x.key] : x \in s} = {JobOf[k] : k \in Matching(f)}
        /\ \A x, y \in s : JobOf[x.key] = JobOf[y.key] => x = y}

KeysOf(ls) == {x.key : x \in ls}

\* Events reach a stream whose log subscription was acknowledged.
Announce(k, type) ==
    wire' = IF conn \in {"logs", "up"} THEN wire \union {<<k, type>>} ELSE wire

Create(k) ==
    /\ entity[k] = "future"
    /\ \E l \in Leases : expires' = [expires EXCEPT ![k] = head + 1 + l]
    /\ entity' = [entity EXCEPT ![k] = "listed"]
    /\ Announce(k, "created")

Extend(k) ==
    /\ entity[k] = "listed" /\ head + 1 < expires[k]
    /\ \E l \in Leases : expires' = [expires EXCEPT ![k] = @ + l]
    /\ Announce(k, "extended")
    /\ UNCHANGED entity

Delete(k) ==
    /\ k \in Deletable
    /\ entity[k] = "listed" /\ head + 1 < expires[k]
    /\ entity' = [entity EXCEPT ![k] = "deleted"]
    /\ Announce(k, "deleted")
    /\ UNCHANGED expires

\* A block, with at most one change to a listing in it.
NewBlock ==
    /\ head < MaxHead
    /\ head' = head + 1
    /\ \/ \E k \in Keys : Create(k) \/ Extend(k) \/ Delete(k)
       \/ UNCHANGED <<entity, expires, wire>>
    /\ UNCHANGED <<conn, retries, session, seen, status, listings, removed, marks, dirty,
                   boundary, deleted, hydration, task, heard, faults>>

(***************************************************************************)
(* refresh: one flight per generation; a call during a flight marks it     *)
(* dirty, which buys one more round.                                       *)
(***************************************************************************)
MutCurrent(g) == TRUE
Current(g) == g = generation

MutRefresh ==
    IF task[generation].step = "idle"
    THEN task' = [task EXCEPT ![generation] = Asked(filter, 1)] /\ dirty' = FALSE
    ELSE UNCHANGED <<task, dirty>>
Refresh ==
    \/ /\ task[generation].step = "idle"
       /\ task' = [task EXCEPT ![generation] = Asked(filter, 1)]
       /\ dirty' = FALSE
    \/ /\ task[generation].step # "idle"
       /\ dirty' = TRUE
       /\ UNCHANGED task

\* driver.query answers with the chain at some block.
Read(g) ==
    /\ task[g].step = "asked"
    /\ \E s \in Answers(task[g].filter) :
           task' = [task EXCEPT ![g].step = "read", ![g].block = head, ![g].found = s]
    /\ UNCHANGED <<chain, link, session, seen, status, listings, removed, marks, dirty,
                   boundary, deleted, hydration, heard, faults>>

\* A flight of an older generation returns without effect.
Abandon(g) ==
    /\ task' = [task EXCEPT ![g] = Idle]
    /\ UNCHANGED <<seen, status, listings, removed, marks, dirty, boundary, deleted>>

\* The end of a round that leaves the board in state s: another one if the
\* flight is dirty and may query again, or the wait for the next head.
NextRound(g, s, d, r) ==
    IF d /\ task[g].round < MaxRounds
    THEN /\ task' = [task EXCEPT ![g] = Asked(@.filter, @.round + 1)]
         /\ dirty' = FALSE /\ reconcile' = r /\ status' = s
    ELSE /\ task' = [task EXCEPT ![g] = Idle]
         /\ dirty' = d /\ reconcile' = (d \/ r)
         /\ status' = IF d THEN "stale" ELSE s

Earliest(ls) ==
    IF ls = {} THEN 0 ELSE CHOOSE n \in {x.expires : x \in ls} : \A x \in ls : n <= x.expires

\* A head crossed the new boundary while the snapshot was verified.
Crossed(b, block) == seen # NoHead /\ b # 0 /\ seen >= b /\ block < b

Reason(x, block) ==
    IF block >= x.expires /\ x.key \notin deleted THEN "native-expired" ELSE "no-longer-listed"

\* Deletions kept until the listing leaves the board.
MutStillDeleted(ks) == {}
StillDeleted(ks) == deleted \intersect ks

Health == IF disconnected THEN "stale" ELSE IF connected THEN "live" ELSE "connecting"

Paint(g) ==
    LET t == task[g]
        gone == {x \in listings : x.key \notin KeysOf(t.found)}
    IN  /\ listings' = t.found
        /\ removed' = {[key |-> x.key, reason |-> Reason(x, t.block)] : x \in gone}
        /\ boundary' = Earliest(t.found)
        /\ deleted' = StillDeleted(KeysOf(t.found))
        /\ NextRound(g, Health, dirty \/ Crossed(Earliest(t.found), t.block), reconcile)
        /\ UNCHANGED <<seen, disconnected, connected>>

Complete(g) ==
    /\ task[g].step = "read"
    /\ IF Current(g) THEN Paint(g) ELSE Abandon(g)
    /\ UNCHANGED <<chain, link, session, hydration, heard, faults>>

\* The query or a verification throws.
Fail(g) ==
    /\ task[g].step # "idle" /\ faults < MaxFaults
    /\ faults' = faults + 1
    /\ IF Current(g)
       THEN /\ removed' = {}
            /\ NextRound(g, "error", dirty, TRUE)
            /\ UNCHANGED <<seen, listings, disconnected, connected, boundary, deleted>>
       ELSE Abandon(g)
    /\ UNCHANGED <<chain, link, session, hydration, heard>>

(***************************************************************************)
(* start and stop.                                                         *)
(***************************************************************************)
Restart(f, c, st, t) ==
    /\ generation < MaxStarts
    /\ generation' = generation + 1
    /\ filter' = f
    /\ conn' = c /\ wire' = {} /\ retries' = 0
    /\ pending' = <<>> /\ active' = 0
    /\ dirty' = FALSE /\ boundary' = 0
    /\ disconnected' = FALSE /\ connected' = FALSE /\ reconcile' = FALSE
    /\ deleted' = {} /\ heard' = {}
    /\ status' = st /\ listings' = {} /\ removed' = {} /\ seen' = NoHead
    /\ task' = [task EXCEPT ![generation + 1] = t]
    /\ UNCHANGED <<chain, gets, faults>>

Start(f) == Restart(f, "connecting", "connecting", Asked(f, 1))
Stop == Restart(NoFilter, "off", "stopped", Idle)

\* The board's refresh(), which returns at once on a stopped board.
UserRefresh ==
    /\ filter # NoFilter /\ faults < MaxFaults
    /\ faults' = faults + 1
    /\ Refresh
    /\ UNCHANGED <<chain, link, session, seen, status, listings, removed, marks, boundary,
                   deleted, hydration, heard>>

(***************************************************************************)
(* pump: at most Concurrency reads at a time, oldest key first.            *)
(***************************************************************************)
Room(n) == Concurrency - n

Pump(keys, n, others) ==
    LET started == IF Room(n) < Len(keys) THEN Room(n) ELSE Len(keys)
    IN  /\ pending' = SubSeq(keys, started + 1, Len(keys))
        /\ active' = n + started
        /\ gets' = others \o [i \in 1 .. started |->
                                  [gen |-> generation, key |-> keys[i], answer |-> "none"]]

\* The endpoint reads the entity.
GetReads(i) ==
    /\ gets[i].answer = "none"
    /\ gets' = [gets EXCEPT ![i].answer = IF Alive(gets[i].key) THEN "found" ELSE "gone"]
    /\ UNCHANGED <<chain, link, session, seen, status, listings, removed, marks, dirty,
                   boundary, deleted, pending, active, task, heard, faults>>

\* A shown listing, or an entity the filter accepts, is worth a query.
Relevant(x) ==
    \/ x.key \in KeysOf(listings)
    \/ x.answer = "found" /\ RewardOf[x.key] >= filter

GetAnswers(i) ==
    LET x == gets[i]
        others == RemoveAt(gets, i)
    IN  /\ x.answer # "none"
        /\ IF Current(x.gen)
           THEN /\ IF Relevant(x) THEN Refresh ELSE UNCHANGED <<task, dirty>>
                /\ Pump(pending, active - 1, others)
           ELSE /\ gets' = others
                /\ UNCHANGED <<task, dirty, pending, active>>
        /\ UNCHANGED <<chain, link, session, seen, status, listings, removed, marks,
                       boundary, deleted, heard, faults>>

GetFails(i) ==
    LET others == RemoveAt(gets, i)
    IN  /\ faults < MaxFaults
        /\ faults' = faults + 1
        /\ IF Current(gets[i].gen)
           THEN /\ reconcile' = TRUE /\ status' = "stale"
                /\ Pump(pending, active - 1, others)
           ELSE /\ gets' = others
                /\ UNCHANGED <<reconcile, status, pending, active>>
        /\ UNCHANGED <<chain, link, session, seen, listings, removed, disconnected, connected,
                       dirty, boundary, deleted, task, heard>>

(***************************************************************************)
(* The stream.                                                             *)
(***************************************************************************)
LogsAcknowledged ==
    /\ conn = "connecting"
    /\ conn' = "logs"
    /\ UNCHANGED <<chain, wire, retries, session, seen, status, listings, removed, marks,
                   dirty, boundary, deleted, hydration, task, heard, faults>>

Full == Len(pending) >= Backlog

\* onEntity for a listing on the board, beyond the backlog, and otherwise.
EntityShown(k) ==
    /\ k \in KeysOf(listings)
    /\ Refresh
    /\ UNCHANGED <<status, hydration>>

EntityOverflows(k) ==
    /\ k \notin KeysOf(listings) /\ Full
    /\ pending' = <<>> /\ status' = "stale"
    /\ Refresh
    /\ UNCHANGED <<active, gets>>

EntityQueued(k) ==
    /\ k \notin KeysOf(listings) /\ ~Full
    /\ Pump(IF Contains(pending, k) THEN pending ELSE Append(pending, k), active, gets)
    /\ UNCHANGED <<status, task, dirty>>

OnEntity(w) ==
    LET announced == IF w[2] = "deleted" /\ w[1] \in KeysOf(listings) THEN {w[1]} ELSE {}
    IN  /\ conn \in {"logs", "up"}
        /\ wire' = wire \ {w}
        /\ deleted' = deleted \union announced
        /\ heard' = heard \union announced
        /\ EntityShown(w[1]) \/ EntityOverflows(w[1]) \/ EntityQueued(w[1])
        /\ UNCHANGED <<chain, conn, retries, session, seen, listings, removed, marks,
                       boundary, faults>>

MutRecovering == disconnected \/ ~connected
Recovering == disconnected \/ ~connected \/ reconcile
Expired(b) == boundary # 0 /\ b >= boundary

\* A head, once both subscriptions were acknowledged.  The newest one again
\* stands for later blocks in which nothing happened.
OnHead(b) ==
    /\ conn \in {"logs", "up"}
    /\ b >= seen
    /\ conn' = "up" /\ seen' = b
    /\ \/ /\ Recovering
          /\ disconnected' = FALSE /\ connected' = TRUE /\ reconcile' = FALSE
          /\ Refresh
          /\ UNCHANGED boundary
       \/ /\ ~Recovering /\ Expired(b)
          /\ boundary' = 0
          /\ Refresh
          /\ UNCHANGED marks
       \/ /\ ~Recovering /\ ~Expired(b)
          /\ UNCHANGED <<marks, boundary, task, dirty>>
    /\ UNCHANGED <<chain, wire, retries, session, status, listings, removed, deleted,
                   hydration, heard, faults>>

MayRetry == retries < MaxRetries

\* The socket errs, or no head arrives within fifteen seconds of connecting.
Disconnect ==
    /\ conn \in {"connecting", "logs", "up"}
    /\ IF MayRetry
       THEN conn' = "waiting" /\ retries' = retries + 1
       ELSE conn' = "dead" /\ UNCHANGED retries
    /\ wire' = {}
    /\ disconnected' = TRUE /\ status' = "stale"
    /\ UNCHANGED <<chain, session, seen, listings, removed, connected, reconcile, dirty,
                   boundary, deleted, hydration, task, heard, faults>>

Reconnect ==
    /\ conn = "waiting"
    /\ conn' = "connecting"
    /\ UNCHANGED <<chain, wire, retries, session, seen, status, listings, removed, marks,
                   dirty, boundary, deleted, hydration, task, heard, faults>>

(***************************************************************************)
(* The specification.                                                      *)
(***************************************************************************)
Generations == 0 .. MaxStarts

Init ==
    /\ head = 1
    /\ entity \in [Keys -> {"future", "listed"}]
    /\ expires \in [Keys -> {0} \union {1 + l : l \in Leases}]
    /\ \A k \in Keys : entity[k] = "future" <=> expires[k] = 0
    /\ conn = "off" /\ wire = {} /\ retries = 0
    /\ generation = 0 /\ filter = NoFilter /\ seen = NoHead
    /\ status = "stopped" /\ listings = {} /\ removed = {}
    /\ disconnected = FALSE /\ connected = FALSE /\ reconcile = FALSE
    /\ dirty = FALSE /\ boundary = 0 /\ deleted = {}
    /\ pending = <<>> /\ active = 0 /\ gets = <<>>
    /\ task = [g \in Generations |-> Idle]
    /\ heard = {} /\ faults = 0

Next ==
    \/ NewBlock
    \/ \E f \in Filters : Start(f)
    \/ filter # NoFilter /\ Stop
    \/ UserRefresh
    \/ \E g \in Generations : Read(g) \/ Complete(g) \/ Fail(g)
    \/ \E i \in DOMAIN gets : GetReads(i) \/ GetAnswers(i) \/ GetFails(i)
    \/ LogsAcknowledged \/ Disconnect \/ Reconnect
    \/ \E w \in wire : OnEntity(w)
    \/ \E b \in 1 .. head : OnHead(b)

Spec == Init /\ [][Next]_vars

\* Reads are answered, a stream that retries subscribes, its events arrive
\* and blocks keep coming.  Nothing obliges users, owners or faults.
Deliveries ==
    /\ \A g \in Generations : WF_vars(Read(g)) /\ WF_vars(Complete(g))
    /\ WF_vars(\E i \in DOMAIN gets : GetReads(i)) /\ WF_vars(\E i \in DOMAIN gets : GetAnswers(i))
    /\ WF_vars(LogsAcknowledged) /\ WF_vars(Reconnect)
    /\ WF_vars(\E w \in wire : OnEntity(w))
    /\ WF_vars(OnHead(head))

FairSpec == Spec /\ Deliveries

(***************************************************************************)
(* Properties.                                                             *)
(***************************************************************************)

\* Every variable has its type.
TypeOK ==
    /\ head \in Nat /\ entity \in [Keys -> {"future", "listed", "deleted"}]
    /\ expires \in [Keys -> Nat]
    /\ conn \in {"off", "connecting", "logs", "up", "waiting", "dead"}
    /\ wire \subseteq Keys \X {"created", "extended", "deleted"} /\ retries \in 0 .. MaxRetries
    /\ generation \in Generations /\ filter \in Filters \union {NoFilter} /\ seen \in 0 .. head
    /\ status \in {"connecting", "live", "stale", "error", "stopped"}
    /\ listings \subseteq [key : Keys, expires : Nat]
    /\ removed \subseteq [key : Keys, reason : {"native-expired", "no-longer-listed"}]
    /\ disconnected \in BOOLEAN /\ connected \in BOOLEAN /\ reconcile \in BOOLEAN
    /\ dirty \in BOOLEAN /\ boundary \in Nat /\ deleted \subseteq Keys
    /\ pending \in Seq(Keys) /\ active \in Int /\ gets \in Seq(Get)
    /\ task \in [Generations -> Task]
    /\ heard \subseteq Keys /\ faults \in 0 .. MaxFaults

\* Hydration stays bounded and never stalls: the counter is the number of
\* reads of this session, at most Concurrency of them, and a key waits only
\* while all of them are taken.  Reads of an earlier session, whose answers
\* are still to come, must not touch the counter.
HydrationBounded ==
    /\ active = Cardinality({i \in DOMAIN gets : gets[i].gen = generation})
    /\ active <= Concurrency /\ Len(pending) <= Backlog
    /\ pending # <<>> => active = Concurrency

\* A query of an earlier start never paints the board: what is shown answers
\* the filter the user has now, and a stopped board shows nothing.
OnlyThisFilter ==
    \A x \in listings : filter # NoFilter /\ RewardOf[x.key] >= filter

\* A board whose stream is not up never says it is live, whatever queries
\* complete meanwhile; the user interface lets a reviewer open tasks of a
\* live board only.
LiveIsConnected == status = "live" => conn = "up"

\* A listing whose deletion was announced while the board showed it is not
\* presented as having expired, even if a snapshot older than the deletion
\* is painted in between.
DeletionIsNotExpiry ==
    \A x \in removed : x.key \in heard => x.reason = "no-longer-listed"

Settled ==
    /\ status = "live" /\ ~reconcile
    /\ task[generation].step = "idle" /\ active = 0 /\ wire = {} /\ seen = head

Accurate ==
    /\ \A x \in listings : entity[x.key] # "deleted" =>
          x.key \in Matching(filter) /\ x.expires = expires[x.key]
    /\ \A k \in Matching(filter) : \E x \in listings : JobOf[x.key] = JobOf[k]

\* No silent staleness: a live board with nothing on its way shows every job
\* listed on the chain and, deleted entities aside, nothing that expired or
\* was renewed since.  There is no polling to repair it otherwise.
NothingMissed == Settled => Accurate

\* "create/update/delete/expiry changes trigger indexed queries": a live
\* board with nothing on its way shows no deleted entity.
DeletionsShown == Settled => \A x \in listings : entity[x.key] # "deleted"

\* The one step that forgets a deletion: a read that finds nothing is
\* answered while a query that found the entity is being verified; the board
\* does not show it yet, and no other mark makes that query run again.
Overtaken(i) ==
    /\ GetAnswers(i) /\ Current(gets[i].gen) /\ gets[i].answer = "gone"
    /\ task[generation].step = "read" /\ ~dirty
    /\ gets[i].key \in KeysOf(task[generation].found) \ KeysOf(listings)

\* Whatever was lost, the board ends up stopped, without a stream it may
\* reconnect, or live and accurate.
Converges == <>[](conn \in {"off", "dead"} \/ (status = "live" /\ Accurate))
=============================================================================
