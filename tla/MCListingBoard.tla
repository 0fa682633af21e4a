--------------------------- MODULE MCListingBoard ---------------------------
(***************************************************************************)
(* "sessions": two starts of a board with two filters, over rival          *)
(* announcements of one job of which a higher minimum filters one out.     *)
(* "watch": one start watching one listing for more blocks, with failed    *)
(* reads and lost connections.                                             *)
(***************************************************************************)
EXTENDS ListingBoard

CONSTANTS a1, a2

OneJob == [k \in Keys |-> 1]
Rewards == [k \in Keys |-> IF k = a1 THEN 1 ELSE 2]

VARIABLE instance

MCInit ==
    /\ Init /\ instance \in {"sessions", "watch"}
    /\ instance = "sessions" => entity[a2] = "listed" /\ expires[a2] = 3
    /\ instance = "watch" => entity[a2] = "future" /\ expires[a1] \in {0, 3}

Within ==
    /\ UNCHANGED instance
    /\ instance = "sessions" => head' <= 2 /\ faults' = 0 /\ "waiting" # conn' /\ conn' # "dead"
    /\ instance = "watch" =>
         /\ entity'[a2] = "future" /\ generation' <= 1 /\ filter' \in {NoFilter, 1}
         /\ expires'[a1] # expires[a1] => expires'[a1] \in {expires[a1] + 2, head + 3}

MCNext ==
    \/ NewBlock /\ Within
    \/ \E f \in Filters : Start(f) /\ Within
    \/ filter # NoFilter /\ Stop /\ Within
    \/ UserRefresh /\ Within
    \/ \E g \in Generations : (Read(g) \/ Complete(g) \/ Fail(g)) /\ Within
    \/ \E i \in DOMAIN gets : (GetReads(i) \/ GetAnswers(i) \/ GetFails(i)) /\ Within
    \/ (LogsAcknowledged \/ Disconnect \/ Reconnect) /\ Within
    \/ \E w \in wire : OnEntity(w) /\ Within
    \/ \E b \in 1 .. head : OnHead(b) /\ Within

MCSpec == MCInit /\ [][MCNext]_<<vars, instance>> /\ Deliveries
=============================================================================
