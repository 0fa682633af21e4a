-------------------------- MODULE MCReportDelivery --------------------------
(* Two tabs of one profile whose wallet extension holds both parties.      *)
EXTENDS ReportDelivery, TLC

CONSTANTS client, worker, p1, t1, t2

MCProfileOf == [t \in Tabs |-> p1]
MCWalletsOf == [p \in Profiles |-> Accounts]
Interchangeable == Permutations(Tabs)

\* After its wallet changed, an operation matters only while it may still
\* write to the key store: elsewhere it can but fail.
Prompt ==
    \A t \in Tabs : op[t].fresh = "no" => op[t].step \in {"opening", "creating", "rotating"}

\* Time passes only once both parties have used the directory (registrations
\* expire, and those still pending are refused); nobody connects afterwards.
Aging ==
    time > 1 => /\ \A r \in Recipients : binding[r].version > 0
                /\ \A t \in Tabs : op[t].step \notin {"opening", "creating"}
=============================================================================
