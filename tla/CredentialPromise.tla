------------------------- MODULE CredentialPromise -------------------------
(***************************************************************************)
(* What the issuer promises the people who enrol: a ticket is granted one  *)
(* credential, under an index nobody else is ever given, and every answer  *)
(* to a call about that ticket is that credential, made for the very       *)
(* application the call presents.                                          *)
(***************************************************************************)
CONSTANTS Tickets, Calls, Indexes, TicketOf, DigestOf, NoEntry, NoAnswer

VARIABLES granted, answers

pvars == <<granted, answers>>

EntryFor(d, i) == [digest |-> d, credential |-> [index |-> i, holder |-> d]]

Given == {granted[t].credential.index :
             t \in {u \in Tickets : granted[u] # NoEntry}}

PInit ==
    /\ granted = [t \in Tickets |-> NoEntry]
    /\ answers = [c \in Calls |-> NoAnswer]

\* Grant a ticket, for the application of one of its calls.
Grant(c, i) ==
    /\ granted[TicketOf[c]] = NoEntry
    /\ i \notin Given
    /\ granted' = [granted EXCEPT ![TicketOf[c]] = EntryFor(DigestOf[c], i)]
    /\ UNCHANGED answers

Answer(c) ==
    /\ answers[c] = NoAnswer
    /\ granted[TicketOf[c]] # NoEntry
    /\ granted[TicketOf[c]].digest = DigestOf[c]
    /\ answers' = [answers EXCEPT ![c] = granted[TicketOf[c]].credential]
    /\ UNCHANGED granted

PNext == \E c \in Calls : Answer(c) \/ \E i \in Indexes : Grant(c, i)

PSpec == PInit /\ [][PNext]_pvars

=============================================================================
