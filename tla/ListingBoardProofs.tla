------------------------- MODULE ListingBoardProofs -------------------------
(***************************************************************************)
(* Proofs about ListingBoard.                                              *)
(***************************************************************************)
EXTENDS ListingBoard, TLAPS, SequenceTheorems, FiniteSetTheorems,
        WellFoundedInduction

(***************************************************************************)
(* The operators.                                                          *)
(***************************************************************************)
Entry == [key : Keys, expires : Nat]

\* The earliest expiry of a snapshot is that of one of its listings.
LEMMA EarliestIs ==
  ASSUME NEW ls \in SUBSET Entry, ls # {}
  PROVE  /\ \E x \in ls : Earliest(ls) = x.expires
         /\ \A x \in ls : Earliest(ls) <= x.expires
<1> DEFINE T == {x.expires : x \in ls}
<1>1. T \subseteq Nat /\ T # {} BY DEF Entry
<1> DEFINE R == {ss \in Nat \X Nat : ss[1] < ss[2]}
<1>2. IsWellFoundedOn(R, Nat) BY NatLessThanWellFounded DEF OpToRel
<1> HIDE DEF R
<1>3. PICK n \in T : \A y \in T : ~(<<y, n>> \in R) BY <1>1, <1>2, WFMin
<1>4. ASSUME NEW y \in T PROVE n <= y
  <2>1. y \in Nat /\ n \in Nat BY <1>1
  <2> HIDE DEF T
  <2>2. ~(<<y, n>> \in R) BY <1>3
  <2>3. ~(y < n) BY <2>1, <2>2 DEF R
  <2> QED BY <2>1, <2>3
<1>5. \A x \in ls : n <= x.expires BY <1>4
<1> QED BY <1>5 DEF Earliest

LEMMA EarliestNat == ASSUME NEW ls \in SUBSET Entry PROVE Earliest(ls) \in Nat
<1>1. CASE ls = {} BY <1>1 DEF Earliest
<1>2. CASE ls # {} BY <1>2, EarliestIs DEF Entry
<1> QED BY <1>1, <1>2

\* The reads of a generation, by their positions.
Mine(q, g) == {i \in DOMAIN q : q[i].gen = g}
Count(q, g) == Cardinality(Mine(q, g))

LEMMA CountNat == ASSUME NEW q \in Seq(Get), NEW g PROVE IsFiniteSet(Mine(q, g)) /\ Count(q, g) \in Nat
<1>1. DOMAIN q = 1 .. Len(q) /\ Len(q) \in Nat BY LenProperties
<1>2. IsFiniteSet(DOMAIN q) BY <1>1, FS_Interval
<1>3. Mine(q, g) \subseteq DOMAIN q BY DEF Mine
<1> QED BY <1>2, <1>3, FS_Subset, FS_CardinalityType DEF Count

LEMMA CountConcat ==
  ASSUME NEW q \in Seq(Get), NEW r \in Seq(Get), NEW g
  PROVE  Count(q \o r, g) = Count(q, g) + Count(r, g)
<1> DEFINE N == Len(q)
           B == {N + j : j \in Mine(r, g)}
<1>1. /\ N \in Nat /\ Len(r) \in Nat
      /\ DOMAIN q = 1 .. N /\ DOMAIN r = 1 .. Len(r)
      /\ DOMAIN (q \o r) = 1 .. N + Len(r)
  BY LenProperties, ConcatProperties
<1>2. \A i \in 1 .. N + Len(r) : (q \o r)[i] = IF i <= N THEN q[i] ELSE r[i - N]
  BY ConcatProperties
<1>3. Mine(q \o r, g) = Mine(q, g) \union B
  <2>1. ASSUME NEW i \in Mine(q \o r, g) PROVE i \in Mine(q, g) \union B
    <3>1. i \in 1 .. N + Len(r) /\ (q \o r)[i].gen = g BY <1>1 DEF Mine
    <3>2. CASE i <= N BY <1>1, <1>2, <3>1, <3>2 DEF Mine
    <3>3. CASE ~(i <= N)
      <4>1. i - N \in Mine(r, g) BY <1>1, <1>2, <3>1, <3>3 DEF Mine
      <4>2. i = N + (i - N) BY <1>1, <3>1
      <4> QED BY <4>1, <4>2
    <3> QED BY <3>2, <3>3
  <2>2. ASSUME NEW i \in Mine(q, g) PROVE i \in Mine(q \o r, g)
    BY <1>1, <1>2 DEF Mine
  <2>3. ASSUME NEW j \in Mine(r, g) PROVE N + j \in Mine(q \o r, g)
    <3>1. j \in 1 .. Len(r) /\ r[j].gen = g BY <1>1 DEF Mine
    <3>2. N + j \in 1 .. N + Len(r) /\ ~(N + j <= N) /\ (N + j) - N = j BY <1>1, <3>1
    <3> QED BY <1>1, <1>2, <3>1, <3>2 DEF Mine
  <2> QED BY <2>1, <2>2, <2>3
<1>4. Mine(q, g) \intersect B = {} BY <1>1 DEF Mine
<1>5. IsFiniteSet(B) /\ Cardinality(B) = Count(r, g)
  <2> DEFINE f == [j \in Mine(r, g) |-> N + j]
  <2>1. \A j \in Mine(r, g) : j \in Nat BY <1>1 DEF Mine
  <2>2. f \in Bijection(Mine(r, g), B)
    BY <1>1, <2>1 DEF Bijection, Injection, IsInjective, Surjection
  <2> QED BY <2>2, CountNat, FS_Bijection DEF Count, ExistsBijection
<1>6. IsFiniteSet(Mine(q, g)) /\ Count(q, g) \in Nat /\ Count(r, g) \in Nat BY CountNat
<1> HIDE DEF B
<1>7. Cardinality(Mine(q, g) \union B)
        = Cardinality(Mine(q, g)) + Cardinality(B) - Cardinality(Mine(q, g) \intersect B)
  BY <1>5, <1>6, FS_Union
<1>8. Cardinality({}) = 0 BY FS_EmptySet
<1>9. Cardinality(Mine(q, g) \intersect B) = 0 BY <1>4, <1>8
<1>10. Count(q \o r, g) = Cardinality(Mine(q, g) \union B) BY <1>3 DEF Count
<1>11. Count(q, g) = Cardinality(Mine(q, g)) BY DEF Count
<1> QED BY <1>5, <1>6, <1>7, <1>9, <1>10, <1>11

LEMMA CountOne ==
  ASSUME NEW x \in Get, NEW g
  PROVE  /\ <<x>> \in Seq(Get)
         /\ Count(<<x>>, g) = IF x.gen = g THEN 1 ELSE 0
<1>1. <<x>> \in Seq(Get) /\ DOMAIN <<x>> = {1} /\ <<x>>[1] = x OBVIOUS
<1>2. CASE x.gen = g
  <2>1. Mine(<<x>>, g) = {1} BY <1>1, <1>2 DEF Mine
  <2>2. Cardinality({1}) = 1 BY FS_Singleton
  <2> QED BY <1>1, <1>2, <2>1, <2>2 DEF Count
<1>3. CASE x.gen # g
  <2>1. Mine(<<x>>, g) = {} BY <1>1, <1>3 DEF Mine
  <2>2. Cardinality({}) = 0 BY FS_EmptySet
  <2> QED BY <1>1, <1>3, <2>1, <2>2 DEF Count
<1> QED BY <1>2, <1>3

\* Taking one read away takes it off the count of its generation.
LEMMA CountRemove ==
  ASSUME NEW q \in Seq(Get), NEW i \in DOMAIN q, NEW g
  PROVE  /\ RemoveAt(q, i) \in Seq(Get)
         /\ Count(RemoveAt(q, i), g) = Count(q, g) - (IF q[i].gen = g THEN 1 ELSE 0)
<1> DEFINE a == SubSeq(q, 1, i - 1)
           b == SubSeq(q, i + 1, Len(q))
<1>1. Len(q) \in Nat /\ DOMAIN q = 1 .. Len(q) /\ i \in 1 .. Len(q) BY LenProperties
<1>2. \A j \in 1 .. Len(q) : q[j] \in Get BY ElementOfSeq
<1>3. a \in Seq(Get) BY <1>1, <1>2, SubSeqProperties
<1>4. b \in Seq(Get) BY <1>1, <1>2, SubSeqProperties
<1>5. <<q[i]>> \in Seq(Get) /\ Count(<<q[i]>>, g) = IF q[i].gen = g THEN 1 ELSE 0
  BY <1>1, <1>2, CountOne
<1>6. SubSeq(q, i, i) = <<q[i]>>
  <2>1. /\ SubSeq(q, i, i) \in Seq(Get) /\ Len(SubSeq(q, i, i)) = 1
        /\ SubSeq(q, i, i)[1] = q[i]
    BY <1>1, <1>2, SubSeqProperties
  <2>2. Len(<<q[i]>>) = 1 /\ <<q[i]>>[1] = q[i] OBVIOUS
  <2>3. \A j \in 1 .. Len(SubSeq(q, i, i)) : SubSeq(q, i, i)[j] = <<q[i]>>[j] BY <2>1, <2>2
  <2> QED BY <1>5, <2>1, <2>2, <2>3, SeqEqual
<1>7. SubSeq(q, 1, i) = a \o <<q[i]>>
  BY <1>1, <1>6, ConcatAdjacentSubSeq
<1>8. q = (a \o <<q[i]>>) \o b
  <2> DEFINE n == Len(q)
  <2>a. 1 \in 1 .. n + 1 /\ i \in 1 - 1 .. n /\ n \in i .. n BY <1>1
  <2>b. ASSUME NEW m \in 1 .. n + 1, NEW k \in m - 1 .. n, NEW l \in k .. n
        PROVE  SubSeq(q, m, k) \o SubSeq(q, k + 1, l) = SubSeq(q, m, l)
    BY ConcatAdjacentSubSeq
  <2> HIDE DEF n
  <2>1. SubSeq(q, 1, i) \o SubSeq(q, i + 1, n) = SubSeq(q, 1, n) BY <2>a, <2>b
  <2>2. SubSeq(q, 1, Len(q)) = q BY SubSeqFull
  <2> QED BY <1>7, <2>1, <2>2 DEF n
<1>9. a \o <<q[i]>> \in Seq(Get) BY <1>3, <1>5, ConcatProperties
<1>10. Count(q, g) = (Count(a, g) + Count(<<q[i]>>, g)) + Count(b, g)
  <2> DEFINE c == a \o <<q[i]>>
  <2>a. c \in Seq(Get) /\ q = c \o b BY <1>8, <1>9
  <2> HIDE DEF a, b, c
  <2>b. Count(c \o b, g) = Count(c, g) + Count(b, g) BY <1>4, <2>a, CountConcat
  <2>1. Count(q, g) = Count(a \o <<q[i]>>, g) + Count(b, g) BY <2>a, <2>b DEF c
  <2>2. Count(a \o <<q[i]>>, g) = Count(a, g) + Count(<<q[i]>>, g) BY <1>3, <1>5, CountConcat
  <2> QED BY <2>1, <2>2
<1>11. RemoveAt(q, i) = a \o b BY DEF RemoveAt
<1>12. Count(a, g) \in Nat /\ Count(b, g) \in Nat BY <1>3, <1>4, CountNat
<1> HIDE DEF a, b
<1> QED BY <1>3, <1>4, <1>5, <1>10, <1>11, <1>12, CountConcat, ConcatProperties

\* The n reads pump starts.
Started(n, ks, g) == [i \in 1 .. n |-> [gen |-> g, key |-> ks[i], answer |-> "none"]]

LEMMA CountStarted ==
  ASSUME NEW n \in Nat, NEW ks \in Seq(Keys), n <= Len(ks), NEW g \in Nat
  PROVE  Started(n, ks, g) \in Seq(Get) /\ Count(Started(n, ks, g), g) = n
<1> DEFINE r == Started(n, ks, g)
<1>1. \A i \in 1 .. n : ks[i] \in Keys BY LenProperties, ElementOfSeq
<1>2. r \in [1 .. n -> Get] BY <1>1 DEF Get, Started
<1>3. r \in Seq(Get) BY <1>2, SeqDef
<1>4. Mine(r, g) = 1 .. n BY <1>2 DEF Mine, Started
<1>5. Cardinality(1 .. n) = n BY FS_Interval
<1> QED BY <1>3, <1>4, <1>5 DEF Count

LEMMA PumpWorks ==
  ASSUME NEW ks \in Seq(Keys), NEW n \in Int, n <= Concurrency, NEW others \in Seq(Get),
         generation \in Nat, Pump(ks, n, others)
  PROVE  /\ pending' \in Seq(Keys) /\ Len(pending') <= Len(ks)
         /\ active' \in Int /\ active' <= Concurrency
         /\ pending' # <<>> => active' = Concurrency
         /\ gets' \in Seq(Get)
         /\ Count(gets', generation) - Count(others, generation) = active' - n
         /\ \A i \in DOMAIN gets' : gets'[i].gen = generation
                \/ \E j \in DOMAIN others : gets'[i] = others[j]
<1> USE BoardAssumptions
<1> DEFINE started == IF Room(n) < Len(ks) THEN Room(n) ELSE Len(ks)
           r == Started(started, ks, generation)
<1>1. Len(ks) \in Nat /\ \A i \in 1 .. Len(ks) : ks[i] \in Keys BY LenProperties, ElementOfSeq
<1>2. started \in Nat /\ started <= Len(ks) /\ n + started <= Concurrency BY <1>1 DEF Room
<1>3. /\ pending' = SubSeq(ks, started + 1, Len(ks))
      /\ active' = n + started
      /\ gets' = others \o r
  BY DEF Pump, Started
<1>4. started < Len(ks) => n + started = Concurrency BY <1>1 DEF Room
<1> HIDE DEF started
<1>5. /\ pending' \in Seq(Keys)
      /\ Len(pending') = IF started + 1 <= Len(ks) THEN Len(ks) - (started + 1) + 1 ELSE 0
  BY <1>1, <1>2, <1>3, SubSeqProperties
<1>6. pending' # <<>> => started < Len(ks)
  BY <1>1, <1>2, <1>3, SubSeqEmpty
<1>7. r \in Seq(Get) /\ Count(r, generation) = started
  BY <1>2, CountStarted
<1>8. \A i \in DOMAIN r : r[i].gen = generation BY DEF Started
<1> HIDE DEF r
<1>9. gets' \in Seq(Get) /\ Count(gets', generation) = Count(others, generation) + started
  BY <1>3, <1>7, CountConcat, ConcatProperties
<1>10. Count(others, generation) \in Nat BY CountNat
<1>11. ASSUME NEW i \in DOMAIN gets'
       PROVE  gets'[i].gen = generation \/ \E j \in DOMAIN others : gets'[i] = others[j]
  <2>1. /\ Len(others) \in Nat /\ Len(r) \in Nat
        /\ DOMAIN others = 1 .. Len(others) /\ DOMAIN r = 1 .. Len(r)
    BY <1>7, LenProperties
  <2>2. i \in 1 .. Len(others) + Len(r) BY <1>3, <1>7, <1>9, LenProperties, ConcatProperties
  <2>3. gets'[i] = IF i <= Len(others) THEN others[i] ELSE r[i - Len(others)]
    BY <1>3, <1>7, <2>2, ConcatProperties
  <2>4. CASE i <= Len(others) BY <2>1, <2>2, <2>3, <2>4
  <2>5. CASE ~(i <= Len(others))
    <3>1. i - Len(others) \in DOMAIN r BY <2>1, <2>2, <2>5
    <3> QED BY <1>8, <2>3, <2>5, <3>1
  <2> QED BY <2>4, <2>5
<1>12. Count(gets', generation) - Count(others, generation) = active' - n
  BY <1>2, <1>3, <1>9, <1>10
<1>13. Len(pending') <= Len(ks) BY <1>1, <1>2, <1>5
<1>14. active' \in Int /\ active' <= Concurrency BY <1>2, <1>3
<1>15. pending' # <<>> => active' = Concurrency BY <1>3, <1>4, <1>6
<1> QED BY <1>5, <1>9, <1>11, <1>12, <1>13, <1>14, <1>15

(***************************************************************************)
(* Types.                                                                  *)
(***************************************************************************)
Statuses == {"connecting", "live", "stale", "error", "stopped"}

LEMMA IdleIsTask == Idle \in Task /\ \A f \in Nat, n \in Nat : Asked(f, n) \in Task
BY DEF Idle, Asked, Task, NoFilter

LEMMA FilterNat == TypeOK => filter \in Nat /\ generation \in Nat
BY BoardAssumptions DEF TypeOK, NoFilter, Generations

LEMMA RefreshType ==
  ASSUME TypeOK, Refresh
  PROVE  task' \in [Generations -> Task] /\ dirty' \in BOOLEAN
<1>1. Asked(filter, 1) \in Task BY FilterNat, IdleIsTask
<1>2. task \in [Generations -> Task] BY DEF TypeOK
<1> QED BY <1>1, <1>2 DEF Refresh

LEMMA NextRoundType ==
  ASSUME TypeOK, NEW g \in Generations, NEW s \in Statuses, NEW d \in BOOLEAN,
         NEW r \in BOOLEAN, NextRound(g, s, d, r)
  PROVE  /\ task' \in [Generations -> Task] /\ dirty' \in BOOLEAN
         /\ reconcile' \in BOOLEAN /\ status' \in Statuses
<1>1. /\ task \in [Generations -> Task] /\ task[g].round \in Nat /\ task[g].filter \in Nat
  BY DEF TypeOK, Task
<1>2. Asked(task[g].filter, task[g].round + 1) \in Task /\ Idle \in Task
  BY <1>1, IdleIsTask
<1>3. CASE d /\ task[g].round < MaxRounds BY <1>1, <1>2, <1>3 DEF NextRound
<1>4. CASE ~(d /\ task[g].round < MaxRounds)
  BY <1>1, <1>2, <1>4 DEF NextRound, Statuses
<1> QED BY <1>3, <1>4

LEMMA AnswersType == ASSUME TypeOK, NEW f, NEW s \in Answers(f) PROVE s \in SUBSET Entry
BY DEF TypeOK, Answers, Matching, Entry

LEMMA TypeInit == Init => TypeOK
<1> SUFFICES ASSUME Init PROVE TypeOK OBVIOUS
<1> USE BoardAssumptions
<1>1. \A l \in Leases : 1 + l \in Nat OBVIOUS
<1>2. expires \in [Keys -> Nat] BY <1>1 DEF Init
<1>3. entity \in [Keys -> {"future", "listed", "deleted"}] BY DEF Init
<1>4. task \in [Generations -> Task] BY IdleIsTask DEF Init
<1>5. pending \in Seq(Keys) /\ gets \in Seq(Get) BY EmptySeq DEF Init
<1>6. /\ head \in Nat /\ retries \in 0 .. MaxRetries /\ generation \in Generations
      /\ seen \in 0 .. head /\ boundary \in Nat /\ active \in Int /\ faults \in 0 .. MaxFaults
  BY DEF Init, Generations, NoHead
<1>7. /\ disconnected \in BOOLEAN /\ connected \in BOOLEAN /\ reconcile \in BOOLEAN
      /\ dirty \in BOOLEAN
  BY DEF Init
<1>8. /\ wire = {} /\ listings = {} /\ removed = {} /\ deleted = {} /\ heard = {}
      /\ conn = "off" /\ status = "stopped" /\ filter = NoFilter
  BY DEF Init
<1> QED BY <1>2, <1>3, <1>4, <1>5, <1>6, <1>7, <1>8 DEF TypeOK

LEMMA TypeNewBlock == TypeOK /\ NewBlock => TypeOK'
<1> SUFFICES ASSUME TypeOK, NewBlock PROVE TypeOK' OBVIOUS
<1> USE BoardAssumptions
<1>1. /\ entity' \in [Keys -> {"future", "listed", "deleted"}]
      /\ expires' \in [Keys -> Nat]
      /\ wire' \subseteq Keys \X {"created", "extended", "deleted"}
  <2>1. CASE UNCHANGED <<entity, expires, wire>> BY <2>1 DEF TypeOK
  <2>2. ASSUME NEW k \in Keys, Create(k) \/ Extend(k) \/ Delete(k) PROVE <1>1!:
    <3>1. /\ entity \in [Keys -> {"future", "listed", "deleted"}] /\ head \in Nat
          /\ expires \in [Keys -> Nat] /\ expires[k] \in Nat
          /\ wire \subseteq Keys \X {"created", "extended", "deleted"}
      BY DEF TypeOK
    <3>2. CASE Create(k)
      <4>1. PICK l \in Leases : expires' = [expires EXCEPT ![k] = head + 1 + l] BY <3>2 DEF Create
      <4>2. head + 1 + l \in Nat BY <3>1
      <4> QED BY <3>1, <3>2, <4>1, <4>2 DEF Create, Announce
    <3>3. CASE Extend(k)
      <4>1. PICK l \in Leases : expires' = [expires EXCEPT ![k] = @ + l] BY <3>3 DEF Extend
      <4>2. expires[k] + l \in Nat BY <3>1
      <4> QED BY <3>1, <3>3, <4>1, <4>2 DEF Extend, Announce
    <3>4. CASE Delete(k) BY <3>1, <3>4 DEF Delete, Announce
    <3> QED BY <2>2, <3>2, <3>3, <3>4
  <2> QED BY <2>1, <2>2 DEF NewBlock
<1> QED BY <1>1 DEF TypeOK, NewBlock, session, marks, hydration

\* A step that leaves the board and the chain alone but for the refreshes
\* and reads on their way, and counts a fault.
LEMMA TypeFrame ==
  ASSUME TypeOK, UNCHANGED <<chain, link, session, marks, seen, status, listings, removed,
                             boundary, deleted, heard>>,
         dirty' \in BOOLEAN, pending' \in Seq(Keys), active' \in Int, gets' \in Seq(Get),
         task' \in [Generations -> Task], faults' \in 0 .. MaxFaults
  PROVE  TypeOK'
<1>1. /\ head' = head /\ entity' = entity /\ expires' = expires /\ conn' = conn
      /\ wire' = wire /\ retries' = retries /\ generation' = generation
      /\ filter' = filter /\ disconnected' = disconnected /\ connected' = connected
      /\ reconcile' = reconcile
  BY DEF chain, link, session, marks
<1>2. /\ seen' = seen /\ status' = status /\ listings' = listings /\ removed' = removed
      /\ boundary' = boundary /\ deleted' = deleted /\ heard' = heard
  OBVIOUS
<1> QED BY <1>1, <1>2 DEF TypeOK

LEMMA TypeFlight ==
  ASSUME TypeOK, NEW g \in Generations, Read(g) \/ Complete(g) \/ Fail(g)
  PROVE  TypeOK'
<1> USE BoardAssumptions
<1>0. task \in [Generations -> Task] /\ task[g] \in Task BY DEF TypeOK
<1>1. CASE Read(g)
  <2>1. PICK s \in Answers(task[g].filter) :
           task' = [task EXCEPT ![g].step = "read", ![g].block = head, ![g].found = s]
    BY <1>1 DEF Read
  <2>2. s \in SUBSET Entry /\ head \in Nat BY AnswersType DEF TypeOK
  <2>3. task' \in [Generations -> Task] BY <1>0, <2>1, <2>2 DEF Task, Entry
  <2>4. /\ UNCHANGED <<chain, link, session, marks, seen, status, listings, removed,
                        dirty, boundary, deleted, heard>>
        /\ pending' = pending /\ active' = active /\ gets' = gets /\ faults' = faults
    BY <1>1 DEF Read, hydration
  <2>5. /\ dirty \in BOOLEAN /\ pending \in Seq(Keys) /\ active \in Int
        /\ gets \in Seq(Get) /\ faults \in 0 .. MaxFaults
    BY DEF TypeOK
  <2> QED BY <2>3, <2>4, <2>5, TypeFrame
<1>2. CASE ~Current(g) /\ (Complete(g) \/ Fail(g))
  <2>1. task' \in [Generations -> Task] BY <1>0, <1>2, IdleIsTask DEF Complete, Fail, Abandon
  <2>2. faults' \in 0 .. MaxFaults BY <1>2 DEF Complete, Fail, TypeOK
  <2>3. /\ UNCHANGED <<chain, link, session, marks, seen, status, listings, removed,
                        dirty, boundary, deleted, heard>>
        /\ pending' = pending /\ active' = active /\ gets' = gets
    BY <1>2 DEF Complete, Fail, Abandon, hydration, marks
  <2>4. /\ dirty \in BOOLEAN /\ pending \in Seq(Keys) /\ active \in Int
        /\ gets \in Seq(Get)
    BY DEF TypeOK
  <2> QED BY <2>1, <2>2, <2>3, <2>4, TypeFrame
<1>3. CASE Current(g) /\ Complete(g)
  <2>1. Paint(g) BY <1>3 DEF Complete
  <2>2. task[g].found \in SUBSET Entry /\ task[g].block \in Nat BY <1>0 DEF Task, Entry
  <2>3. Health \in Statuses BY DEF Health, Statuses
  <2>4. boundary' \in Nat BY <2>1, <2>2, EarliestNat DEF Paint
  <2>5. (dirty \/ Crossed(Earliest(task[g].found), task[g].block)) \in BOOLEAN OBVIOUS
  <2>6. reconcile \in BOOLEAN BY DEF TypeOK
  <2>7. NextRound(g, Health, dirty \/ Crossed(Earliest(task[g].found), task[g].block), reconcile)
    BY <2>1 DEF Paint
  <2>8. /\ task' \in [Generations -> Task] /\ dirty' \in BOOLEAN
        /\ reconcile' \in BOOLEAN /\ status' \in Statuses
    BY <2>3, <2>5, <2>6, <2>7, NextRoundType
  <2>9. /\ listings' \subseteq [key : Keys, expires : Nat]
        /\ removed' \subseteq [key : Keys, reason : {"native-expired", "no-longer-listed"}]
        /\ deleted' \subseteq Keys
    BY <2>1, <2>2 DEF Paint, Reason, StillDeleted, TypeOK, Entry
  <2> QED BY <1>3, <2>1, <2>4, <2>8, <2>9
          DEF Complete, Paint, TypeOK, Statuses, chain, link, session, marks, hydration
<1>4. CASE Current(g) /\ Fail(g)
  <2>1. NextRound(g, "error", dirty, TRUE) BY <1>4 DEF Fail
  <2>2. dirty \in BOOLEAN BY DEF TypeOK
  <2>3. /\ task' \in [Generations -> Task] /\ dirty' \in BOOLEAN
        /\ reconcile' \in BOOLEAN /\ status' \in Statuses
    BY <2>1, <2>2, NextRoundType DEF Statuses
  <2> QED BY <1>4, <2>3 DEF Fail, TypeOK, Statuses, chain, link, session, marks, hydration
<1> QED BY <1>1, <1>2, <1>3, <1>4

LEMMA TypeSession ==
  ASSUME TypeOK,
         (\E f \in Filters : Start(f)) \/ Stop \/ UserRefresh
  PROVE  TypeOK'
<1> USE BoardAssumptions
<1>1. ASSUME NEW f \in Filters \union {NoFilter}, NEW t \in Task,
             NEW c \in {"off", "connecting"}, NEW s \in Statuses, Restart(f, c, s, t)
      PROVE  TypeOK'
  <2>1. generation' \in Generations BY <1>1 DEF Restart, TypeOK, Generations
  <2>2. task' \in [Generations -> Task] BY <1>1 DEF Restart, TypeOK
  <2>3. pending' \in Seq(Keys) BY <1>1, EmptySeq DEF Restart
  <2>4. /\ retries' \in 0 .. MaxRetries /\ boundary' \in Nat /\ active' \in Int
        /\ head' \in Nat /\ seen' \in 0 .. head' /\ faults' \in 0 .. MaxFaults
    BY <1>1 DEF Restart, TypeOK, NoHead, chain
  <2>5. /\ disconnected' \in BOOLEAN /\ connected' \in BOOLEAN /\ reconcile' \in BOOLEAN
        /\ dirty' \in BOOLEAN
    BY <1>1 DEF Restart
  <2>6. /\ wire' = {} /\ listings' = {} /\ removed' = {} /\ deleted' = {} /\ heard' = {}
        /\ conn' = c /\ status' = s /\ filter' = f /\ gets' = gets
        /\ entity' = entity /\ expires' = expires
    BY <1>1 DEF Restart, chain
  <2> QED BY <1>1, <2>1, <2>2, <2>3, <2>4, <2>5, <2>6 DEF TypeOK, Statuses
<1>2. ASSUME NEW f \in Filters, Start(f) PROVE TypeOK'
  <2>1. Asked(f, 1) \in Task BY IdleIsTask
  <2> QED BY <1>1, <1>2, <2>1 DEF Start, Statuses
<1>3. CASE Stop BY <1>1, <1>3, IdleIsTask DEF Stop, Statuses
<1>4. CASE UserRefresh
  <2>1. task' \in [Generations -> Task] /\ dirty' \in BOOLEAN BY <1>4, RefreshType DEF UserRefresh
  <2> QED BY <1>4, <2>1 DEF UserRefresh, TypeOK, chain, link, session, marks, hydration
<1> QED BY <1>2, <1>3, <1>4

LEMMA TypeStream ==
  ASSUME TypeOK, active <= Concurrency,
         LogsAcknowledged \/ Disconnect \/ Reconnect
         \/ (\E w \in wire : OnEntity(w)) \/ (\E b \in 1 .. head : OnHead(b))
  PROVE  TypeOK'
<1> USE BoardAssumptions
<1>1. CASE LogsAcknowledged
  BY <1>1 DEF LogsAcknowledged, TypeOK, chain, session, marks, hydration
<1>2. CASE Reconnect
  BY <1>2 DEF Reconnect, TypeOK, chain, session, marks, hydration
<1>3. CASE Disconnect
  <2>1. retries' \in 0 .. MaxRetries /\ conn' \in {"waiting", "dead"}
    BY <1>3 DEF Disconnect, MayRetry, TypeOK
  <2> QED BY <1>3, <2>1 DEF Disconnect, TypeOK, chain, session, hydration
<1>4. ASSUME NEW w \in wire, OnEntity(w) PROVE TypeOK'
  <2>1. w[1] \in Keys BY DEF TypeOK
  <2>2. deleted' \subseteq Keys /\ heard' \subseteq Keys /\ wire' \subseteq wire
    BY <1>4, <2>1 DEF OnEntity, TypeOK
  <2>3. /\ task' \in [Generations -> Task] /\ dirty' \in BOOLEAN /\ status' \in Statuses
        /\ pending' \in Seq(Keys) /\ active' \in Int /\ gets' \in Seq(Get)
    <3>1. CASE EntityShown(w[1])
      BY <3>1, RefreshType DEF EntityShown, TypeOK, Statuses, hydration
    <3>2. CASE EntityOverflows(w[1])
      <4>1. pending' \in Seq(Keys) BY <3>2, EmptySeq DEF EntityOverflows
      <4> QED BY <3>2, <4>1, RefreshType DEF EntityOverflows, TypeOK, Statuses
    <3>3. CASE EntityQueued(w[1])
      <4>1. PICK ks \in Seq(Keys) : Pump(ks, active, gets)
        BY <2>1, <3>3, AppendProperties DEF EntityQueued, TypeOK
      <4>2. gets \in Seq(Get) /\ active \in Int BY DEF TypeOK
      <4> QED BY <3>3, <4>1, <4>2, FilterNat, PumpWorks DEF EntityQueued, TypeOK, Statuses
    <3> QED BY <1>4, <3>1, <3>2, <3>3 DEF OnEntity
  <2> QED BY <1>4, <2>2, <2>3 DEF OnEntity, TypeOK, Statuses, chain, session, marks
<1>5. ASSUME NEW b \in 1 .. head, OnHead(b) PROVE TypeOK'
  <2>1. task' \in [Generations -> Task] /\ dirty' \in BOOLEAN
    BY <1>5, RefreshType DEF OnHead, TypeOK
  <2>2. seen' \in 0 .. head' BY <1>5 DEF OnHead, chain, TypeOK
  <2>3. /\ disconnected' \in BOOLEAN /\ connected' \in BOOLEAN /\ reconcile' \in BOOLEAN
        /\ boundary' \in Nat
    <3>1. CASE UNCHANGED marks
      <4>1. boundary' = boundary \/ boundary' = 0 BY <1>5 DEF OnHead
      <4> QED BY <3>1, <4>1 DEF marks, TypeOK
    <3>2. CASE /\ disconnected' = FALSE /\ connected' = TRUE /\ reconcile' = FALSE
               /\ boundary' = boundary
      BY <3>2 DEF TypeOK
    <3> QED BY <1>5, <3>1, <3>2 DEF OnHead
  <2>4. /\ conn' = "up"
        /\ UNCHANGED <<chain, wire, retries, session, status, listings, removed, deleted,
                       hydration, heard, faults>>
    BY <1>5 DEF OnHead
  <2> QED BY <2>1, <2>2, <2>3, <2>4 DEF TypeOK, chain, session, hydration
<1> QED BY <1>1, <1>2, <1>3, <1>4, <1>5

LEMMA TypeHydration ==
  ASSUME TypeOK, active <= Concurrency,
         NEW i \in DOMAIN gets, GetReads(i) \/ GetAnswers(i) \/ GetFails(i)
  PROVE  TypeOK'
<1> USE BoardAssumptions
<1>1. /\ gets \in Seq(Get) /\ i \in 1 .. Len(gets) /\ gets[i] \in Get
      /\ active \in Int /\ pending \in Seq(Keys)
  BY LenProperties, ElementOfSeq DEF TypeOK
<1>2. CASE GetReads(i)
  <2>1. \E e \in Get : gets' = [gets EXCEPT ![i] = e]
    <3> DEFINE a == IF Alive(gets[i].key) THEN "found" ELSE "gone"
    <3>1. [gets[i] EXCEPT !.answer = a] \in Get BY <1>1 DEF Get
    <3>2. gets' = [gets EXCEPT ![i] = [gets[i] EXCEPT !.answer = a]]
      BY <1>1, <1>2 DEF GetReads
    <3> QED BY <3>1, <3>2
  <2>2. gets' \in Seq(Get) BY <1>1, <2>1, ExceptSeq
  <2>3. /\ UNCHANGED <<chain, link, session, marks, seen, status, listings, removed,
                        dirty, boundary, deleted, heard>>
        /\ pending' = pending /\ active' = active /\ task' = task /\ faults' = faults
    BY <1>2 DEF GetReads
  <2>4. /\ task \in [Generations -> Task] /\ faults \in 0 .. MaxFaults
        /\ dirty \in BOOLEAN /\ pending \in Seq(Keys) /\ active \in Int
    BY DEF TypeOK
  <2> QED BY <2>2, <2>3, <2>4, TypeFrame
<1>3. RemoveAt(gets, i) \in Seq(Get) BY <1>1, CountRemove
<1>4. CASE GetAnswers(i)
  <2>1. task' \in [Generations -> Task] /\ dirty' \in BOOLEAN
    BY <1>4, RefreshType DEF GetAnswers, TypeOK
  <2>2. pending' \in Seq(Keys) /\ active' \in Int /\ gets' \in Seq(Get)
    <3>1. CASE Current(gets[i].gen)
      <4>1. Pump(pending, active - 1, RemoveAt(gets, i)) BY <1>4, <3>1 DEF GetAnswers
      <4>2. active - 1 \in Int /\ active - 1 <= Concurrency /\ generation \in Nat
        BY <1>1, FilterNat
      <4>3. pending \in Seq(Keys) BY <1>1
      <4> QED BY <1>3, <4>1, <4>2, <4>3, PumpWorks
    <3>2. CASE ~Current(gets[i].gen) BY <1>1, <1>3, <1>4, <3>2 DEF GetAnswers
    <3> QED BY <3>1, <3>2
  <2>3. UNCHANGED <<chain, link, session, marks, seen, status, listings, removed,
                    boundary, deleted, heard, faults>>
    BY <1>4 DEF GetAnswers
  <2>4. faults \in 0 .. MaxFaults BY DEF TypeOK
  <2> QED BY <2>1, <2>2, <2>3, <2>4, TypeFrame
<1>5. CASE GetFails(i)
  <2>1. /\ reconcile' \in BOOLEAN /\ status' \in Statuses /\ faults' \in 0 .. MaxFaults
    <3>1. reconcile' = TRUE \/ reconcile' = reconcile BY <1>5 DEF GetFails
    <3>2. reconcile' \in BOOLEAN BY <3>1 DEF TypeOK
    <3>3. status' = "stale" \/ status' = status BY <1>5 DEF GetFails
    <3>4. faults' \in 0 .. MaxFaults BY <1>5 DEF GetFails, TypeOK
    <3> QED BY <3>2, <3>3, <3>4 DEF TypeOK, Statuses
  <2>2. pending' \in Seq(Keys) /\ active' \in Int /\ gets' \in Seq(Get)
    <3>1. CASE Current(gets[i].gen)
      <4>1. Pump(pending, active - 1, RemoveAt(gets, i)) BY <1>5, <3>1 DEF GetFails
      <4>2. active - 1 \in Int /\ active - 1 <= Concurrency /\ generation \in Nat
        BY <1>1, FilterNat
      <4>3. pending \in Seq(Keys) BY <1>1
      <4> QED BY <1>3, <4>1, <4>2, <4>3, PumpWorks
    <3>2. CASE ~Current(gets[i].gen) BY <1>1, <1>3, <1>5, <3>2 DEF GetFails
    <3> QED BY <3>1, <3>2
  <2>3. UNCHANGED <<chain, link, session, seen, listings, removed, disconnected, connected,
                    dirty, boundary, deleted, task, heard>>
    BY <1>5 DEF GetFails
  <2>4. /\ head' = head /\ entity' = entity /\ expires' = expires /\ conn' = conn
        /\ wire' = wire /\ retries' = retries /\ generation' = generation
        /\ filter' = filter /\ seen' = seen /\ listings' = listings /\ removed' = removed
        /\ disconnected' = disconnected /\ connected' = connected /\ dirty' = dirty
        /\ boundary' = boundary /\ deleted' = deleted /\ task' = task /\ heard' = heard
    BY <2>3 DEF chain, link, session
  <2> QED BY <2>1, <2>2, <2>4 DEF TypeOK, Statuses
<1> QED BY <1>2, <1>4, <1>5

LEMMA TypeStep == TypeOK /\ active <= Concurrency /\ [Next]_vars => TypeOK'
<1> SUFFICES ASSUME TypeOK, active <= Concurrency, [Next]_vars PROVE TypeOK' OBVIOUS
<1>1. CASE UNCHANGED vars
  BY <1>1 DEF vars, TypeOK, chain, link, session, marks, hydration
<1>2. CASE NewBlock BY <1>2, TypeNewBlock
<1>3. CASE (\E f \in Filters : Start(f)) \/ Stop \/ UserRefresh BY <1>3, TypeSession
<1>4. CASE \E g \in Generations : Read(g) \/ Complete(g) \/ Fail(g) BY <1>4, TypeFlight
<1>5. CASE \E i \in DOMAIN gets : GetReads(i) \/ GetAnswers(i) \/ GetFails(i)
  BY <1>5, TypeHydration
<1>6. CASE LogsAcknowledged \/ Disconnect \/ Reconnect
           \/ (\E w \in wire : OnEntity(w)) \/ (\E b \in 1 .. head : OnHead(b))
  BY <1>6, TypeStream
<1> QED BY <1>1, <1>2, <1>3, <1>4, <1>5, <1>6 DEF Next

(***************************************************************************)
(* Hydration: the counter counts the reads of this session, because the    *)
(* answers of earlier sessions are recognised by their generation.         *)
(***************************************************************************)
NoneFromLater == \A i \in DOMAIN gets : gets[i].gen <= generation
HydrationInv == HydrationBounded /\ NoneFromLater

LEMMA BoundedMeans ==
  HydrationBounded <=> /\ active = Count(gets, generation)
                       /\ active <= Concurrency /\ Len(pending) <= Backlog
                       /\ pending # <<>> => active = Concurrency
BY DEF HydrationBounded, Count, Mine

LEMMA HydrationInit == Init => HydrationInv
<1> SUFFICES ASSUME Init PROVE HydrationInv OBVIOUS
<1> USE BoardAssumptions
<1>1. /\ gets = <<>> /\ DOMAIN gets = {} /\ pending = <<>> /\ Len(pending) = 0 /\ active = 0
  BY DEF Init
<1>2. {i \in DOMAIN gets : gets[i].gen = generation} = {} BY <1>1
<1>3. Cardinality({}) = 0 BY FS_EmptySet
<1> QED BY <1>1, <1>2, <1>3 DEF HydrationInv, HydrationBounded, NoneFromLater

LEMMA HydrationSame ==
  HydrationInv /\ UNCHANGED <<hydration, generation>> => HydrationInv'
BY DEF HydrationInv, HydrationBounded, NoneFromLater, hydration

LEMMA HydrationRestart ==
  ASSUME TypeOK, HydrationInv, NEW f, NEW c, NEW s, NEW t, Restart(f, c, s, t)
  PROVE  HydrationInv'
<1> USE BoardAssumptions
<1>1. /\ generation' = generation + 1 /\ gets' = gets /\ active' = 0
      /\ pending' = <<>> /\ Len(pending') = 0
  BY DEF Restart
<1>2. generation \in Nat BY FilterNat
<1>3. ASSUME NEW i \in DOMAIN gets' PROVE gets'[i].gen <= generation /\ gets'[i].gen \in Nat
  <2>1. gets \in Seq(Get) /\ i \in 1 .. Len(gets) BY <1>1, LenProperties DEF TypeOK
  <2>2. gets[i] \in Get BY <2>1, ElementOfSeq
  <2>3. gets[i].gen <= generation BY <1>1 DEF HydrationInv, NoneFromLater
  <2> QED BY <1>1, <2>2, <2>3 DEF Get
<1>4. Mine(gets', generation') = {} BY <1>1, <1>2, <1>3 DEF Mine
<1>5. Count(gets', generation') = 0 BY <1>4, FS_EmptySet DEF Count
<1>6. HydrationBounded' BY <1>1, <1>5 DEF HydrationBounded, Count, Mine
<1>7. NoneFromLater' BY <1>1, <1>2, <1>3 DEF NoneFromLater
<1> QED BY <1>6, <1>7 DEF HydrationInv

\* What Pump does to the reads keeps the count.
LEMMA HydrationPump ==
  ASSUME TypeOK, generation' = generation,
         NEW ks \in Seq(Keys), NEW n \in Int, n <= Concurrency, NEW others \in Seq(Get),
         Len(ks) <= Backlog, Count(others, generation) = n,
         \A i \in DOMAIN others : others[i].gen <= generation,
         Pump(ks, n, others)
  PROVE  HydrationInv'
<1> USE BoardAssumptions
<1>1. generation \in Nat BY FilterNat
<1>2. /\ pending' \in Seq(Keys) /\ Len(pending') <= Len(ks)
      /\ active' \in Int /\ active' <= Concurrency
      /\ pending' # <<>> => active' = Concurrency
      /\ gets' \in Seq(Get)
      /\ Count(gets', generation) - Count(others, generation) = active' - n
      /\ \A i \in DOMAIN gets' : gets'[i].gen = generation
                \/ \E j \in DOMAIN others : gets'[i] = others[j]
  BY <1>1, PumpWorks
<1>3. Count(gets', generation) \in Nat BY <1>2, CountNat
<1>4. Count(gets', generation') = active' BY <1>2, <1>3
<1>5. Len(pending') <= Backlog BY <1>2, LenProperties
<1>6. HydrationBounded' BY <1>2, <1>4, <1>5 DEF HydrationBounded, Count, Mine
<1>7. NoneFromLater' BY <1>1, <1>2 DEF NoneFromLater
<1> QED BY <1>6, <1>7 DEF HydrationInv

LEMMA HydrationGets ==
  ASSUME TypeOK, HydrationInv, NEW i \in DOMAIN gets,
         GetReads(i) \/ GetAnswers(i) \/ GetFails(i)
  PROVE  HydrationInv'
<1> USE BoardAssumptions
<1> DEFINE others == RemoveAt(gets, i)
<1>1. /\ gets \in Seq(Get) /\ DOMAIN gets = 1 .. Len(gets) /\ gets[i] \in Get
      /\ active \in Int /\ pending \in Seq(Keys) /\ generation \in Nat
  BY LenProperties, ElementOfSeq, FilterNat DEF TypeOK
<1>2. generation' = generation BY DEF GetReads, GetAnswers, GetFails, session
<1>3. CASE GetReads(i)
  <2>1. /\ DOMAIN gets' = DOMAIN gets /\ UNCHANGED <<pending, active>>
        /\ \A j \in DOMAIN gets : gets'[j].gen = gets[j].gen
    BY <1>1, <1>3 DEF GetReads, Get
  <2>2. Mine(gets', generation') = Mine(gets, generation) BY <1>2, <2>1 DEF Mine
  <2>3. HydrationBounded' BY <2>1, <2>2 DEF HydrationInv, HydrationBounded, Mine
  <2> QED BY <1>2, <2>1, <2>3 DEF HydrationInv, NoneFromLater
<1>4. /\ others \in Seq(Get)
      /\ \A g : Count(others, g) = Count(gets, g) - (IF gets[i].gen = g THEN 1 ELSE 0)
  BY <1>1, CountRemove
<1>5. \A j \in DOMAIN others : others[j].gen <= generation
  <2>1. \A j \in 1 .. Len(gets) : gets[j].gen <= generation
    BY <1>1 DEF HydrationInv, NoneFromLater
  <2> DEFINE Old == {x \in Get : x.gen <= generation}
  <2>2. \A j \in 1 .. Len(gets) : gets[j] \in Old BY <1>1, <2>1, ElementOfSeq
  <2>3. SubSeq(gets, 1, i - 1) \in Seq(Old) /\ SubSeq(gets, i + 1, Len(gets)) \in Seq(Old)
    <3>1. Len(gets) \in Nat /\ i \in 1 .. Len(gets) BY <1>1, LenProperties
    <3> HIDE DEF Old
    <3>2. SubSeq(gets, 1, i - 1) \in Seq(Old) BY <2>2, <3>1, SubSeqProperties
    <3>3. SubSeq(gets, i + 1, Len(gets)) \in Seq(Old) BY <2>2, <3>1, SubSeqProperties
    <3> QED BY <3>2, <3>3
  <2>4. others \in Seq(Old)
    <3> HIDE DEF Old
    <3> QED BY <2>3, ConcatProperties DEF RemoveAt
  <2>5. \A j \in DOMAIN others : others[j] \in Old
    <3> HIDE DEF Old, others
    <3> QED BY <2>4, LenProperties, ElementOfSeq
  <2> QED BY <2>5
<1>6. CASE GetAnswers(i) \/ GetFails(i)
  <2>1. /\ active = Count(gets, generation) /\ active <= Concurrency
        /\ Len(pending) <= Backlog /\ (pending # <<>> => active = Concurrency)
    BY BoundedMeans DEF HydrationInv
  <2>2. CASE Current(gets[i].gen)
    <3>1. Pump(pending, active - 1, others) BY <1>6, <2>2 DEF GetAnswers, GetFails
    <3>2. gets[i].gen = generation BY <2>2 DEF Current
    <3>3. Count(others, generation) = active - 1 BY <1>1, <1>4, <2>1, <3>2
    <3>4. active - 1 <= Concurrency /\ active - 1 \in Int BY <1>1, <2>1
    <3> HIDE DEF others
    <3> QED BY <1>1, <1>2, <1>4, <1>5, <2>1, <3>1, <3>3, <3>4, HydrationPump
  <2>3. CASE ~Current(gets[i].gen)
    <3>1. gets' = others /\ UNCHANGED <<pending, active>> BY <1>6, <2>3 DEF GetAnswers, GetFails
    <3>2. gets[i].gen # generation BY <2>3 DEF Current
    <3>3. Count(gets, generation) \in Nat BY <1>1, CountNat
    <3>4. Count(others, generation) = active BY <1>4, <2>1, <3>2, <3>3
    <3> HIDE DEF others
    <3>5. HydrationBounded' BY <1>2, <2>1, <3>1, <3>4 DEF HydrationBounded, Count, Mine
    <3>6. NoneFromLater' BY <1>2, <1>5, <3>1 DEF NoneFromLater
    <3> QED BY <3>5, <3>6 DEF HydrationInv
  <2> QED BY <2>2, <2>3
<1> QED BY <1>3, <1>6

LEMMA HydrationEntity ==
  ASSUME TypeOK, HydrationInv, NEW w \in wire, OnEntity(w)
  PROVE  HydrationInv'
<1> USE BoardAssumptions
<1>1. /\ gets \in Seq(Get) /\ active \in Int /\ pending \in Seq(Keys) /\ w[1] \in Keys
      /\ generation' = generation
  BY DEF OnEntity, TypeOK, session
<1>2. /\ active = Count(gets, generation) /\ active <= Concurrency /\ Len(pending) <= Backlog
      /\ NoneFromLater
  BY BoundedMeans DEF HydrationInv
<1>3. CASE EntityShown(w[1]) BY <1>1, <1>3, HydrationSame DEF EntityShown
<1>4. CASE EntityOverflows(w[1])
  <2>1. pending' = <<>> /\ Len(pending') = 0 /\ UNCHANGED <<active, gets>>
    BY <1>4 DEF EntityOverflows
  <2> QED BY <1>1, <1>2, <2>1 DEF HydrationInv, HydrationBounded, NoneFromLater, Count, Mine
<1>5. CASE EntityQueued(w[1])
  <2>1. Len(pending) < Backlog /\ Len(pending) \in Nat
    BY <1>1, <1>5, LenProperties DEF EntityQueued, Full
  <2>2. PICK ks \in Seq(Keys) : Pump(ks, active, gets) /\ Len(ks) <= Backlog
    <3>1. /\ Append(pending, w[1]) \in Seq(Keys)
          /\ Len(Append(pending, w[1])) = Len(pending) + 1
      BY <1>1, AppendProperties
    <3> DEFINE ks == IF Contains(pending, w[1]) THEN pending ELSE Append(pending, w[1])
    <3>2. ks \in Seq(Keys) /\ Len(ks) <= Backlog BY <1>1, <2>1, <3>1
    <3>3. Pump(ks, active, gets) BY <1>5 DEF EntityQueued
    <3> HIDE DEF ks
    <3> QED BY <3>2, <3>3
  <2> QED BY <1>1, <1>2, <2>2, HydrationPump DEF NoneFromLater
<1> QED BY <1>3, <1>4, <1>5 DEF OnEntity

LEMMA HydrationStep == TypeOK /\ HydrationInv /\ [Next]_vars => HydrationInv'
<1> SUFFICES ASSUME TypeOK, HydrationInv, [Next]_vars PROVE HydrationInv' OBVIOUS
<1>1. CASE UNCHANGED <<hydration, generation>> BY <1>1, HydrationSame
<1>2. CASE UNCHANGED vars BY <1>1, <1>2 DEF vars, hydration, session
<1>3. CASE NewBlock BY <1>1, <1>3 DEF NewBlock, session
<1>4. CASE (\E f \in Filters : Start(f)) \/ Stop
  BY <1>4, HydrationRestart DEF Start, Stop
<1>5. CASE UserRefresh BY <1>1, <1>5 DEF UserRefresh, session
<1>6. CASE \E g \in Generations : Read(g) \/ Complete(g) \/ Fail(g)
  BY <1>1, <1>6 DEF Read, Complete, Fail, session
<1>7. CASE \E i \in DOMAIN gets : GetReads(i) \/ GetAnswers(i) \/ GetFails(i)
  BY <1>7, HydrationGets
<1>8. CASE LogsAcknowledged \/ Disconnect \/ Reconnect
  BY <1>1, <1>8 DEF LogsAcknowledged, Disconnect, Reconnect, session
<1>9. CASE \E w \in wire : OnEntity(w) BY <1>9, HydrationEntity
<1>10. CASE \E b \in 1 .. head : OnHead(b) BY <1>1, <1>10 DEF OnHead, session
<1> QED BY <1>2, <1>3, <1>4, <1>5, <1>6, <1>7, <1>8, <1>9, <1>10 DEF Next

(***************************************************************************)
(* A live board is connected: only a head makes the board connected, and   *)
(* only a connection that is up delivers heads.                            *)
(***************************************************************************)
LiveInv == LiveIsConnected /\ (connected /\ ~disconnected => conn = "up")

LEMMA LiveStep == LiveInv /\ [Next]_vars => LiveInv'
<1> SUFFICES ASSUME LiveInv, [Next]_vars PROVE LiveInv' OBVIOUS
<1> USE DEF LiveInv, LiveIsConnected
<1>1. CASE UNCHANGED <<conn, status, connected, disconnected>> BY <1>1
<1>2. CASE UNCHANGED vars BY <1>1, <1>2 DEF vars, link, marks
<1>3. CASE NewBlock BY <1>1, <1>3 DEF NewBlock, marks
<1>4. CASE (\E f \in Filters : Start(f)) \/ Stop BY <1>4 DEF Start, Stop, Restart
<1>5. CASE UserRefresh BY <1>1, <1>5 DEF UserRefresh, link, marks
<1>6. ASSUME NEW g \in Generations, Read(g) PROVE LiveInv'
  BY <1>1, <1>6 DEF Read, link, marks
<1>7. ASSUME NEW g \in Generations, Complete(g) \/ Fail(g) PROVE LiveInv'
  <2>1. UNCHANGED <<conn, connected, disconnected>>
    BY <1>7 DEF Complete, Fail, Paint, Abandon, link, marks
  <2>2. status' = status \/ status' = "stale" \/ status' = "error" \/ status' = Health
    BY <1>7 DEF Complete, Fail, Paint, Abandon, NextRound
  <2> QED BY <2>1, <2>2 DEF Health
<1>8. ASSUME NEW i \in DOMAIN gets, GetReads(i) \/ GetAnswers(i) \/ GetFails(i) PROVE LiveInv'
  <2>1. UNCHANGED <<conn, connected, disconnected>>
    BY <1>8 DEF GetReads, GetAnswers, GetFails, link, marks
  <2>2. status' = status \/ status' = "stale" BY <1>8 DEF GetReads, GetAnswers, GetFails
  <2> QED BY <2>1, <2>2
<1>9. CASE LogsAcknowledged \/ Reconnect
  BY <1>9 DEF LogsAcknowledged, Reconnect, marks
<1>10. CASE Disconnect BY <1>10 DEF Disconnect
<1>11. ASSUME NEW w \in wire, OnEntity(w) PROVE LiveInv'
  <2>1. UNCHANGED <<conn, connected, disconnected>> BY <1>11 DEF OnEntity, marks
  <2>2. status' = status \/ status' = "stale"
    BY <1>11 DEF OnEntity, EntityShown, EntityOverflows, EntityQueued
  <2> QED BY <2>1, <2>2
<1>12. CASE \E b \in 1 .. head : OnHead(b) BY <1>12 DEF OnHead
<1> QED BY <1>2, <1>3, <1>4, <1>5, <1>6, <1>7, <1>8, <1>9, <1>10, <1>11, <1>12 DEF Next

(***************************************************************************)
(* Only this filter: the flight of the present generation asks for the     *)
(* present filter, and older flights paint nothing.                        *)
(***************************************************************************)
Accepts(ls) == \A x \in ls : RewardOf[x.key] >= filter

FlightInv ==
    task[generation].step # "idle" =>
        /\ filter # NoFilter
        /\ task[generation].filter = filter
        /\ task[generation].step = "read" => Accepts(task[generation].found)

StoppedInv ==
    filter = NoFilter =>
        /\ conn = "off" /\ listings = {}
        /\ \A i \in DOMAIN gets : gets[i].gen # generation

FilterInv == Accepts(listings) /\ FlightInv /\ StoppedInv

LEMMA FilterImplies == FilterInv => OnlyThisFilter
BY DEF FilterInv, StoppedInv, Accepts, OnlyThisFilter

\* What a refresh, and what painting or failing, leave behind.
LEMMA RefreshKeepsFlight ==
  ASSUME TypeOK, FlightInv, Refresh \/ UNCHANGED task, filter # NoFilter,
         UNCHANGED <<generation, filter>>
  PROVE  FlightInv'
<1>1. task \in [Generations -> Task] /\ generation \in Generations BY DEF TypeOK
<1>2. CASE UNCHANGED task BY <1>2 DEF FlightInv, Accepts
<1>3. CASE task' = [task EXCEPT ![generation] = Asked(filter, 1)]
  <2>1. task'[generation] = Asked(filter, 1) BY <1>1, <1>3
  <2> QED BY <2>1 DEF FlightInv, Asked, Idle
<1> QED BY <1>2, <1>3 DEF Refresh

LEMMA RoundKeepsFlight ==
  ASSUME TypeOK, FlightInv, task[generation].step # "idle", UNCHANGED <<generation, filter>>,
         NEW s, NEW d, NEW r, NextRound(generation, s, d, r)
  PROVE  FlightInv'
<1>1. task \in [Generations -> Task] /\ generation \in Generations BY DEF TypeOK
<1>2. CASE task' = [task EXCEPT ![generation] = Asked(@.filter, @.round + 1)]
  <2>1. task'[generation] = Asked(task[generation].filter, task[generation].round + 1)
    BY <1>1, <1>2
  <2> QED BY <2>1 DEF FlightInv, Asked, Idle
<1>3. CASE task' = [task EXCEPT ![generation] = Idle]
  <2>1. task'[generation] = Idle BY <1>1, <1>3
  <2> QED BY <2>1 DEF FlightInv, Idle
<1> QED BY <1>2, <1>3 DEF NextRound

LEMMA FilterFlight ==
  ASSUME TypeOK, FilterInv, NEW g \in Generations, Read(g) \/ Complete(g) \/ Fail(g)
  PROVE  FilterInv'
<1>1. task \in [Generations -> Task] /\ generation \in Generations BY DEF TypeOK
<1>2. UNCHANGED <<generation, filter, conn, gets>>
  BY DEF Read, Complete, Fail, session, link, hydration
<1>3. CASE g # generation
  <2>1. UNCHANGED listings /\ task'[generation] = task[generation]
    BY <1>1, <1>3 DEF Read, Complete, Fail, Current, Abandon
  <2> QED BY <1>2, <2>1 DEF FilterInv, FlightInv, StoppedInv, Accepts
<1>4. CASE g = generation /\ Read(g)
  <2>1. PICK s \in Answers(filter) :
           task' = [task EXCEPT ![g].step = "read", ![g].block = head, ![g].found = s]
    BY <1>4 DEF Read, FilterInv, FlightInv
  <2>2. /\ task'[generation].filter = task[generation].filter
        /\ task'[generation].found = s
    BY <1>1, <1>4, <2>1 DEF Task
  <2>3. \A x \in s : RewardOf[x.key] >= filter BY DEF Answers, Matching
  <2>4. FlightInv' BY <1>2, <1>4, <2>2, <2>3 DEF Read, FilterInv, FlightInv, Accepts
  <2>5. UNCHANGED listings BY <1>4 DEF Read
  <2> QED BY <1>2, <2>4, <2>5 DEF FilterInv, StoppedInv, Accepts
<1>5. CASE g = generation /\ Complete(g)
  <2>1. Paint(g) /\ task[generation].step = "read" BY <1>5 DEF Complete, Current
  <2>2. filter # NoFilter BY <2>1 DEF FilterInv, FlightInv
  <2>3. Accepts(listings)' BY <1>2, <1>5, <2>1 DEF Paint, FilterInv, FlightInv, Accepts
  <2>4. FlightInv' BY <1>2, <1>5, <2>1, RoundKeepsFlight DEF Paint, FilterInv
  <2> QED BY <1>2, <2>2, <2>3, <2>4 DEF FilterInv, StoppedInv
<1>6. CASE g = generation /\ Fail(g)
  <2>1. /\ task[generation].step # "idle" /\ NextRound(generation, "error", dirty, TRUE)
        /\ UNCHANGED listings
    BY <1>6 DEF Fail, Current
  <2>2. FlightInv' BY <1>2, <2>1, RoundKeepsFlight DEF FilterInv
  <2> QED BY <1>2, <2>1, <2>2 DEF FilterInv, StoppedInv, Accepts
<1> QED BY <1>3, <1>4, <1>5, <1>6

LEMMA FilterRestart ==
  ASSUME TypeOK, NoneFromLater, (\E f \in Filters : Start(f)) \/ Stop
  PROVE  FilterInv'
<1> USE BoardAssumptions
<1>1. generation \in Nat /\ gets \in Seq(Get) BY FilterNat DEF TypeOK
<1>2. /\ generation' = generation + 1 /\ listings' = {} /\ UNCHANGED gets
      /\ generation + 1 \in Generations
  BY <1>1 DEF Start, Stop, Restart, Generations
<1>3. task \in [Generations -> Task] BY DEF TypeOK
<1>4. \A i \in DOMAIN gets' : gets'[i].gen # generation'
  <2> TAKE i \in DOMAIN gets'
  <2>1. i \in 1 .. Len(gets) BY <1>1, <1>2, LenProperties
  <2>2. gets[i] \in Get BY <1>1, <2>1, ElementOfSeq
  <2>3. gets[i].gen <= generation /\ gets[i].gen \in Nat BY <1>2, <2>2 DEF NoneFromLater, Get
  <2> QED BY <1>1, <1>2, <2>3
<1>5. CASE Stop
  <2>1. conn' = "off" /\ filter' = NoFilter /\ task'[generation'] = Idle
    BY <1>2, <1>3, <1>5 DEF Stop, Restart
  <2> QED BY <1>2, <1>4, <2>1 DEF FilterInv, FlightInv, StoppedInv, Accepts, Idle
<1>6. ASSUME NEW f \in Filters, Start(f) PROVE FilterInv'
  <2>1. filter' = f /\ f # NoFilter /\ task'[generation'] = Asked(f, 1)
    BY <1>2, <1>3, <1>6 DEF Start, Restart, NoFilter
  <2> QED BY <1>2, <2>1 DEF FilterInv, FlightInv, StoppedInv, Accepts, Asked, Idle
<1> QED BY <1>5, <1>6

LEMMA FilterStep == TypeOK /\ NoneFromLater /\ FilterInv /\ [Next]_vars => FilterInv'
<1> SUFFICES ASSUME TypeOK, NoneFromLater, FilterInv, [Next]_vars PROVE FilterInv' OBVIOUS
<1> USE BoardAssumptions
\* A step that keeps the session and the listings, on a board that is not stopped.
<1>0. ASSUME Refresh \/ UNCHANGED task, filter # NoFilter, UNCHANGED <<session, listings>>
      PROVE  FilterInv'
  BY <1>0, RefreshKeepsFlight DEF FilterInv, StoppedInv, Accepts, session
\* ... and one that touches neither the task nor what a stopped board may not have.
<1>1. ASSUME UNCHANGED <<session, listings, task, gets>>, conn = "off" => conn' = "off"
      PROVE  FilterInv'
  BY <1>1 DEF FilterInv, FlightInv, StoppedInv, Accepts, session
<1>2. CASE UNCHANGED vars BY <1>1, <1>2 DEF vars, link, hydration
<1>3. CASE NewBlock BY <1>1, <1>3 DEF NewBlock, hydration
<1>4. CASE (\E f \in Filters : Start(f)) \/ Stop BY <1>4, FilterRestart
<1>5. CASE UserRefresh BY <1>0, <1>5 DEF UserRefresh
<1>6. CASE \E g \in Generations : Read(g) \/ Complete(g) \/ Fail(g) BY <1>6, FilterFlight
<1>7. ASSUME NEW i \in DOMAIN gets, GetReads(i) PROVE FilterInv'
  <2>1. gets \in Seq(Get) /\ gets[i] \in Get BY LenProperties, ElementOfSeq DEF TypeOK
  <2>2. DOMAIN gets' = DOMAIN gets /\ \A j \in DOMAIN gets : gets'[j].gen = gets[j].gen
    BY <1>7, <2>1 DEF GetReads, Get
  <2>3. UNCHANGED <<generation, filter, listings, task, conn>>
    BY <1>7 DEF GetReads, session, link
  <2> QED BY <2>2, <2>3 DEF FilterInv, FlightInv, StoppedInv, Accepts
<1>8. ASSUME NEW i \in DOMAIN gets, GetAnswers(i) \/ GetFails(i) PROVE FilterInv'
  <2>1. CASE filter # NoFilter BY <1>0, <1>8, <2>1 DEF GetAnswers, GetFails
  <2>2. CASE filter = NoFilter
    <3>1. ~Current(gets[i].gen) BY <2>2 DEF Current, FilterInv, StoppedInv
    <3>2. gets' = RemoveAt(gets, i) /\ UNCHANGED <<task, session, listings, conn>>
      BY <1>8, <3>1 DEF GetAnswers, GetFails, link
    <3>3. gets \in Seq(Get) /\ generation \in Nat BY FilterNat DEF TypeOK
    <3>4. /\ RemoveAt(gets, i) \in Seq(Get)
          /\ \A g : Count(RemoveAt(gets, i), g)
                      = Count(gets, g) - (IF gets[i].gen = g THEN 1 ELSE 0)
      BY <3>3, CountRemove
    <3>5. Mine(gets, generation) = {} BY <2>2 DEF Mine, FilterInv, StoppedInv
    <3>6. Count(gets, generation) = 0 BY <3>5, FS_EmptySet DEF Count
    <3>7. gets[i].gen # generation BY <3>1 DEF Current
    <3>8. Count(RemoveAt(gets, i), generation) = 0 BY <3>4, <3>6, <3>7
    <3>9. IsFiniteSet(Mine(RemoveAt(gets, i), generation)) BY <3>4, CountNat
    <3>10. Mine(RemoveAt(gets, i), generation) = {} BY <3>8, <3>9, FS_EmptySet DEF Count
    <3>11. \A j \in DOMAIN gets' : gets'[j].gen # generation BY <3>2, <3>10 DEF Mine
    <3> QED BY <3>2, <3>11 DEF FilterInv, FlightInv, StoppedInv, Accepts, session
  <2> QED BY <2>1, <2>2
<1>9. CASE LogsAcknowledged \/ Disconnect \/ Reconnect
  BY <1>1, <1>9 DEF LogsAcknowledged, Disconnect, Reconnect, hydration
<1>10. ASSUME NEW w \in wire, OnEntity(w) PROVE FilterInv'
  <2>1. filter # NoFilter BY <1>10 DEF OnEntity, FilterInv, StoppedInv
  <2>2. Refresh \/ UNCHANGED task
    BY <1>10 DEF OnEntity, EntityShown, EntityOverflows, EntityQueued
  <2> QED BY <1>0, <1>10, <2>1, <2>2 DEF OnEntity
<1>11. ASSUME NEW b \in 1 .. head, OnHead(b) PROVE FilterInv'
  <2>1. filter # NoFilter BY <1>11 DEF OnHead, FilterInv, StoppedInv
  <2>2. Refresh \/ UNCHANGED task BY <1>11 DEF OnHead
  <2> QED BY <1>0, <1>11, <2>1, <2>2 DEF OnHead
<1> QED BY <1>2, <1>3, <1>4, <1>5, <1>6, <1>7, <1>8, <1>9, <1>10, <1>11 DEF Next

(***************************************************************************)
(* Deletions: a listing whose deletion was heard is either still in        *)
(* deleted, or gone from the board and from the snapshot on its way.       *)
(***************************************************************************)
DeletedOnChain ==
    /\ \A k \in heard : entity[k] = "deleted"
    /\ \A w \in wire : w[2] = "deleted" => entity[w[1]] = "deleted"

Forgotten ==
    \A k \in heard \ deleted :
        /\ k \notin KeysOf(listings)
        /\ task[generation].step = "read" => k \notin KeysOf(task[generation].found)

RemovedIsGone == KeysOf(removed) \intersect KeysOf(listings) = {}

DeletionInv == DeletionIsNotExpiry /\ DeletedOnChain /\ Forgotten /\ RemovedIsGone

LEMMA RefreshForgets ==
  ASSUME TypeOK, DeletionInv, Refresh \/ UNCHANGED task,
         UNCHANGED <<generation, listings>>,
         heard' \ deleted' = heard \ deleted
  PROVE  Forgotten'
<1>1. task \in [Generations -> Task] /\ generation \in Generations BY DEF TypeOK
<1>2. CASE UNCHANGED task BY <1>2 DEF DeletionInv, Forgotten
<1>3. CASE task' = [task EXCEPT ![generation] = Asked(filter, 1)]
  <2>1. task'[generation].step = "asked" BY <1>1, <1>3 DEF Asked, Idle
  <2> QED BY <2>1 DEF DeletionInv, Forgotten
<1> QED BY <1>2, <1>3 DEF Refresh

\* A fresh board has heard of nothing and shows nothing.
LEMMA DeletionFresh ==
  heard = {} /\ wire = {} /\ removed = {} /\ listings = {} => DeletionInv
<1> SUFFICES ASSUME heard = {}, wire = {}, removed = {}, listings = {} PROVE DeletionInv OBVIOUS
<1>1. DeletionIsNotExpiry BY DEF DeletionIsNotExpiry
<1>2. DeletedOnChain BY DEF DeletedOnChain
<1>3. Forgotten BY DEF Forgotten
<1>4. RemovedIsGone BY DEF RemovedIsGone, KeysOf
<1> QED BY <1>1, <1>2, <1>3, <1>4 DEF DeletionInv

LEMMA DeletionBlock == DeletionInv /\ TypeOK /\ NewBlock => DeletionInv'
<1> SUFFICES ASSUME DeletionInv, TypeOK, NewBlock PROVE DeletionInv' OBVIOUS
<1>1. UNCHANGED <<generation, listings, removed, deleted, task, heard>>
  BY DEF NewBlock, session
<1>2. DeletedOnChain'
  <2>1. entity \in [Keys -> {"future", "listed", "deleted"}] /\ heard \subseteq Keys
        /\ \A w \in wire : w[1] \in Keys
    BY DEF TypeOK
  <2>2. CASE UNCHANGED <<entity, expires, wire>>
    BY <1>1, <2>2 DEF DeletionInv, DeletedOnChain
  <2>3. ASSUME NEW k \in Keys, Create(k) \/ Extend(k) \/ Delete(k) PROVE DeletedOnChain'
    <3>1. \A j \in Keys : entity[j] = "deleted" => entity'[j] = "deleted"
      BY <2>1, <2>3 DEF Create, Extend, Delete
    <3>2. ASSUME NEW w \in wire', w[2] = "deleted" PROVE entity'[w[1]] = "deleted"
      <4>1. CASE w \in wire BY <2>1, <3>1, <3>2, <4>1 DEF DeletionInv, DeletedOnChain
      <4>2. CASE w \notin wire
        <5>1. w = <<k, "deleted">> /\ Delete(k)
          BY <2>3, <3>2, <4>2 DEF Create, Extend, Delete, Announce
        <5> QED BY <2>1, <5>1 DEF Delete
      <4> QED BY <4>1, <4>2
    <3> QED BY <1>1, <2>1, <3>1, <3>2 DEF DeletionInv, DeletedOnChain
  <2> QED BY <2>2, <2>3 DEF NewBlock
<1> QED BY <1>1, <1>2 DEF DeletionInv, DeletionIsNotExpiry, Forgotten, RemovedIsGone

LEMMA RoundLeavesRead ==
  ASSUME TypeOK, NEW s, NEW d, NEW r, NextRound(generation, s, d, r)
  PROVE  task'[generation].step # "read"
<1>1. task \in [Generations -> Task] /\ generation \in Generations BY DEF TypeOK
<1>2. CASE task' = [task EXCEPT ![generation] = Asked(@.filter, @.round + 1)]
  <2>1. task'[generation] = Asked(task[generation].filter, task[generation].round + 1)
    BY <1>1, <1>2
  <2> QED BY <2>1 DEF Asked, Idle
<1>3. CASE task' = [task EXCEPT ![generation] = Idle]
  <2>1. task'[generation] = Idle BY <1>1, <1>3
  <2> QED BY <2>1 DEF Idle
<1> QED BY <1>2, <1>3 DEF NextRound

LEMMA DeletionFlight ==
  ASSUME TypeOK, DeletionInv, NEW g \in Generations, Read(g) \/ Complete(g) \/ Fail(g)
  PROVE  DeletionInv'
<1>1. /\ task \in [Generations -> Task] /\ generation \in Generations
      /\ heard \subseteq Keys
  BY DEF TypeOK
<1>2. UNCHANGED <<generation, entity, wire, heard>>
  BY DEF Read, Complete, Fail, session, chain, link
<1>3. DeletedOnChain' BY <1>2 DEF DeletionInv, DeletedOnChain
<1>4. CASE g # generation
  <2>1. UNCHANGED <<listings, removed, deleted>> /\ task'[generation] = task[generation]
    BY <1>1, <1>4 DEF Read, Complete, Fail, Current, Abandon
  <2> QED BY <1>2, <1>3, <2>1 DEF DeletionInv, DeletionIsNotExpiry, Forgotten, RemovedIsGone
<1>5. CASE g = generation /\ Read(g)
  <2>1. PICK s \in Answers(task[g].filter) :
           task' = [task EXCEPT ![g].step = "read", ![g].block = head, ![g].found = s]
    BY <1>5 DEF Read
  <2>2. task'[generation].found = s BY <1>1, <1>5, <2>1 DEF Task
  <2>3. \A x \in s : entity[x.key] = "listed" BY DEF Answers, Matching, Alive
  <2>4. \A k \in heard : k \notin KeysOf(s)
    BY <2>3 DEF DeletionInv, DeletedOnChain, KeysOf
  <2>5. UNCHANGED <<listings, removed, deleted>> BY <1>5 DEF Read
  <2> QED BY <1>2, <1>3, <2>2, <2>4, <2>5
          DEF DeletionInv, DeletionIsNotExpiry, Forgotten, RemovedIsGone
<1>6. CASE g = generation /\ Complete(g)
  <2> DEFINE found == task[g].found
  <2>1. Paint(g) /\ task[g].step = "read" BY <1>6 DEF Complete, Current
  <2>2. /\ listings' = found /\ deleted' = deleted \intersect KeysOf(found)
        /\ removed' = {[key |-> x.key, reason |-> Reason(x, task[g].block)] :
                           x \in {x \in listings : x.key \notin KeysOf(found)}}
    BY <2>1 DEF Paint, StillDeleted
  <2>3. task'[generation].step # "read"
    BY <1>6, <2>1, RoundLeavesRead DEF Paint
  <2> HIDE DEF found
  <2>4. \A k \in heard \ deleted : k \notin KeysOf(found)
    BY <1>6, <2>1 DEF DeletionInv, Forgotten, found
  <2>5. Forgotten' BY <1>2, <2>2, <2>3, <2>4 DEF Forgotten
  <2>6. RemovedIsGone' BY <2>2 DEF RemovedIsGone, KeysOf
  <2>7. DeletionIsNotExpiry'
    <3> SUFFICES ASSUME NEW x \in listings, x.key \notin KeysOf(found), x.key \in heard
                 PROVE  Reason(x, task[g].block) = "no-longer-listed"
      BY <1>2, <2>2 DEF DeletionIsNotExpiry
    <3>1. x.key \in deleted BY DEF DeletionInv, Forgotten, KeysOf
    <3> QED BY <3>1 DEF Reason
  <2> QED BY <1>3, <2>5, <2>6, <2>7 DEF DeletionInv
<1>7. CASE g = generation /\ Fail(g)
  <2>1. /\ NextRound(generation, "error", dirty, TRUE)
        /\ UNCHANGED <<listings, deleted>> /\ removed' = {}
    BY <1>7 DEF Fail, Current
  <2>2. task'[generation].step # "read"
    BY <2>1, RoundLeavesRead
  <2>3. Forgotten' BY <1>2, <2>1, <2>2 DEF DeletionInv, Forgotten
  <2> QED BY <1>3, <2>1, <2>3 DEF DeletionInv, DeletionIsNotExpiry, RemovedIsGone, KeysOf
<1> QED BY <1>4, <1>5, <1>6, <1>7

LEMMA DeletionEntity ==
  ASSUME TypeOK, DeletionInv, NEW w \in wire, OnEntity(w)
  PROVE  DeletionInv'
<1> DEFINE announced == IF w[2] = "deleted" /\ w[1] \in KeysOf(listings) THEN {w[1]} ELSE {}
<1>1. /\ UNCHANGED <<generation, entity, listings, removed>>
      /\ wire' \subseteq wire
      /\ deleted' = deleted \union announced /\ heard' = heard \union announced
  BY DEF OnEntity, chain, session
<1>2. DeletedOnChain' BY <1>1 DEF DeletionInv, DeletedOnChain
<1>3. heard' \ deleted' = heard \ deleted
  <2>1. announced \intersect heard \subseteq deleted
    BY DEF DeletionInv, Forgotten
  <2> HIDE DEF announced
  <2> QED BY <1>1, <2>1
<1>4. Refresh \/ UNCHANGED task BY DEF OnEntity, EntityShown, EntityOverflows, EntityQueued
<1>5. Forgotten' BY <1>1, <1>3, <1>4, RefreshForgets
<1>6. DeletionIsNotExpiry'
  <2>1. ASSUME NEW x \in removed, x.key \in announced PROVE FALSE
    BY <2>1 DEF DeletionInv, RemovedIsGone, KeysOf
  <2> HIDE DEF announced
  <2> QED BY <1>1, <2>1 DEF DeletionInv, DeletionIsNotExpiry
<1> QED BY <1>1, <1>2, <1>5, <1>6 DEF DeletionInv, RemovedIsGone

LEMMA DeletionStep == TypeOK /\ DeletionInv /\ [Next]_vars => DeletionInv'
<1> SUFFICES ASSUME TypeOK, DeletionInv, [Next]_vars PROVE DeletionInv' OBVIOUS
\* A step that leaves the chain, the board's picture and what was heard alone.
<1>0. ASSUME Refresh \/ UNCHANGED task,
             UNCHANGED <<generation, listings, removed, deleted, heard, entity>>,
             wire' \subseteq wire
      PROVE  DeletionInv'
  <2>1. Forgotten' BY <1>0, RefreshForgets
  <2> QED BY <1>0, <2>1 DEF DeletionInv, DeletionIsNotExpiry, DeletedOnChain, RemovedIsGone
<1>1. CASE UNCHANGED vars BY <1>0, <1>1 DEF vars, chain, link, session
<1>2. CASE NewBlock BY <1>2, DeletionBlock
<1>3. CASE (\E f \in Filters : Start(f)) \/ Stop
  <2>1. /\ heard' = {} /\ wire' = {} /\ removed' = {} /\ listings' = {}
    BY <1>3 DEF Start, Stop, Restart
  <2>2. (heard = {} /\ wire = {} /\ removed = {} /\ listings = {} => DeletionInv)'
    BY DeletionFresh, PTL
  <2> QED BY <2>1, <2>2
<1>4. CASE UserRefresh BY <1>0, <1>4 DEF UserRefresh, chain, link, session
<1>5. CASE \E g \in Generations : Read(g) \/ Complete(g) \/ Fail(g) BY <1>5, DeletionFlight
<1>6. CASE \E i \in DOMAIN gets : GetReads(i) \/ GetAnswers(i) \/ GetFails(i)
  BY <1>0, <1>6 DEF GetReads, GetAnswers, GetFails, chain, link, session
<1>7. CASE LogsAcknowledged \/ Reconnect
  BY <1>0, <1>7 DEF LogsAcknowledged, Reconnect, chain, session
<1>8. CASE Disconnect BY <1>0, <1>8 DEF Disconnect, chain, session
<1>9. CASE \E w \in wire : OnEntity(w) BY <1>9, DeletionEntity
<1>10. CASE \E b \in 1 .. head : OnHead(b) BY <1>0, <1>10 DEF OnHead, chain, session
<1> QED BY <1>1, <1>2, <1>3, <1>4, <1>5, <1>6, <1>7, <1>8, <1>9, <1>10 DEF Next

(***************************************************************************)
(* Nothing missed: as long as the snapshot the board has, or is about to   *)
(* paint, lacks something, either a query is due or word of it is on its   *)
(* way.                                                                    *)
(***************************************************************************)

\* The snapshot on its way, or else the one that is shown.
Snapshot == IF task[generation].step = "read" THEN task[generation].found ELSE listings

\* A query will follow, or has been asked and not yet answered.
Due == reconcile \/ disconnected \/ ~connected \/ dirty \/ task[generation].step = "asked"

\* The entities of which an event, a waiting key or a read is on its way.
OnItsWay ==
    {w[1] : w \in wire} \union Range(pending)
        \union {x.key : x \in {y \in Range(gets) : y.gen = generation}}

\* What the board should show and the snapshot lacks or has with another expiry.
Changed ==
    {k \in Matching(filter) :
        \/ \A x \in Snapshot : JobOf[x.key] # JobOf[k]
        \/ \E x \in Snapshot : x.key = k /\ x.expires # expires[k]}

Remembered == Due \/ Changed \subseteq OnItsWay

\* Word is only on its way of what is on the chain, and a read that found
\* nothing is still right when it is answered.
WordIsTrue ==
    /\ \A w \in wire : entity[w[1]] # "future"
    /\ \A k \in Range(pending) : entity[k] # "future"
    /\ \A x \in Range(gets) : entity[x.key] # "future" /\ (x.answer = "gone" => ~Alive(x.key))

\* Snapshots are of the chain, and leases are only ever extended.
Taken(ls) == \A x \in ls : entity[x.key] # "future" /\ x.expires <= expires[x.key]
SnapshotsTaken ==
    /\ Taken(listings)
    /\ task[generation].step = "read" =>
         /\ Taken(task[generation].found)
         /\ \A x \in task[generation].found : task[generation].block < x.expires

MarksKept ==
    /\ task[generation].step = "idle" /\ dirty => reconcile
    /\ status = "live" => connected /\ ~disconnected

\* No head the board has seen reached the first expiry it shows.
ExpiryWatched ==
    task[generation].step = "idle" /\ ~Due =>
        \A x \in listings : seen < boundary /\ boundary <= x.expires

MissedInv == Remembered /\ WordIsTrue /\ SnapshotsTaken /\ MarksKept /\ ExpiryWatched

\* At rest no query is due and no word is on its way.
LEMMA RestIsSilent ==
  ASSUME TypeOK, HydrationInv, MissedInv, Settled
  PROVE  /\ ~Due /\ OnItsWay = {} /\ seen = head
         /\ task[generation].step = "idle"
<1>1. /\ task[generation].step = "idle" /\ wire = {} /\ active = 0 /\ seen = head
      /\ reconcile = FALSE /\ connected /\ ~disconnected
  BY DEF Settled, MissedInv, MarksKept, TypeOK
<1>2. ~Due BY <1>1 DEF Due, MissedInv, MarksKept
<1>3. OnItsWay = {}
  <2>1. pending = <<>> BY <1>1, BoardAssumptions DEF HydrationInv, HydrationBounded
  <2>2. Range(pending) = {} BY <2>1 DEF Range
  <2>3. gets \in Seq(Get) /\ Count(gets, generation) = 0
    BY <1>1, BoundedMeans DEF HydrationInv, TypeOK
  <2>4. Mine(gets, generation) = {} BY <2>3, CountNat, FS_EmptySet DEF Count
  <2>5. \A x \in Range(gets) : x.gen # generation BY <2>4 DEF Range, Mine
  <2> QED BY <1>1, <2>2, <2>5 DEF OnItsWay
<1> QED BY <1>1, <1>2, <1>3

LEMMA NothingMissedFollows ==
  ASSUME TypeOK, HydrationInv, FilterInv, MissedInv
  PROVE  NothingMissed
<1> SUFFICES ASSUME Settled PROVE Accurate BY DEF NothingMissed
<1>1. ~Due /\ OnItsWay = {} /\ seen = head /\ task[generation].step = "idle" BY RestIsSilent
<1>4. Changed = {} BY <1>1 DEF MissedInv, Remembered
<1>5. Snapshot = listings BY <1>1 DEF Snapshot
<1>6. \A k \in Matching(filter) : \E x \in listings : JobOf[x.key] = JobOf[k]
  BY <1>4, <1>5 DEF Changed
<1>7. ASSUME NEW x \in listings, entity[x.key] # "deleted"
      PROVE  x.key \in Matching(filter) /\ x.expires = expires[x.key]
  <2>1. /\ x.key \in Keys /\ x.expires \in Nat /\ expires[x.key] \in Nat /\ head \in Nat
        /\ boundary \in Nat /\ entity[x.key] \in {"future", "listed", "deleted"}
    BY DEF TypeOK
  <2>2. entity[x.key] = "listed" BY <1>7, <2>1 DEF MissedInv, SnapshotsTaken, Taken
  <2>3. /\ seen < boundary /\ boundary <= x.expires /\ x.expires <= expires[x.key]
    BY <1>1 DEF MissedInv, ExpiryWatched, SnapshotsTaken, Taken
  <2>4. head < expires[x.key] BY <1>1, <2>1, <2>3
  <2>5. RewardOf[x.key] >= filter BY DEF FilterInv, Accepts
  <2>6. x.key \in Matching(filter) BY <2>1, <2>2, <2>4, <2>5 DEF Matching, Alive
  <2> QED BY <1>4, <1>5, <2>6 DEF Changed
<1> QED BY <1>6, <1>7 DEF Accurate

LEMMA RefreshIsDue ==
  ASSUME TypeOK, Refresh, generation' = generation
  PROVE  Due'
<1>1. task \in [Generations -> Task] /\ generation \in Generations BY DEF TypeOK
<1>2. CASE task' = [task EXCEPT ![generation] = Asked(filter, 1)]
  <2>1. task'[generation].step = "asked" BY <1>1, <1>2 DEF Asked, Idle
  <2> QED BY <2>1 DEF Due
<1> QED BY <1>2 DEF Refresh, Due

\* What the end of a round leaves behind of the present flight.
LEMMA RoundMarks ==
  ASSUME TypeOK, NEW s, NEW d \in BOOLEAN, NEW r \in BOOLEAN, NextRound(generation, s, d, r)
  PROVE  \/ task'[generation].step = "asked" /\ reconcile' = r /\ dirty' = FALSE /\ status' = s
         \/ /\ task'[generation].step = "idle" /\ dirty' = d /\ reconcile' = (d \/ r)
            /\ status' = IF d THEN "stale" ELSE s
<1>1. task \in [Generations -> Task] /\ generation \in Generations BY DEF TypeOK
<1>2. CASE task' = [task EXCEPT ![generation] = Asked(@.filter, @.round + 1)] /\ reconcile' = r
           /\ dirty' = FALSE /\ status' = s
  <2>1. task'[generation] = Asked(task[generation].filter, task[generation].round + 1)
    BY <1>1, <1>2
  <2> QED BY <1>2, <2>1 DEF Asked, Idle
<1>3. CASE task' = [task EXCEPT ![generation] = Idle] /\ dirty' = d /\ reconcile' = (d \/ r)
           /\ status' = IF d THEN "stale" ELSE s
  <2>1. task'[generation] = Idle BY <1>1, <1>3
  <2> QED BY <1>3, <2>1 DEF Idle
<1> QED BY <1>2, <1>3 DEF NextRound

(***************************************************************************)
(* What sequences hold.                                                    *)
(***************************************************************************)
LEMMA RangeRemove ==
  ASSUME NEW q \in Seq(Get), NEW i \in DOMAIN q
  PROVE  /\ RemoveAt(q, i) \in Seq(Get)
         /\ Range(RemoveAt(q, i)) \subseteq Range(q)
         /\ Range(q) \subseteq Range(RemoveAt(q, i)) \union {q[i]}
<1> DEFINE a == SubSeq(q, 1, i - 1)
           b == SubSeq(q, i + 1, Len(q))
           n == Len(q)
<1>1. n \in Nat /\ DOMAIN q = 1 .. n /\ i \in 1 .. n BY LenProperties
<1>2. \A j \in 1 .. n : q[j] \in Range(q) BY <1>1 DEF Range
<1>3. /\ a \in Seq(Range(q)) /\ Len(a) = (IF 1 <= i - 1 THEN (i - 1) - 1 + 1 ELSE 0)
      /\ \A j \in 1 .. (i - 1) - 1 + 1 : a[j] = q[1 + j - 1]
  BY <1>1, <1>2, SubSeqProperties
<1>4. /\ b \in Seq(Range(q)) /\ Len(b) = (IF i + 1 <= n THEN n - (i + 1) + 1 ELSE 0)
      /\ \A j \in 1 .. n - (i + 1) + 1 : b[j] = q[i + 1 + j - 1]
  BY <1>1, <1>2, SubSeqProperties
<1>5. Range(q) \subseteq Get BY RangeOfSeq
<1> HIDE DEF a, b, n
<1>6. RemoveAt(q, i) = a \o b BY DEF RemoveAt, a, b, n
<1>7. Range(a \o b) = Range(a) \union Range(b) BY <1>3, <1>4, RangeConcatenation
<1>8. Range(a) \subseteq Range(q) /\ Range(b) \subseteq Range(q) BY <1>3, <1>4, RangeOfSeq
<1>9. RemoveAt(q, i) \in Seq(Get)
  <2>1. a \o b \in Seq(Range(q)) BY <1>3, <1>4, ConcatProperties
  <2> QED BY <1>5, <1>6, <2>1, SeqMonotonic
<1>10. ASSUME NEW j \in 1 .. n PROVE q[j] \in Range(a) \union Range(b) \union {q[i]}
  <2>1. DOMAIN a = 1 .. Len(a) /\ DOMAIN b = 1 .. Len(b) BY <1>3, <1>4, LenProperties
  <2>2. CASE j < i
    <3>1. j \in DOMAIN a /\ a[j] = q[j] BY <1>1, <1>3, <2>1, <2>2
    <3> QED BY <3>1 DEF Range
  <2>3. CASE j > i
    <3>1. /\ i + 1 <= n /\ j - i \in 1 .. n - (i + 1) + 1 /\ i + 1 + (j - i) - 1 = j
          /\ n - (i + 1) + 1 = Len(b)
      BY <1>1, <1>4, <2>3
    <3>2. b[j - i] = q[i + 1 + (j - i) - 1] BY <1>4, <3>1
    <3> QED BY <2>1, <3>1, <3>2 DEF Range
  <2> QED BY <1>1, <2>2, <2>3
<1>11. Range(q) \subseteq Range(a) \union Range(b) \union {q[i]} BY <1>1, <1>10 DEF Range
<1> QED BY <1>6, <1>7, <1>8, <1>9, <1>11

LEMMA RangeAppend ==
  ASSUME NEW ks \in Seq(Keys), NEW k \in Keys
  PROVE  Append(ks, k) \in Seq(Keys) /\ Range(Append(ks, k)) = Range(ks) \union {k}
<1> DEFINE one == <<k>>
<1>1. one \in Seq(Keys) /\ DOMAIN one = {1} /\ one[1] = k OBVIOUS
<1>2. Append(ks, k) = ks \o one BY AppendIsConcat
<1> HIDE DEF one
<1>3. Range(one) = {k} BY <1>1 DEF Range
<1>4. Range(ks \o one) = Range(ks) \union Range(one) BY <1>1, RangeConcatenation
<1> QED BY <1>2, <1>3, <1>4, AppendProperties

\* Pump drops no key: each is waiting or being read afterwards, and only they are.
LEMMA PumpKeeps ==
  ASSUME NEW ks \in Seq(Keys), NEW n \in Int, n <= Concurrency, NEW others \in Seq(Get),
         generation \in Nat, Pump(ks, n, others)
  PROVE  /\ Range(pending') \subseteq Range(ks)
         /\ Range(others) \subseteq Range(gets')
         /\ \A x \in Range(gets') : x \in Range(others)
               \/ (x.gen = generation /\ x.key \in Range(ks) /\ x.answer = "none")
         /\ \A k \in Range(ks) :
               k \in Range(pending') \/ \E x \in Range(gets') : x.gen = generation /\ x.key = k
<1> USE BoardAssumptions
<1> DEFINE m == Len(ks)
           s == IF Room(n) < m THEN Room(n) ELSE m
           r == Started(s, ks, generation)
<1>1. m \in Nat /\ DOMAIN ks = 1 .. m /\ \A i \in 1 .. m : ks[i] \in Range(ks)
  BY LenProperties DEF Range
<1>2. s \in Nat /\ s <= m BY <1>1 DEF Room
<1>3. /\ pending' = SubSeq(ks, s + 1, m) /\ gets' = others \o r
  BY DEF Pump, Started
<1> HIDE DEF s, m
<1>4. /\ SubSeq(ks, s + 1, m) \in Seq(Range(ks))
      /\ Len(SubSeq(ks, s + 1, m)) = (IF s + 1 <= m THEN m - (s + 1) + 1 ELSE 0)
      /\ \A i \in 1 .. m - (s + 1) + 1 : SubSeq(ks, s + 1, m)[i] = ks[s + 1 + i - 1]
  BY <1>1, <1>2, SubSeqProperties
<1>5. r \in Seq(Get) BY <1>1, <1>2, CountStarted DEF m
<1>6. Range(gets') = Range(others) \union Range(r) BY <1>3, <1>5, RangeConcatenation
<1>7. DOMAIN r = 1 .. s /\ \A i \in 1 .. s :
         r[i].gen = generation /\ r[i].key = ks[i] /\ r[i].answer = "none"
  BY DEF Started
<1> HIDE DEF r
<1>8. \A x \in Range(r) : x.gen = generation /\ x.key \in Range(ks) /\ x.answer = "none"
  <2>1. \A i \in 1 .. s : ks[i] \in Range(ks) BY <1>1, <1>2
  <2>2. \A x \in Range(r) : \E i \in 1 .. s : x = r[i] BY <1>7 DEF Range
  <2> SUFFICES ASSUME NEW x \in Range(r)
               PROVE  x.gen = generation /\ x.key \in Range(ks) /\ x.answer = "none"
    OBVIOUS
  <2>3. PICK i \in 1 .. s : x = r[i] BY <2>2
  <2>4. r[i].gen = generation /\ r[i].key = ks[i] /\ r[i].answer = "none" BY <1>7
  <2> QED BY <2>1, <2>3, <2>4
<1>9. ASSUME NEW i \in 1 .. m
      PROVE  ks[i] \in Range(pending') \/ \E x \in Range(r) : x.gen = generation /\ x.key = ks[i]
  <2>1. CASE i <= s BY <1>7, <2>1 DEF Range
  <2>2. CASE ~(i <= s)
    <3> DEFINE p == SubSeq(ks, s + 1, m)
    <3>1. DOMAIN p = 1 .. Len(p) BY <1>4, LenProperties
    <3>2. i - s \in DOMAIN p /\ p[i - s] = ks[i] BY <1>1, <1>2, <1>4, <2>2, <3>1
    <3> HIDE DEF p
    <3>3. ks[i] \in Range(p) BY <3>2 DEF Range
    <3> QED BY <1>3, <3>3 DEF p
  <2> QED BY <2>1, <2>2
<1>10. Range(pending') \subseteq Range(ks) BY <1>3, <1>4, RangeOfSeq
<1>11. \A k \in Range(ks) : \E i \in 1 .. m : k = ks[i] BY <1>1 DEF Range
<1> QED BY <1>6, <1>8, <1>9, <1>10, <1>11

\* A read that is answered keeps its key and its session.
LEMMA ReadsRange ==
  ASSUME TypeOK, NEW i \in DOMAIN gets, GetReads(i)
  PROVE  /\ \A x \in Range(gets) : \E y \in Range(gets') : y.gen = x.gen /\ y.key = x.key
         /\ \A y \in Range(gets') : \/ y \in Range(gets)
                                    \/ /\ y.gen = gets[i].gen /\ y.key = gets[i].key
                                       /\ y.answer = "gone" => ~Alive(y.key)
<1>1. gets \in Seq(Get) /\ gets[i] \in Get /\ DOMAIN gets = 1 .. Len(gets)
  BY LenProperties, ElementOfSeq DEF TypeOK
<1>2. DOMAIN gets' = DOMAIN gets BY DEF GetReads
<1>3. /\ \A j \in DOMAIN gets : j # i => gets'[j] = gets[j]
      /\ gets'[i].gen = gets[i].gen /\ gets'[i].key = gets[i].key
      /\ gets'[i].answer = IF Alive(gets[i].key) THEN "found" ELSE "gone"
  BY <1>1 DEF GetReads, Get
<1>4. \A y \in Range(gets') : \E j \in DOMAIN gets : y = gets'[j] BY <1>2 DEF Range
<1>5. \A x \in Range(gets) : \E j \in DOMAIN gets : x = gets[j] BY DEF Range
<1>6. \A j \in DOMAIN gets : gets'[j] \in Range(gets') /\ gets[j] \in Range(gets)
  BY <1>2 DEF Range
<1>7. \A j \in DOMAIN gets : gets'[j].gen = gets[j].gen /\ gets'[j].key = gets[j].key
  BY <1>3
<1> QED BY <1>3, <1>4, <1>5, <1>6, <1>7

(***************************************************************************)
(* The marks.                                                              *)
(***************************************************************************)
LEMMA RefreshIsBusy ==
  ASSUME TypeOK, Refresh, generation' = generation
  PROVE  task'[generation'].step # "idle"
<1>1. task \in [Generations -> Task] /\ generation \in Generations BY DEF TypeOK
<1>2. CASE task' = [task EXCEPT ![generation] = Asked(filter, 1)]
  <2>1. task'[generation].step = "asked" BY <1>1, <1>2 DEF Asked, Idle
  <2> QED BY <2>1
<1> QED BY <1>2 DEF Refresh

\* A flight of another generation leaves the present board alone.
LEMMA OthersFlight ==
  ASSUME TypeOK, NEW g \in Generations, g # generation, Read(g) \/ Complete(g) \/ Fail(g)
  PROVE  /\ task'[generation] = task[generation]
         /\ UNCHANGED <<seen, status, listings, removed, marks, dirty, boundary, deleted>>
<1>1. task \in [Generations -> Task] /\ generation \in Generations BY DEF TypeOK
<1> QED BY <1>1 DEF Read, Complete, Fail, Current, Abandon, marks

LEMMA MarksStep == TypeOK /\ MarksKept /\ [Next]_vars => MarksKept'
<1> SUFFICES ASSUME TypeOK, MarksKept, [Next]_vars PROVE MarksKept' OBVIOUS
<1> USE DEF MarksKept
<1>t. /\ task \in [Generations -> Task] /\ generation \in Generations
      /\ dirty \in BOOLEAN /\ reconcile \in BOOLEAN
  BY DEF TypeOK
\* A step that keeps the marks and at most refreshes.
<1>0. ASSUME Refresh \/ UNCHANGED <<task, dirty>>, UNCHANGED <<generation, marks>>,
             status' \in {status, "stale"}
      PROVE  MarksKept'
  <2>1. CASE Refresh
    <3>1. task'[generation'].step # "idle" BY <1>0, <2>1, RefreshIsBusy
    <3> QED BY <1>0, <3>1 DEF marks
  <2> QED BY <1>0, <2>1 DEF marks
<1>1. CASE UNCHANGED vars BY <1>0, <1>1 DEF vars, session
<1>2. CASE NewBlock BY <1>0, <1>2 DEF NewBlock, session
<1>3. CASE (\E f \in Filters : Start(f)) \/ Stop BY <1>3 DEF Start, Stop, Restart
<1>4. CASE UserRefresh BY <1>0, <1>4 DEF UserRefresh, session
<1>5. ASSUME NEW g \in Generations, Read(g) \/ Complete(g) \/ Fail(g) PROVE MarksKept'
  <2>0. generation' = generation BY <1>5 DEF Read, Complete, Fail, session
  <2>1. CASE g # generation BY <1>5, <2>0, <2>1, OthersFlight DEF marks
  <2>2. CASE g = generation /\ Read(g)
    <3>1. task'[generation].step = "read"
      <4>1. PICK s : task' = [task EXCEPT ![g].step = "read", ![g].block = head, ![g].found = s]
        BY <2>2 DEF Read
      <4> QED BY <1>t, <2>2, <4>1 DEF Task
    <3> QED BY <2>0, <2>2, <3>1 DEF Read, marks
  <2>3. CASE g = generation /\ Complete(g)
    <3> DEFINE again == dirty \/ Crossed(Earliest(task[g].found), task[g].block)
    <3>1. NextRound(generation, Health, again, reconcile) /\ UNCHANGED <<disconnected, connected>>
      BY <2>3 DEF Complete, Current, Paint
    <3>2. again \in BOOLEAN BY DEF Crossed
    <3> HIDE DEF again
    <3>3. \/ /\ task'[generation].step = "asked" /\ reconcile' = reconcile /\ dirty' = FALSE
             /\ status' = Health
          \/ /\ task'[generation].step = "idle" /\ dirty' = again
             /\ reconcile' = (again \/ reconcile)
             /\ status' = IF again THEN "stale" ELSE Health
      BY <1>t, <3>1, <3>2, RoundMarks
    <3>4. task'[generation].step = "idle" /\ dirty' => reconcile' BY <3>3
    <3>5. status' = "live" => Health = "live" BY <3>3
    <3> QED BY <2>0, <3>1, <3>4, <3>5 DEF Health
  <2>4. CASE g = generation /\ Fail(g)
    <3>1. NextRound(generation, "error", dirty, TRUE) BY <2>4 DEF Fail, Current
    <3>2. \/ task'[generation].step = "asked" /\ reconcile' = TRUE /\ dirty' = FALSE /\ status' = "error"
          \/ /\ task'[generation].step = "idle" /\ dirty' = dirty /\ reconcile' = (dirty \/ TRUE)
             /\ status' = IF dirty THEN "stale" ELSE "error"
      BY <1>t, <3>1, RoundMarks
    <3> QED BY <2>0, <3>2
  <2> QED BY <1>5, <2>1, <2>2, <2>3, <2>4
<1>6. ASSUME NEW i \in DOMAIN gets, GetReads(i) \/ GetAnswers(i) \/ GetFails(i) PROVE MarksKept'
  <2>1. CASE GetReads(i) \/ GetAnswers(i)
    BY <1>0, <2>1 DEF GetReads, GetAnswers, session
  <2>2. CASE GetFails(i)
    BY <2>2 DEF GetFails, session
  <2> QED BY <1>6, <2>1, <2>2
<1>7. CASE LogsAcknowledged \/ Reconnect
  BY <1>0, <1>7 DEF LogsAcknowledged, Reconnect, session
<1>8. CASE Disconnect BY <1>8 DEF Disconnect, session
<1>9. ASSUME NEW w \in wire, OnEntity(w) PROVE MarksKept'
  BY <1>0, <1>9 DEF OnEntity, EntityShown, EntityOverflows, EntityQueued, session
<1>10. ASSUME NEW b \in 1 .. head, OnHead(b) PROVE MarksKept'
  <2>1. CASE connected' = TRUE /\ disconnected' = FALSE /\ Refresh
    <3>1. task'[generation'].step # "idle" BY <1>10, <2>1, RefreshIsBusy DEF OnHead, session
    <3> QED BY <2>1, <3>1
  <2>2. CASE UNCHANGED marks BY <1>0, <1>10, <2>2 DEF OnHead, session
  <2> QED BY <1>10, <2>1, <2>2 DEF OnHead
<1> QED BY <1>1, <1>2, <1>3, <1>4, <1>5, <1>6, <1>7, <1>8, <1>9, <1>10 DEF Next

(***************************************************************************)
(* The chain only ever adds to what it announced.                          *)
(***************************************************************************)
LEMMA ChainGrows ==
  ASSUME TypeOK, [Next]_vars
  PROVE  /\ \A k \in Keys : entity[k] # "future" =>
               entity'[k] # "future" /\ expires[k] <= expires'[k]
         /\ \A k \in Keys : entity[k] # "future" /\ ~Alive(k) => ~Alive(k)'
<1> USE BoardAssumptions
<1>1. /\ head \in Nat /\ expires \in [Keys -> Nat]
      /\ entity \in [Keys -> {"future", "listed", "deleted"}]
  BY DEF TypeOK
<1>2. CASE UNCHANGED chain BY <1>1, <1>2 DEF chain, Alive
<1>3. CASE NewBlock
  <2>1. head' = head + 1 BY <1>3 DEF NewBlock
  <2>2. CASE UNCHANGED <<entity, expires, wire>> BY <1>1, <2>1, <2>2 DEF Alive
  <2>3. ASSUME NEW j \in Keys, Create(j) \/ Extend(j) \/ Delete(j)
        PROVE  /\ \A k \in Keys : entity[k] # "future" =>
                     entity'[k] # "future" /\ expires[k] <= expires'[k]
               /\ \A k \in Keys : entity[k] # "future" /\ ~Alive(k) => ~Alive(k)'
    <3>1. \A k \in Keys : k # j => entity'[k] = entity[k] /\ expires'[k] = expires[k]
      BY <1>1, <2>3 DEF Create, Extend, Delete
    <3>2. CASE Create(j)
      <4>1. entity[j] = "future" BY <3>2 DEF Create
      <4> QED BY <1>1, <2>1, <3>1, <4>1 DEF Alive
    <3>3. CASE Extend(j)
      <4>1. PICK l \in Leases : expires' = [expires EXCEPT ![j] = @ + l] BY <3>3 DEF Extend
      <4>2. expires'[j] = expires[j] + l /\ l \in Nat BY <1>1, <4>1
      <4>3. entity' = entity /\ Alive(j) BY <1>1, <3>3 DEF Extend, Alive
      <4> QED BY <1>1, <2>1, <3>1, <4>2, <4>3 DEF Alive
    <3>4. CASE Delete(j)
      <4>1. entity'[j] = "deleted" /\ expires' = expires BY <1>1, <3>4 DEF Delete
      <4> QED BY <1>1, <2>1, <3>1, <4>1 DEF Alive
    <3> QED BY <2>3, <3>2, <3>3, <3>4
  <2> QED BY <1>3, <2>2, <2>3 DEF NewBlock
<1>4. NewBlock \/ UNCHANGED chain
  BY DEF Next, vars, Start, Stop, Restart, UserRefresh, Read, Complete, Fail, GetReads, GetAnswers,
         GetFails, LogsAcknowledged, Disconnect, Reconnect, OnEntity, OnHead
<1> QED BY <1>2, <1>3, <1>4

LEMMA WordKept ==
  ASSUME TypeOK, WordIsTrue, [Next]_vars,
         \A w \in wire' : w \in wire \/ entity'[w[1]] # "future",
         \A k \in Range(pending') : k \in Keys /\ entity[k] # "future",
         \A x \in Range(gets') : \/ x \in Range(gets)
                                 \/ /\ x.key \in Keys /\ entity[x.key] # "future"
                                    /\ x.answer = "gone" => ~Alive(x.key)
  PROVE  WordIsTrue'
<1>1. /\ \A w \in wire : w[1] \in Keys /\ entity[w[1]] # "future"
      /\ \A x \in Range(gets) : x.key \in Keys
  <2>1. Range(gets) \subseteq Get BY RangeOfSeq DEF TypeOK
  <2> QED BY <2>1 DEF TypeOK, WordIsTrue, Get
<1>2. /\ \A k \in Keys : entity[k] # "future" => entity'[k] # "future"
      /\ \A k \in Keys : entity[k] # "future" /\ ~Alive(k) => ~Alive(k)'
  BY ChainGrows
<1>3. \A x \in Range(gets') : /\ x.key \in Keys /\ entity[x.key] # "future"
                              /\ x.answer = "gone" => ~Alive(x.key)
  BY <1>1 DEF WordIsTrue
<1>4. \A x \in Range(gets') : /\ entity'[x.key] # "future"
                              /\ x.answer = "gone" => ~Alive(x.key)'
  BY <1>2, <1>3
<1> QED BY <1>1, <1>2, <1>4 DEF WordIsTrue

LEMMA WordGets ==
  ASSUME TypeOK, HydrationInv, WordIsTrue, [Next]_vars, NEW i \in DOMAIN gets,
         GetReads(i) \/ GetAnswers(i) \/ GetFails(i)
  PROVE  WordIsTrue'
<1>1. /\ gets \in Seq(Get) /\ gets[i] \in Range(gets) /\ pending \in Seq(Keys)
      /\ active \in Int /\ generation \in Nat /\ active <= Concurrency
  BY FilterNat, BoundedMeans DEF TypeOK, Range, HydrationInv
<1>2. UNCHANGED wire BY DEF GetReads, GetAnswers, GetFails, link
<1>3. Range(gets) \subseteq Get /\ Range(pending) \subseteq Keys BY <1>1, RangeOfSeq
<1>4. CASE GetReads(i)
  <2>1. \A y \in Range(gets') : \/ y \in Range(gets)
                                \/ /\ y.gen = gets[i].gen /\ y.key = gets[i].key
                                   /\ y.answer = "gone" => ~Alive(y.key)
    BY <1>4, ReadsRange
  <2>2. pending' = pending BY <1>4 DEF GetReads
  <2>3. gets[i].key \in Keys /\ entity[gets[i].key] # "future"
    BY <1>1, <1>3 DEF Get, WordIsTrue
  <2>4. \A k \in Range(pending') : k \in Keys /\ entity[k] # "future"
    BY <1>3, <2>2 DEF WordIsTrue
  <2> QED BY <1>2, <2>1, <2>3, <2>4, WordKept
<1>5. CASE GetAnswers(i) \/ GetFails(i)
  <2> DEFINE others == RemoveAt(gets, i)
  <2>1. others \in Seq(Get) /\ Range(others) \subseteq Range(gets) BY <1>1, RangeRemove
  <2> HIDE DEF others
  <2>2. CASE gets' = others /\ pending' = pending
    <3>1. \A k \in Range(pending') : k \in Keys /\ entity[k] # "future"
      BY <1>3, <2>2 DEF WordIsTrue
    <3> QED BY <1>2, <2>1, <2>2, <3>1, WordKept
  <2>3. CASE Pump(pending, active - 1, others)
    <3>1. active - 1 \in Int /\ active - 1 <= Concurrency BY <1>1, BoardAssumptions
    <3>2. /\ Range(pending') \subseteq Range(pending)
          /\ \A x \in Range(gets') : x \in Range(others)
               \/ (x.gen = generation /\ x.key \in Range(pending) /\ x.answer = "none")
      BY <1>1, <2>1, <2>3, <3>1, PumpKeeps
    <3>3. \A k \in Range(pending) : k \in Keys /\ entity[k] # "future" BY <1>3 DEF WordIsTrue
    <3> QED BY <1>2, <2>1, <3>2, <3>3, WordKept
  <2> QED BY <1>5, <2>2, <2>3 DEF GetAnswers, GetFails, others
<1> QED BY <1>4, <1>5

LEMMA WordEntity ==
  ASSUME TypeOK, HydrationInv, WordIsTrue, [Next]_vars, NEW w \in wire, OnEntity(w)
  PROVE  WordIsTrue'
<1>1. /\ gets \in Seq(Get) /\ pending \in Seq(Keys) /\ w[1] \in Keys
      /\ active \in Int /\ generation \in Nat /\ active <= Concurrency
  BY FilterNat, BoundedMeans DEF TypeOK, HydrationInv
<1>2. wire' \subseteq wire BY DEF OnEntity
<1>3. \A k \in Range(pending) : k \in Keys /\ entity[k] # "future"
  BY <1>1, RangeOfSeq DEF WordIsTrue
<1>4. CASE UNCHANGED hydration BY <1>2, <1>3, <1>4, WordKept DEF hydration
<1>5. CASE pending' = <<>> /\ gets' = gets
  <2>1. Range(pending') = {} BY <1>5 DEF Range
  <2> QED BY <1>2, <1>5, <2>1, WordKept
<1>6. CASE EntityQueued(w[1])
  <2> DEFINE ks == IF Contains(pending, w[1]) THEN pending ELSE Append(pending, w[1])
  <2>1. ks \in Seq(Keys) /\ Range(ks) \subseteq Range(pending) \union {w[1]}
    BY <1>1, RangeAppend
  <2>2. Pump(ks, active, gets) BY <1>6 DEF EntityQueued
  <2> HIDE DEF ks
  <2>3. /\ Range(pending') \subseteq Range(ks)
        /\ \A x \in Range(gets') : x \in Range(gets)
             \/ (x.gen = generation /\ x.key \in Range(ks) /\ x.answer = "none")
    BY <1>1, <2>1, <2>2, PumpKeeps
  <2>4. \A k \in Range(ks) : k \in Keys /\ entity[k] # "future"
    BY <1>1, <1>3, <2>1 DEF WordIsTrue
  <2> QED BY <1>2, <2>3, <2>4, WordKept
<1> QED BY <1>4, <1>5, <1>6 DEF OnEntity, EntityShown, EntityOverflows

LEMMA WordStep == TypeOK /\ HydrationInv /\ WordIsTrue /\ [Next]_vars => WordIsTrue'
<1> SUFFICES ASSUME TypeOK, HydrationInv, WordIsTrue, [Next]_vars PROVE WordIsTrue' OBVIOUS
<1>1. \A k \in Range(pending) : k \in Keys /\ entity[k] # "future"
  BY RangeOfSeq DEF TypeOK, WordIsTrue
\* A step that leaves the waiting keys and the reads alone and announces what it creates.
<1>0. ASSUME UNCHANGED <<pending, gets>>,
             \A w \in wire' : w \in wire \/ entity'[w[1]] # "future"
      PROVE  WordIsTrue'
  BY <1>0, <1>1, WordKept
<1>2. CASE UNCHANGED vars BY <1>0, <1>2 DEF vars, hydration, link
<1>3. CASE NewBlock
  <2>1. CASE UNCHANGED <<entity, expires, wire>>
    BY <1>0, <1>3, <2>1 DEF NewBlock, hydration
  <2>2. ASSUME NEW k \in Keys, Create(k) \/ Extend(k) \/ Delete(k) PROVE WordIsTrue'
    <3>1. entity'[k] # "future" BY <2>2 DEF Create, Extend, Delete, TypeOK
    <3>2. \A w \in wire' : w \in wire \/ w[1] = k
      BY <2>2 DEF Create, Extend, Delete, Announce
    <3> QED BY <1>0, <1>3, <3>1, <3>2 DEF NewBlock, hydration
  <2> QED BY <1>3, <2>1, <2>2 DEF NewBlock
<1>4. CASE (\E f \in Filters : Start(f)) \/ Stop
  <2>1. pending' = <<>> /\ gets' = gets /\ wire' = {} BY <1>4 DEF Start, Stop, Restart
  <2>2. Range(pending') = {} BY <2>1 DEF Range
  <2> QED BY <2>1, <2>2, WordKept
<1>5. CASE UserRefresh \/ LogsAcknowledged \/ Reconnect \/ Disconnect
  BY <1>0, <1>5 DEF UserRefresh, LogsAcknowledged, Reconnect, Disconnect, hydration, link
<1>6. CASE \E g \in Generations : Read(g) \/ Complete(g) \/ Fail(g)
  BY <1>0, <1>6 DEF Read, Complete, Fail, hydration, link
<1>7. CASE \E i \in DOMAIN gets : GetReads(i) \/ GetAnswers(i) \/ GetFails(i)
  BY <1>7, WordGets
<1>8. CASE \E w \in wire : OnEntity(w) BY <1>8, WordEntity
<1>9. CASE \E b \in 1 .. head : OnHead(b) BY <1>0, <1>9 DEF OnHead, hydration
<1> QED BY <1>2, <1>3, <1>4, <1>5, <1>6, <1>7, <1>8, <1>9 DEF Next

(***************************************************************************)
(* The snapshots and the first expiry.                                     *)
(***************************************************************************)
\* A snapshot stays one: entities are never forgotten and leases never shortened.
LEMMA TakenGrows ==
  ASSUME TypeOK, TypeOK', [Next]_vars, NEW ls \in SUBSET Entry, Taken(ls)
  PROVE  \A x \in ls : entity'[x.key] # "future" /\ x.expires <= expires'[x.key]
<1> TAKE x \in ls
<1>1. x.key \in Keys /\ x.expires \in Nat BY DEF Entry
<1>2. entity[x.key] # "future" /\ x.expires <= expires[x.key] BY DEF Taken
<1>3. entity'[x.key] # "future" /\ expires[x.key] <= expires'[x.key]
  BY <1>1, <1>2, ChainGrows
<1>4. expires[x.key] \in Nat /\ expires'[x.key] \in Nat BY <1>1 DEF TypeOK
<1> QED BY <1>1, <1>2, <1>3, <1>4

LEMMA TakenStep == TypeOK /\ TypeOK' /\ SnapshotsTaken /\ [Next]_vars => SnapshotsTaken'
<1> SUFFICES ASSUME TypeOK, TypeOK', SnapshotsTaken, [Next]_vars PROVE SnapshotsTaken' OBVIOUS
<1>t. /\ task \in [Generations -> Task] /\ generation \in Generations
      /\ listings \in SUBSET Entry
      /\ task[generation].found \in SUBSET Entry
  BY DEF TypeOK, Task, Entry
<1>0. \A x \in listings : entity'[x.key] # "future" /\ x.expires <= expires'[x.key]
  BY <1>t, TakenGrows DEF SnapshotsTaken
\* A step that shows nothing new and has no new snapshot.
<1>1. ASSUME listings' \subseteq listings, generation' = generation,
             task'[generation].step # "read" \/ task'[generation] = task[generation]
      PROVE  SnapshotsTaken'
  <2>1. CASE task'[generation].step # "read" BY <1>0, <1>1, <2>1 DEF SnapshotsTaken, Taken
  <2>2. CASE task'[generation] = task[generation] /\ task[generation].step = "read"
    <3>1. \A x \in task[generation].found :
             entity'[x.key] # "future" /\ x.expires <= expires'[x.key]
      BY <1>t, <2>2, TakenGrows DEF SnapshotsTaken
    <3>2. \A x \in task[generation].found : task[generation].block < x.expires
      BY <2>2 DEF SnapshotsTaken
    <3> QED BY <1>0, <1>1, <2>2, <3>1, <3>2 DEF SnapshotsTaken, Taken
  <2> QED BY <1>1, <2>1, <2>2
<1>2. ASSUME UNCHANGED <<listings, generation>>, Refresh \/ UNCHANGED task
      PROVE  SnapshotsTaken'
  <2>1. CASE task' = [task EXCEPT ![generation] = Asked(filter, 1)]
    <3>1. task'[generation].step = "asked" BY <1>t, <2>1 DEF Asked, Idle
    <3> QED BY <1>1, <1>2, <3>1
  <2> QED BY <1>1, <1>2, <2>1 DEF Refresh
<1>3. CASE UNCHANGED vars BY <1>2, <1>3 DEF vars, session
<1>4. CASE NewBlock BY <1>2, <1>4 DEF NewBlock, session
<1>5. CASE (\E f \in Filters : Start(f)) \/ Stop
  <2>1. PICK t \in {Idle} \union {Asked(f, 1) : f \in Filters} :
            /\ task' = [task EXCEPT ![generation + 1] = t]
            /\ listings' = {} /\ generation' = generation + 1
    BY <1>5 DEF Start, Stop, Restart
  <2>2. generation' \in Generations BY DEF TypeOK
  <2>3. t.step # "read"
    <3>1. Idle.step = "idle" BY DEF Idle
    <3>2. \A f : Asked(f, 1).step = "asked" BY DEF Asked, Idle
    <3> QED BY <3>1, <3>2
  <2>4. task'[generation'] = t BY <1>t, <2>1, <2>2
  <2> QED BY <2>1, <2>3, <2>4 DEF SnapshotsTaken, Taken
<1>6. CASE UserRefresh BY <1>2, <1>6 DEF UserRefresh, session
<1>7. ASSUME NEW g \in Generations, Read(g) \/ Complete(g) \/ Fail(g) PROVE SnapshotsTaken'
  <2>0. generation' = generation BY <1>7 DEF Read, Complete, Fail, session
  <2>1. CASE g # generation BY <1>1, <1>7, <2>0, <2>1, OthersFlight
  <2>2. CASE g = generation /\ Read(g)
    <3>1. PICK s \in Answers(task[g].filter) :
             task' = [task EXCEPT ![g].step = "read", ![g].block = head, ![g].found = s]
      BY <2>2 DEF Read
    <3>2. task'[generation].found = s /\ task'[generation].block = head
      BY <1>t, <2>2, <3>1 DEF Task
    <3>3. \A x \in s : entity[x.key] = "listed" /\ x.expires = expires[x.key] /\ head < x.expires
      BY DEF Answers, Matching, Alive
    <3>4. s \in SUBSET Entry BY AnswersType
    <3>5. Taken(s)
      <4>1. \A x \in s : x.key \in Keys /\ x.expires \in Nat BY <3>4 DEF Entry
      <4> QED BY <3>3, <4>1 DEF Taken
    <3>6. UNCHANGED <<listings, entity, expires>> BY <2>2 DEF Read, chain
    <3> QED BY <1>0, <2>0, <3>2, <3>3, <3>5, <3>6 DEF SnapshotsTaken, Taken
  <2>3. CASE g = generation /\ Complete(g)
    <3>1. task[g].step = "read" /\ Paint(g) /\ UNCHANGED <<entity, expires>>
      BY <2>3 DEF Complete, Current, chain
    <3>2. listings' = task[generation].found BY <2>3, <3>1 DEF Paint
    <3>3. task'[generation].step # "read" BY <2>3, <3>1, RoundLeavesRead DEF Paint
    <3> QED BY <2>0, <2>3, <3>1, <3>2, <3>3 DEF SnapshotsTaken, Taken
  <2>4. CASE g = generation /\ Fail(g)
    <3>1. NextRound(generation, "error", dirty, TRUE) /\ UNCHANGED listings
      BY <2>4 DEF Fail, Current
    <3>2. task'[generation].step # "read" BY <3>1, RoundLeavesRead
    <3> QED BY <1>1, <2>0, <3>1, <3>2
  <2> QED BY <1>7, <2>1, <2>2, <2>3, <2>4
<1>8. CASE \E i \in DOMAIN gets : GetReads(i) \/ GetAnswers(i) \/ GetFails(i)
  BY <1>2, <1>8 DEF GetReads, GetAnswers, GetFails, session
<1>9. CASE LogsAcknowledged \/ Reconnect \/ Disconnect
  BY <1>2, <1>9 DEF LogsAcknowledged, Reconnect, Disconnect, session
<1>10. CASE \E w \in wire : OnEntity(w)
  BY <1>2, <1>10 DEF OnEntity, EntityShown, EntityOverflows, EntityQueued, session
<1>11. CASE \E b \in 1 .. head : OnHead(b) BY <1>2, <1>11 DEF OnHead, session
<1> QED BY <1>3, <1>4, <1>5, <1>6, <1>7, <1>8, <1>9, <1>10, <1>11 DEF Next

\* A head that reaches the first expiry makes a query due, and a snapshot is
\* painted with a boundary no head has reached.
LEMMA WatchStep ==
  TypeOK /\ SnapshotsTaken /\ ExpiryWatched /\ [Next]_vars => ExpiryWatched'
<1> SUFFICES ASSUME TypeOK, SnapshotsTaken, ExpiryWatched, [Next]_vars PROVE ExpiryWatched'
  OBVIOUS
<1>t. /\ task \in [Generations -> Task] /\ generation \in Generations
      /\ listings \in SUBSET Entry /\ task[generation].found \in SUBSET Entry
      /\ task[generation].block \in Nat /\ boundary \in Nat /\ seen \in Nat
      /\ \A x \in listings : x.expires \in Nat
  BY DEF TypeOK, Task, Entry
<1>0. ASSUME Due' PROVE ExpiryWatched' BY <1>0 DEF ExpiryWatched
\* A step that leaves what is watched alone.
<1>1. ASSUME UNCHANGED <<listings, seen, boundary, generation, marks, dirty>>,
             task'[generation] = task[generation]
      PROVE  ExpiryWatched'
  BY <1>1 DEF ExpiryWatched, Due, marks
<1>2. ASSUME UNCHANGED <<listings, seen, boundary, generation, marks>>,
             Refresh \/ UNCHANGED <<task, dirty>>
      PROVE  ExpiryWatched'
  <2>1. CASE Refresh BY <1>0, <1>2, <2>1, RefreshIsDue
  <2> QED BY <1>1, <1>2, <2>1
<1>3. CASE UNCHANGED vars BY <1>1, <1>3 DEF vars, session
<1>4. CASE NewBlock BY <1>1, <1>4 DEF NewBlock, session
<1>5. CASE (\E f \in Filters : Start(f)) \/ Stop
  <2>1. connected' = FALSE BY <1>5 DEF Start, Stop, Restart
  <2> QED BY <1>0, <2>1 DEF Due
<1>6. CASE UserRefresh BY <1>2, <1>6 DEF UserRefresh, session
<1>7. ASSUME NEW g \in Generations, Read(g) \/ Complete(g) \/ Fail(g) PROVE ExpiryWatched'
  <2>0. generation' = generation BY <1>7 DEF Read, Complete, Fail, session
  <2>1. CASE g # generation
    <3>1. UNCHANGED listings BY <1>7, <2>1, OthersFlight
    <3> QED BY <1>1, <1>7, <2>0, <2>1, <3>1, OthersFlight
  <2>2. CASE g = generation /\ Read(g)
    <3>1. PICK s \in Answers(task[g].filter) :
             task' = [task EXCEPT ![g].step = "read", ![g].block = head, ![g].found = s]
      BY <2>2 DEF Read
    <3>2. task'[generation].step = "read" BY <1>t, <2>2, <3>1 DEF Task
    <3> QED BY <2>0, <3>2 DEF ExpiryWatched
  <2>3. CASE g = generation /\ Complete(g)
    <3> DEFINE found == task[generation].found
               first == Earliest(found)
               again == dirty \/ Crossed(first, task[generation].block)
    <3>1. /\ task[generation].step = "read"
          /\ NextRound(generation, Health, again, reconcile)
          /\ listings' = found /\ boundary' = first /\ seen' = seen
      BY <2>3 DEF Complete, Current, Paint
    <3>2. again \in BOOLEAN BY DEF TypeOK, Crossed
    <3>3. \A x \in found : task[generation].block < x.expires BY <3>1 DEF SnapshotsTaken
    <3>4. ASSUME NEW x \in found, ~again PROVE seen < first /\ first <= x.expires
      <4>1. found # {} OBVIOUS
      <4>2. PICK y \in found : first = y.expires BY <1>t, <4>1, EarliestIs
      <4>3. first <= x.expires BY <1>t, EarliestIs
      <4>4. first \in Nat /\ task[generation].block < first BY <1>t, <3>3, <4>2 DEF Entry
      <4>5. ~(seen # NoHead /\ first # 0 /\ seen >= first) BY <3>4, <4>4 DEF Crossed
      <4> HIDE DEF first
      <4> QED BY <1>t, <4>3, <4>4, <4>5 DEF NoHead
    <3> HIDE DEF again, first, found
    <3>5. \/ task'[generation].step = "asked"
          \/ dirty' = again /\ reconcile' = (again \/ reconcile)
      BY <3>1, <3>2, RoundMarks DEF TypeOK
    <3>6. CASE task'[generation].step = "asked" BY <2>0, <3>6 DEF ExpiryWatched
    <3>7. CASE dirty' = again
      <4>1. CASE again BY <1>0, <3>7, <4>1 DEF Due
      <4>2. CASE ~again BY <3>1, <3>4, <4>2 DEF ExpiryWatched
      <4> QED BY <4>1, <4>2
    <3> QED BY <3>5, <3>6, <3>7
  <2>4. CASE g = generation /\ Fail(g)
    <3>1. NextRound(generation, "error", dirty, TRUE) BY <2>4 DEF Fail, Current
    <3>2. reconcile' BY <3>1 DEF NextRound
    <3> QED BY <1>0, <3>2 DEF Due
  <2> QED BY <1>7, <2>1, <2>2, <2>3, <2>4
<1>8. ASSUME NEW i \in DOMAIN gets, GetReads(i) \/ GetAnswers(i) \/ GetFails(i)
      PROVE  ExpiryWatched'
  <2>1. CASE GetReads(i) \/ GetAnswers(i)
    BY <1>2, <2>1 DEF GetReads, GetAnswers, session
  <2>2. CASE GetFails(i) /\ Current(gets[i].gen) BY <1>0, <2>2 DEF GetFails, Due
  <2>3. CASE GetFails(i) /\ ~Current(gets[i].gen)
    BY <1>2, <2>3 DEF GetFails, session, marks
  <2> QED BY <1>8, <2>1, <2>2, <2>3
<1>9. CASE LogsAcknowledged \/ Reconnect
  BY <1>2, <1>9 DEF LogsAcknowledged, Reconnect, session
<1>10. CASE Disconnect BY <1>0, <1>10 DEF Disconnect, Due
<1>11. CASE \E w \in wire : OnEntity(w)
  BY <1>2, <1>11 DEF OnEntity, EntityShown, EntityOverflows, EntityQueued, session
<1>12. ASSUME NEW b \in 1 .. head, OnHead(b) PROVE ExpiryWatched'
  <2>1. /\ UNCHANGED <<generation, listings>> /\ seen' = b /\ b \in Nat
    BY <1>12 DEF OnHead, session, TypeOK
  <2>2. CASE Refresh BY <1>0, <2>1, <2>2, RefreshIsDue
  <2>3. CASE ~Expired(b) /\ UNCHANGED <<marks, boundary, task, dirty>>
    <3>1. task'[generation] = task[generation] /\ (Due' <=> Due) BY <2>1, <2>3 DEF Due, marks
    <3>2. boundary # 0 => b < boundary BY <1>t, <2>1, <2>3 DEF Expired
    <3>3. ASSUME task[generation].step = "idle", ~Due, NEW x \in listings
          PROVE  b < boundary /\ boundary <= x.expires
      <4>1. seen < boundary /\ boundary <= x.expires BY <3>3 DEF ExpiryWatched
      <4> QED BY <1>t, <2>1, <3>2, <4>1
    <3> QED BY <2>1, <2>3, <3>1, <3>3 DEF ExpiryWatched
  <2> QED BY <1>12, <2>2, <2>3 DEF OnHead
<1> QED BY <1>3, <1>4, <1>5, <1>6, <1>7, <1>8, <1>9, <1>10, <1>11, <1>12 DEF Next

(***************************************************************************)
(* Whatever the snapshot lacks is remembered.                              *)
(***************************************************************************)
LEMMA RememberedSame ==
  ASSUME Remembered, UNCHANGED <<chain, filter>>, Snapshot' = Snapshot, Due => Due',
         ~Due => \A k \in OnItsWay \intersect Matching(filter) : k \in OnItsWay'
  PROVE  Remembered'
<1>1. Matching(filter)' = Matching(filter) BY DEF chain, Matching, Alive
<1>2. Changed' = Changed BY <1>1 DEF Changed, chain
<1>3. Changed \subseteq Matching(filter) BY DEF Changed
<1> QED BY <1>2, <1>3 DEF Remembered

LEMMA RememberedBlock ==
  ASSUME TypeOK, LiveInv, Remembered, NewBlock
  PROVE  Remembered'
<1> USE BoardAssumptions
<1>1. /\ head \in Nat /\ expires \in [Keys -> Nat] /\ head' = head + 1
      /\ entity \in [Keys -> {"future", "listed", "deleted"}]
  BY DEF TypeOK, NewBlock
<1>2. UNCHANGED <<generation, filter, listings, task, pending, gets, marks, dirty, conn>>
  BY DEF NewBlock, session, hydration
<1>3. Snapshot' = Snapshot /\ (Due' <=> Due) BY <1>2 DEF Snapshot, Due, marks
<1>4. SUFFICES ASSUME ~Due PROVE Changed' \subseteq OnItsWay' BY <1>3 DEF Remembered
<1>5. Changed \subseteq OnItsWay /\ conn = "up" BY <1>4 DEF Remembered, LiveInv, Due
<1>6. CASE UNCHANGED <<entity, expires, wire>>
  <2>1. \A k \in Keys : Alive(k)' => Alive(k) BY <1>1, <1>6 DEF Alive
  <2>2. Changed' \subseteq Changed BY <1>2, <1>3, <1>6, <2>1 DEF Changed, Matching
  <2>3. OnItsWay' = OnItsWay BY <1>2, <1>6 DEF OnItsWay
  <2> QED BY <1>5, <2>2, <2>3
<1>7. ASSUME NEW j \in Keys, Create(j) \/ Extend(j) \/ Delete(j)
      PROVE  Changed' \subseteq OnItsWay'
  <2>1. PICK type : wire' = wire \union {<<j, type>>}
    BY <1>5, <1>7 DEF Create, Extend, Delete, Announce
  <2>2. \A k \in Keys \ {j} : entity'[k] = entity[k] /\ expires'[k] = expires[k]
    BY <1>1, <1>7 DEF Create, Extend, Delete
  <2>3. \A k \in Keys \ {j} : Alive(k)' => Alive(k) BY <1>1, <2>2 DEF Alive
  <2>4. \A k \in Changed' : k \in Changed \/ k = j
    BY <1>2, <1>3, <2>2, <2>3 DEF Changed, Matching
  <2>5. OnItsWay \union {j} \subseteq OnItsWay'
    <3>1. <<j, type>> \in wire' /\ <<j, type>>[1] = j BY <2>1
    <3>2. OnItsWay \subseteq OnItsWay' BY <1>2, <2>1 DEF OnItsWay
    <3> QED BY <3>1, <3>2 DEF OnItsWay
  <2> QED BY <1>5, <2>4, <2>5
<1> QED BY <1>6, <1>7 DEF NewBlock

\* A flight shows what its snapshot showed, or makes a query due.
LEMMA FlightKeeps ==
  ASSUME TypeOK, NEW g \in Generations, Read(g) \/ Complete(g) \/ Fail(g),
         ~(g = generation /\ Read(g))
  PROVE  reconcile' \/ (Snapshot' = Snapshot /\ (Due => Due'))
<1>t. task \in [Generations -> Task] /\ generation \in Generations BY DEF TypeOK
<1>1. generation' = generation BY DEF Read, Complete, Fail, session
<1>2. CASE g # generation
  <2>1. task'[generation] = task[generation] /\ UNCHANGED <<listings, marks, dirty>>
    BY <1>2, OthersFlight
  <2> QED BY <1>1, <2>1 DEF Snapshot, Due, marks
<1>3. CASE g = generation /\ Complete(g)
  <2> DEFINE again == dirty \/ Crossed(Earliest(task[g].found), task[g].block)
  <2>1. /\ task[generation].step = "read" /\ listings' = task[generation].found
        /\ NextRound(generation, Health, again, reconcile)
        /\ UNCHANGED <<disconnected, connected>>
    BY <1>3 DEF Complete, Current, Paint
  <2>2. task'[generation].step # "read" BY <2>1, RoundLeavesRead
  <2>3. Snapshot' = Snapshot BY <1>1, <2>1, <2>2 DEF Snapshot
  <2>4. again \in BOOLEAN /\ (dirty => again) BY DEF TypeOK, Crossed
  <2> HIDE DEF again
  <2>5. \/ task'[generation].step = "asked"
        \/ dirty' = again /\ reconcile' = (again \/ reconcile)
    BY <2>1, <2>4, RoundMarks DEF TypeOK
  <2>6. Due => Due'
    <3>1. Due => reconcile \/ disconnected \/ ~connected \/ dirty BY <2>1 DEF Due
    <3>2. dirty \/ reconcile => task'[generation].step = "asked" \/ reconcile' BY <2>4, <2>5
    <3> QED BY <1>1, <2>1, <3>1, <3>2 DEF Due
  <2> QED BY <2>3, <2>6
<1>4. CASE g = generation /\ Fail(g)
  <2>1. NextRound(generation, "error", dirty, TRUE) BY <1>4 DEF Fail, Current
  <2> QED BY <2>1 DEF NextRound
<1> QED BY <1>2, <1>3, <1>4

LEMMA RememberedFlight ==
  ASSUME TypeOK, FilterInv, Remembered, NEW g \in Generations, Read(g) \/ Complete(g) \/ Fail(g)
  PROVE  Remembered'
<1>t. task \in [Generations -> Task] /\ generation \in Generations BY DEF TypeOK
<1>1. UNCHANGED <<generation, filter, chain, wire, pending, gets>>
  BY DEF Read, Complete, Fail, session, link, hydration
<1>2. OnItsWay' = OnItsWay BY <1>1 DEF OnItsWay
<1>3. CASE g = generation /\ Read(g)
  <2>1. PICK s \in Answers(filter) :
           task' = [task EXCEPT ![g].step = "read", ![g].block = head, ![g].found = s]
    BY <1>3 DEF Read, FilterInv, FlightInv
  <2>2. task'[generation].step = "read" /\ task'[generation].found = s
    BY <1>t, <1>3, <2>1 DEF Task
  <2>3. Snapshot' = s BY <1>1, <2>2 DEF Snapshot
  <2>4. Matching(filter)' = Matching(filter) BY <1>1 DEF chain, Matching, Alive
  <2>5. ASSUME NEW k \in Matching(filter)
        PROVE  /\ \E x \in s : JobOf[x.key] = JobOf[k]
               /\ \A x \in s : x.key = k => x.expires = expires[k]
    <3>1. {JobOf[x.key] : x \in s} = {JobOf[j] : j \in Matching(filter)} BY DEF Answers
    <3>2. \A x \in s : x.expires = expires[x.key] BY DEF Answers
    <3>3. JobOf[k] \in {JobOf[x.key] : x \in s} BY <3>1
    <3> QED BY <3>2, <3>3
  <2>6. Changed' = {} BY <1>1, <2>3, <2>4, <2>5 DEF Changed, chain
  <2> QED BY <2>6 DEF Remembered
<1>4. CASE ~(g = generation /\ Read(g))
  <2>1. reconcile' \/ (Snapshot' = Snapshot /\ (Due => Due')) BY <1>4, FlightKeeps
  <2> QED BY <1>1, <1>2, <2>1, RememberedSame DEF Remembered, Due
<1> QED BY <1>3, <1>4

\* A read that is answered or fails takes its own key off the way, and no other.
LEMMA GetsKeep ==
  ASSUME TypeOK, HydrationInv, NEW i \in DOMAIN gets,
         GetReads(i) \/ GetAnswers(i) \/ GetFails(i)
  PROVE  \A k \in OnItsWay : \/ k \in OnItsWay'
                             \/ /\ k = gets[i].key /\ gets[i].gen = generation
                                /\ GetAnswers(i) \/ GetFails(i)
<1>1. /\ gets \in Seq(Get) /\ gets[i] \in Range(gets) /\ pending \in Seq(Keys)
      /\ active \in Int /\ generation \in Nat /\ active <= Concurrency
  BY FilterNat, BoundedMeans DEF TypeOK, Range, HydrationInv
<1>2. UNCHANGED <<generation, wire>>
  BY DEF GetReads, GetAnswers, GetFails, session, link
<1>3. CASE GetReads(i)
  <2>1. \A x \in Range(gets) : \E y \in Range(gets') : y.gen = x.gen /\ y.key = x.key
    BY <1>3, ReadsRange
  <2>2. UNCHANGED <<pending, task, marks, dirty>> BY <1>3 DEF GetReads
  <2>3. OnItsWay \subseteq OnItsWay'
    <3>1. ASSUME NEW x \in Range(gets), x.gen = generation PROVE x.key \in OnItsWay'
      <4>1. PICK y \in Range(gets') : y.gen = generation /\ y.key = x.key BY <2>1, <3>1
      <4> QED BY <1>2, <4>1 DEF OnItsWay
    <3> QED BY <1>2, <2>2, <3>1 DEF OnItsWay
  <2> QED BY <2>3
<1> DEFINE others == RemoveAt(gets, i)
<1>4. others \in Seq(Get) /\ Range(gets) \subseteq Range(others) \union {gets[i]}
  BY <1>1, RangeRemove
<1> HIDE DEF others
\* What is on its way after the read is gone, its own key apart.
<1>5. ASSUME GetAnswers(i) \/ GetFails(i)
      PROVE  \A k \in OnItsWay :
                k \in OnItsWay' \/ (k = gets[i].key /\ gets[i].gen = generation)
  <2>1. CASE gets' = others /\ pending' = pending
    <3>1. \A x \in Range(gets) : x \in Range(gets') \/ x = gets[i] BY <1>4, <2>1
    <3> QED BY <1>2, <2>1, <3>1 DEF OnItsWay
  <2>2. CASE Pump(pending, active - 1, others)
    <3>1. active - 1 \in Int /\ active - 1 <= Concurrency BY <1>1, BoardAssumptions
    <3>2. /\ Range(others) \subseteq Range(gets')
          /\ \A k \in Range(pending) :
                k \in Range(pending') \/ \E x \in Range(gets') : x.gen = generation /\ x.key = k
      BY <1>1, <1>4, <2>2, <3>1, PumpKeeps
    <3>3. \A x \in Range(gets) : x \in Range(gets') \/ x = gets[i] BY <1>4, <3>2
    <3>4. \A k \in Range(pending) : k \in OnItsWay' BY <1>2, <3>2 DEF OnItsWay
    <3> QED BY <1>2, <3>3, <3>4 DEF OnItsWay
  <2> QED BY <1>5, <2>1, <2>2 DEF GetAnswers, GetFails, others
<1> QED BY <1>3, <1>5

LEMMA RememberedGets ==
  ASSUME TypeOK, HydrationInv, WordIsTrue, Remembered, NEW i \in DOMAIN gets,
         GetReads(i) \/ GetAnswers(i) \/ GetFails(i)
  PROVE  Remembered'
<1>1. gets \in Seq(Get) /\ gets[i] \in Range(gets) BY DEF TypeOK, Range
<1>2. UNCHANGED <<generation, filter, chain, wire, listings>>
  BY DEF GetReads, GetAnswers, GetFails, session, link
<1>3. \A k \in OnItsWay : \/ k \in OnItsWay'
                          \/ /\ k = gets[i].key /\ gets[i].gen = generation
                             /\ GetAnswers(i) \/ GetFails(i)
  BY GetsKeep
<1>4. CASE GetReads(i) /\ ~GetAnswers(i) /\ ~GetFails(i)
  <2>1. UNCHANGED <<task, marks, dirty>> BY <1>4 DEF GetReads
  <2>2. Snapshot' = Snapshot /\ (Due => Due') BY <1>2, <2>1 DEF Snapshot, Due, marks
  <2> QED BY <1>2, <1>4, <1>3, <2>2, RememberedSame
<1>5. CASE GetAnswers(i) /\ Current(gets[i].gen) /\ Relevant(gets[i])
  <2>1. Refresh BY <1>5 DEF GetAnswers
  <2> QED BY <1>2, <2>1, RefreshIsDue DEF Remembered
<1>6. CASE GetAnswers(i) /\ ~(Current(gets[i].gen) /\ Relevant(gets[i]))
  <2>1. UNCHANGED <<task, marks, dirty>> BY <1>6 DEF GetAnswers
  <2>2. Snapshot' = Snapshot /\ (Due => Due') BY <1>2, <2>1 DEF Snapshot, Due, marks
  <2>3. gets[i].gen = generation => gets[i].key \notin Matching(filter)
    <3> SUFFICES ASSUME gets[i].gen = generation PROVE gets[i].key \notin Matching(filter)
      OBVIOUS
    <3>1. gets[i] \in Get /\ gets[i].answer # "none" /\ ~Relevant(gets[i])
      BY <1>1, <1>6, RangeOfSeq DEF GetAnswers, Current
    <3>2. CASE gets[i].answer = "gone" BY <1>1, <3>2 DEF WordIsTrue, Matching
    <3>3. CASE gets[i].answer = "found" BY <3>1, <3>3 DEF Relevant, Matching
    <3> QED BY <3>1, <3>2, <3>3 DEF Get
  <2> QED BY <1>2, <1>3, <1>6, <2>2, <2>3, RememberedSame
<1>7. CASE GetFails(i) /\ Current(gets[i].gen) BY <1>7 DEF GetFails, Remembered, Due
<1>8. CASE GetFails(i) /\ ~Current(gets[i].gen)
  <2>1. UNCHANGED <<task, marks, dirty>> BY <1>8 DEF GetFails, marks
  <2>2. Snapshot' = Snapshot /\ (Due => Due') BY <1>2, <2>1 DEF Snapshot, Due, marks
  <2> QED BY <1>2, <1>3, <1>8, <2>2, RememberedSame DEF Current
<1> QED BY <1>4, <1>5, <1>6, <1>7, <1>8

\* A key that is queued stays on its way, with all that were before it.
LEMMA EntityKeeps ==
  ASSUME TypeOK, HydrationInv, NEW w \in wire, OnEntity(w), EntityQueued(w[1])
  PROVE  OnItsWay \subseteq OnItsWay'
<1>1. /\ gets \in Seq(Get) /\ pending \in Seq(Keys) /\ w[1] \in Keys
      /\ active \in Int /\ generation \in Nat /\ active <= Concurrency
  BY FilterNat, BoundedMeans DEF TypeOK, HydrationInv
<1>2. generation' = generation /\ wire' = wire \ {w} BY DEF OnEntity, session
<1> DEFINE ks == IF Contains(pending, w[1]) THEN pending ELSE Append(pending, w[1])
<1>3. ks \in Seq(Keys) /\ Range(pending) \union {w[1]} \subseteq Range(ks)
  <2>1. CASE Contains(pending, w[1])
    <3>1. PICK j \in 1 .. Len(pending) : pending[j] = w[1] BY <2>1 DEF Contains
    <3>2. w[1] \in Range(pending) BY <1>1, <3>1, LenProperties DEF Range
    <3> QED BY <1>1, <2>1, <3>2
  <2>2. CASE ~Contains(pending, w[1]) BY <1>1, <2>2, RangeAppend
  <2> QED BY <2>1, <2>2
<1>4. Pump(ks, active, gets) /\ UNCHANGED <<task, dirty>> BY DEF EntityQueued
<1> HIDE DEF ks
<1>5. /\ Range(gets) \subseteq Range(gets')
      /\ \A k \in Range(ks) :
            k \in Range(pending') \/ \E x \in Range(gets') : x.gen = generation /\ x.key = k
  BY <1>1, <1>3, <1>4, PumpKeeps
<1>6. \A k \in Range(ks) : k \in OnItsWay' BY <1>2, <1>5 DEF OnItsWay
<1>7. \A v \in wire : v[1] \in OnItsWay'
  <2> TAKE v \in wire
  <2>1. CASE v = w BY <1>3, <1>6, <2>1
  <2>2. CASE v # w BY <1>2, <2>2 DEF OnItsWay
  <2> QED BY <2>1, <2>2
<1>8. OnItsWay \subseteq OnItsWay' BY <1>2, <1>3, <1>5, <1>6, <1>7 DEF OnItsWay
<1> QED BY <1>8

LEMMA RememberedEntity ==
  ASSUME TypeOK, HydrationInv, Remembered, NEW w \in wire, OnEntity(w)
  PROVE  Remembered'
<1>1. UNCHANGED <<generation, filter, chain, listings, marks>> BY DEF OnEntity, session
<1>2. CASE Refresh BY <1>1, <1>2, RefreshIsDue DEF Remembered
<1>3. CASE EntityQueued(w[1])
  <2>1. OnItsWay \subseteq OnItsWay' BY <1>3, EntityKeeps
  <2>2. Snapshot' = Snapshot /\ (Due => Due')
    BY <1>1, <1>3 DEF EntityQueued, Snapshot, Due, marks
  <2> QED BY <1>1, <2>1, <2>2, RememberedSame
<1> QED BY <1>2, <1>3 DEF OnEntity, EntityShown, EntityOverflows

LEMMA RememberedStep ==
  TypeOK /\ HydrationInv /\ LiveInv /\ FilterInv /\ WordIsTrue /\ Remembered /\ [Next]_vars
    => Remembered'
<1> SUFFICES ASSUME TypeOK, HydrationInv, LiveInv, FilterInv, WordIsTrue, Remembered, [Next]_vars
             PROVE  Remembered'
  OBVIOUS
\* A step that keeps what is shown, what is due and what is on its way.
<1>0. ASSUME UNCHANGED <<chain, session, wire, pending, gets, listings, marks>>,
             Refresh \/ UNCHANGED <<task, dirty>>
      PROVE  Remembered'
  <2>1. CASE Refresh BY <1>0, <2>1, RefreshIsDue DEF Remembered, session
  <2>2. CASE UNCHANGED <<task, dirty>>
    <3>1. OnItsWay' = OnItsWay /\ Snapshot' = Snapshot /\ (Due => Due')
      BY <1>0, <2>2 DEF OnItsWay, Snapshot, Due, marks, session
    <3> QED BY <1>0, <3>1, RememberedSame DEF session
  <2> QED BY <1>0, <2>1, <2>2
<1>1. CASE UNCHANGED vars BY <1>0, <1>1 DEF vars, link, hydration
<1>2. CASE NewBlock BY <1>2, RememberedBlock
<1>3. CASE (\E f \in Filters : Start(f)) \/ Stop
  <2>1. connected' = FALSE BY <1>3 DEF Start, Stop, Restart
  <2> QED BY <2>1 DEF Remembered, Due
<1>4. CASE UserRefresh BY <1>0, <1>4 DEF UserRefresh, link, hydration
<1>5. CASE \E g \in Generations : Read(g) \/ Complete(g) \/ Fail(g) BY <1>5, RememberedFlight
<1>6. CASE \E i \in DOMAIN gets : GetReads(i) \/ GetAnswers(i) \/ GetFails(i)
  BY <1>6, RememberedGets
<1>7. CASE LogsAcknowledged \/ Reconnect
  BY <1>0, <1>7 DEF LogsAcknowledged, Reconnect, hydration
<1>8. CASE Disconnect BY <1>8 DEF Disconnect, Remembered, Due
<1>9. CASE \E w \in wire : OnEntity(w) BY <1>9, RememberedEntity
<1>10. ASSUME NEW b \in 1 .. head, OnHead(b) PROVE Remembered'
  <2>1. generation' = generation BY <1>10 DEF OnHead, session
  <2>2. CASE Refresh BY <2>1, <2>2, RefreshIsDue DEF Remembered
  <2>3. CASE UNCHANGED <<marks, task, dirty>> BY <1>0, <1>10, <2>3 DEF OnHead, hydration
  <2> QED BY <1>10, <2>2, <2>3 DEF OnHead
<1> QED BY <1>1, <1>2, <1>3, <1>4, <1>5, <1>6, <1>7, <1>8, <1>9, <1>10 DEF Next

LEMMA MissedInit == Init /\ TypeOK => MissedInv
<1> SUFFICES ASSUME Init, TypeOK PROVE MissedInv OBVIOUS
<1>1. task[generation] = Idle BY DEF Init, TypeOK
<1>2. task[generation].step = "idle" BY <1>1 DEF Idle
<1>3. Range(pending) = {} /\ Range(gets) = {} BY DEF Init, Range
<1>4. Remembered BY DEF Init, Remembered, Due
<1>5. WordIsTrue BY <1>3 DEF Init, WordIsTrue
<1>6. SnapshotsTaken BY <1>2 DEF Init, SnapshotsTaken, Taken
<1>7. MarksKept BY DEF Init, MarksKept
<1>8. ExpiryWatched BY DEF Init, ExpiryWatched
<1> QED BY <1>4, <1>5, <1>6, <1>7, <1>8 DEF MissedInv

LEMMA MissedStep ==
  TypeOK /\ TypeOK' /\ HydrationInv /\ LiveInv /\ FilterInv /\ MissedInv /\ [Next]_vars
    => MissedInv'
BY RememberedStep, WordStep, TakenStep, MarksStep, WatchStep DEF MissedInv

(***************************************************************************)
(* Deleted listings: what a snapshot still shows of them is on its way     *)
(* too, as long as no answer is overtaken.                                 *)
(***************************************************************************)
Withdrawn == {x.key : x \in {y \in Snapshot : entity[y.key] = "deleted"}}

WithdrawnKnown == Due \/ Withdrawn \subseteq OnItsWay

LEMMA DeletionsShownFollows ==
  ASSUME TypeOK, HydrationInv, MissedInv, WithdrawnKnown
  PROVE  DeletionsShown
<1> SUFFICES ASSUME Settled PROVE \A x \in listings : entity[x.key] # "deleted"
  BY DEF DeletionsShown
<1>1. ~Due /\ OnItsWay = {} BY RestIsSilent
<1>2. Snapshot = listings BY DEF Settled, Snapshot
<1>3. Withdrawn = {} BY <1>1 DEF WithdrawnKnown
<1> QED BY <1>2, <1>3 DEF Withdrawn

LEMMA WithdrawnSame ==
  ASSUME WithdrawnKnown, UNCHANGED chain, Snapshot' = Snapshot, Due => Due',
         ~Due => \A k \in OnItsWay : k \in OnItsWay' \/ k \notin Withdrawn
  PROVE  WithdrawnKnown'
<1>1. Withdrawn' = Withdrawn BY DEF Withdrawn, chain
<1> QED BY <1>1 DEF WithdrawnKnown

LEMMA WithdrawnBlock ==
  ASSUME TypeOK, LiveInv, WithdrawnKnown, NewBlock
  PROVE  WithdrawnKnown'
<1>1. UNCHANGED <<generation, filter, listings, task, pending, gets, marks, dirty, conn>>
  BY DEF NewBlock, session, hydration
<1>2. Snapshot' = Snapshot /\ (Due' <=> Due) BY <1>1 DEF Snapshot, Due, marks
<1>3. SUFFICES ASSUME ~Due PROVE Withdrawn' \subseteq OnItsWay' BY <1>2 DEF WithdrawnKnown
<1>4. Withdrawn \subseteq OnItsWay /\ conn = "up" BY <1>3 DEF WithdrawnKnown, LiveInv, Due
<1>5. CASE UNCHANGED <<entity, expires, wire>>
  <2>1. Withdrawn' = Withdrawn BY <1>2, <1>5 DEF Withdrawn
  <2>2. OnItsWay' = OnItsWay BY <1>1, <1>5 DEF OnItsWay
  <2> QED BY <1>4, <2>1, <2>2
<1>6. ASSUME NEW j \in Keys, Create(j) \/ Extend(j) \/ Delete(j)
      PROVE  Withdrawn' \subseteq OnItsWay'
  <2>1. PICK type : wire' = wire \union {<<j, type>>}
    BY <1>4, <1>6 DEF Create, Extend, Delete, Announce
  <2>2. entity \in [Keys -> {"future", "listed", "deleted"}] BY DEF TypeOK
  <2>3. \A k \in Keys \ {j} : entity'[k] = entity[k] BY <1>6, <2>2 DEF Create, Extend, Delete
  <2>4. \A x \in Snapshot : x.key \in Keys
    <3>1. task[generation] \in Task BY DEF TypeOK
    <3> QED BY <3>1 DEF Snapshot, TypeOK, Task
  <2>5. \A k \in Withdrawn' : k \in Withdrawn \/ k = j BY <1>2, <2>3, <2>4 DEF Withdrawn
  <2>6. OnItsWay \union {j} \subseteq OnItsWay'
    <3>1. <<j, type>> \in wire' /\ <<j, type>>[1] = j BY <2>1
    <3>2. OnItsWay \subseteq OnItsWay' BY <1>1, <2>1 DEF OnItsWay
    <3> QED BY <3>1, <3>2 DEF OnItsWay
  <2> QED BY <1>4, <2>5, <2>6
<1> QED BY <1>5, <1>6 DEF NewBlock

LEMMA WithdrawnFlight ==
  ASSUME TypeOK, WithdrawnKnown, NEW g \in Generations, Read(g) \/ Complete(g) \/ Fail(g)
  PROVE  WithdrawnKnown'
<1>t. task \in [Generations -> Task] /\ generation \in Generations BY DEF TypeOK
<1>1. UNCHANGED <<generation, filter, chain, wire, pending, gets>>
  BY DEF Read, Complete, Fail, session, link, hydration
<1>2. OnItsWay' = OnItsWay BY <1>1 DEF OnItsWay
<1>3. CASE g = generation /\ Read(g)
  <2>1. PICK s \in Answers(task[g].filter) :
           task' = [task EXCEPT ![g].step = "read", ![g].block = head, ![g].found = s]
    BY <1>3 DEF Read
  <2>2. task'[generation].step = "read" /\ task'[generation].found = s
    BY <1>t, <1>3, <2>1 DEF Task
  <2>3. Snapshot' = s BY <1>1, <2>2 DEF Snapshot
  <2>4. \A x \in s : entity[x.key] = "listed" BY DEF Answers, Matching, Alive
  <2>5. Withdrawn' = {} BY <1>1, <2>3, <2>4 DEF Withdrawn, chain
  <2> QED BY <2>5 DEF WithdrawnKnown
<1>4. CASE ~(g = generation /\ Read(g))
  <2>1. reconcile' \/ (Snapshot' = Snapshot /\ (Due => Due')) BY <1>4, FlightKeeps
  <2> QED BY <1>1, <1>2, <2>1, WithdrawnSame DEF WithdrawnKnown, Due
<1> QED BY <1>3, <1>4

LEMMA WithdrawnGets ==
  ASSUME TypeOK, HydrationInv, FilterInv, WithdrawnKnown, NEW i \in DOMAIN gets,
         GetReads(i) \/ GetAnswers(i) \/ GetFails(i), ~Overtaken(i)
  PROVE  WithdrawnKnown'
<1>1. gets \in Seq(Get) /\ gets[i] \in Get BY RangeOfSeq DEF TypeOK, Range
<1>2. UNCHANGED <<generation, filter, chain, wire, listings>>
  BY DEF GetReads, GetAnswers, GetFails, session, link
<1>3. \A k \in OnItsWay : \/ k \in OnItsWay'
                          \/ /\ k = gets[i].key /\ gets[i].gen = generation
                             /\ GetAnswers(i) \/ GetFails(i)
  BY GetsKeep
<1>4. CASE (GetAnswers(i) /\ Current(gets[i].gen) /\ Relevant(gets[i]))
           \/ (GetFails(i) /\ Current(gets[i].gen))
  <2>1. CASE GetAnswers(i) /\ Current(gets[i].gen) /\ Relevant(gets[i])
    <3>1. Refresh BY <2>1 DEF GetAnswers
    <3> QED BY <1>2, <3>1, RefreshIsDue DEF WithdrawnKnown
  <2>2. CASE GetFails(i) /\ Current(gets[i].gen) BY <2>2 DEF GetFails, WithdrawnKnown, Due
  <2> QED BY <1>4, <2>1, <2>2
<1>5. CASE ~(GetAnswers(i) /\ Current(gets[i].gen) /\ Relevant(gets[i]))
           /\ ~(GetFails(i) /\ Current(gets[i].gen))
  <2>1. UNCHANGED <<task, marks, dirty>> BY <1>5 DEF GetReads, GetAnswers, GetFails, marks
  <2>2. Snapshot' = Snapshot /\ (Due => Due') BY <1>2, <2>1 DEF Snapshot, Due, marks
  <2>3. ASSUME ~Due, GetAnswers(i) \/ GetFails(i), gets[i].gen = generation
        PROVE  gets[i].key \notin Withdrawn
    <3>1. GetAnswers(i) /\ Current(gets[i].gen) /\ ~Relevant(gets[i])
      BY <1>5, <2>3 DEF Current
    <3>2. gets[i].answer \in {"found", "gone"} BY <1>1, <3>1 DEF GetAnswers, Get
    <3>3. gets[i].key \notin KeysOf(listings) BY <3>1 DEF Relevant
    <3>4. SUFFICES ASSUME NEW x \in Snapshot, x.key = gets[i].key PROVE FALSE
      BY DEF Withdrawn
    <3>5. task[generation].step = "read" /\ x \in task[generation].found
      BY <3>3, <3>4 DEF Snapshot, KeysOf
    <3>6. CASE gets[i].answer = "gone"
      <4>1. gets[i].key \in KeysOf(task[generation].found) BY <3>4, <3>5 DEF KeysOf
      <4> QED BY <2>3, <3>1, <3>3, <3>5, <3>6, <4>1 DEF Overtaken, Due
    <3>7. CASE gets[i].answer = "found"
      <4>1. RewardOf[x.key] >= filter BY <3>5 DEF FilterInv, FlightInv, Accepts
      <4> QED BY <3>1, <3>4, <3>7, <4>1 DEF Relevant
    <3> QED BY <3>2, <3>6, <3>7
  <2> QED BY <1>2, <1>3, <2>2, <2>3, WithdrawnSame
<1> QED BY <1>4, <1>5

LEMMA WithdrawnEntity ==
  ASSUME TypeOK, HydrationInv, WithdrawnKnown, NEW w \in wire, OnEntity(w)
  PROVE  WithdrawnKnown'
<1>1. UNCHANGED <<generation, chain, listings, marks>> BY DEF OnEntity, session
<1>2. CASE Refresh BY <1>1, <1>2, RefreshIsDue DEF WithdrawnKnown
<1>3. CASE EntityQueued(w[1])
  <2>1. OnItsWay \subseteq OnItsWay' BY <1>3, EntityKeeps
  <2>2. Snapshot' = Snapshot /\ (Due => Due')
    BY <1>1, <1>3 DEF EntityQueued, Snapshot, Due, marks
  <2> QED BY <1>1, <2>1, <2>2, WithdrawnSame
<1> QED BY <1>2, <1>3 DEF OnEntity, EntityShown, EntityOverflows

LEMMA WithdrawnStep ==
  /\ TypeOK /\ HydrationInv /\ LiveInv /\ FilterInv /\ WithdrawnKnown
  /\ [Next]_vars /\ (\A i \in DOMAIN gets : ~Overtaken(i))
  => WithdrawnKnown'
<1> SUFFICES ASSUME TypeOK, HydrationInv, LiveInv, FilterInv, WithdrawnKnown, [Next]_vars,
                    \A i \in DOMAIN gets : ~Overtaken(i)
             PROVE  WithdrawnKnown'
  OBVIOUS
\* A step that keeps what is shown, what is due and what is on its way.
<1>0. ASSUME UNCHANGED <<chain, session, wire, pending, gets, listings, marks>>,
             Refresh \/ UNCHANGED <<task, dirty>>
      PROVE  WithdrawnKnown'
  <2>1. CASE Refresh BY <1>0, <2>1, RefreshIsDue DEF WithdrawnKnown, session
  <2>2. CASE UNCHANGED <<task, dirty>>
    <3>1. OnItsWay' = OnItsWay /\ Snapshot' = Snapshot /\ (Due => Due')
      BY <1>0, <2>2 DEF OnItsWay, Snapshot, Due, marks, session
    <3> QED BY <1>0, <3>1, WithdrawnSame DEF session
  <2> QED BY <1>0, <2>1, <2>2
<1>1. CASE UNCHANGED vars BY <1>0, <1>1 DEF vars, link, hydration
<1>2. CASE NewBlock BY <1>2, WithdrawnBlock
<1>3. CASE (\E f \in Filters : Start(f)) \/ Stop
  <2>1. connected' = FALSE BY <1>3 DEF Start, Stop, Restart
  <2> QED BY <2>1 DEF WithdrawnKnown, Due
<1>4. CASE UserRefresh BY <1>0, <1>4 DEF UserRefresh, link, hydration
<1>5. CASE \E g \in Generations : Read(g) \/ Complete(g) \/ Fail(g) BY <1>5, WithdrawnFlight
<1>6. CASE \E i \in DOMAIN gets : GetReads(i) \/ GetAnswers(i) \/ GetFails(i)
  BY <1>6, WithdrawnGets
<1>7. CASE LogsAcknowledged \/ Reconnect
  BY <1>0, <1>7 DEF LogsAcknowledged, Reconnect, hydration
<1>8. CASE Disconnect BY <1>8 DEF Disconnect, WithdrawnKnown, Due
<1>9. CASE \E w \in wire : OnEntity(w) BY <1>9, WithdrawnEntity
<1>10. ASSUME NEW b \in 1 .. head, OnHead(b) PROVE WithdrawnKnown'
  <2>1. generation' = generation BY <1>10 DEF OnHead, session
  <2>2. CASE Refresh BY <2>1, <2>2, RefreshIsDue DEF WithdrawnKnown
  <2>3. CASE UNCHANGED <<marks, task, dirty>> BY <1>0, <1>10, <2>3 DEF OnHead, hydration
  <2> QED BY <1>10, <2>2, <2>3 DEF OnHead
<1> QED BY <1>1, <1>2, <1>3, <1>4, <1>5, <1>6, <1>7, <1>8, <1>9, <1>10 DEF Next

(***************************************************************************)
(* The theorems.                                                           *)
(***************************************************************************)
IInv == TypeOK /\ HydrationInv /\ LiveInv /\ FilterInv /\ DeletionInv /\ MissedInv

LEMMA InitIInv == Init => IInv
<1> SUFFICES ASSUME Init PROVE IInv OBVIOUS
<1>1. TypeOK /\ HydrationInv BY TypeInit, HydrationInit
<1>2. LiveInv BY DEF Init, LiveInv, LiveIsConnected
<1>3. task[generation] = Idle
  <2>1. generation \in Generations BY <1>1 DEF TypeOK
  <2> QED BY <2>1 DEF Init
<1>4. FilterInv BY <1>3 DEF Init, FilterInv, FlightInv, StoppedInv, Accepts, Idle
<1>5. DeletionInv
  BY DeletionFresh DEF Init
<1>6. MissedInv BY <1>1, MissedInit
<1> QED BY <1>1, <1>2, <1>4, <1>5, <1>6 DEF IInv

LEMMA NextIInv == IInv /\ [Next]_vars => IInv'
<1> SUFFICES ASSUME IInv, [Next]_vars PROVE IInv' OBVIOUS
<1>1. active <= Concurrency /\ NoneFromLater
  BY BoundedMeans DEF IInv, HydrationInv
<1>2. TypeOK' BY <1>1, TypeStep DEF IInv
<1>3. HydrationInv' /\ LiveInv' /\ FilterInv' /\ DeletionInv'
  BY <1>1, HydrationStep, LiveStep, FilterStep, DeletionStep DEF IInv
<1>4. MissedInv' BY <1>2, MissedStep DEF IInv
<1> QED BY <1>2, <1>3, <1>4 DEF IInv

THEOREM Inductive == Spec => []IInv
BY InitIInv, NextIInv, PTL DEF Spec

\* Types hold throughout; in particular the stream never retries more often
\* than it may and no head the chain has not reached is believed.
THEOREM TypeCorrect == Spec => []TypeOK
BY Inductive, PTL DEF IInv

\* However sessions, answers and failures interleave, the hydration counter
\* is the number of reads on their way and neither limit is exceeded.
THEOREM HydrationIsBounded == Spec => []HydrationBounded
BY Inductive, PTL DEF IInv, HydrationInv

\* No answer to an earlier filter is ever shown.
THEOREM FilterIsRespected == Spec => []OnlyThisFilter
<1>1. IInv => OnlyThisFilter BY FilterImplies DEF IInv
<1> QED BY <1>1, Inductive, PTL

\* A board without an established stream does not say it is live.
THEOREM LiveMeansConnected == Spec => []LiveIsConnected
BY Inductive, PTL DEF IInv, LiveInv

\* A deletion the board heard of is never reported as a natural expiry.
THEOREM DeletionIsReported == Spec => []DeletionIsNotExpiry
BY Inductive, PTL DEF IInv, DeletionInv

\* A live board with nothing on its way has missed nothing, whatever was lost,
\* reordered or answered late before: it shows every job the chain lists for
\* the filter, and nothing that expired or was renewed since.
THEOREM NothingIsMissed == Spec => []NothingMissed
<1>1. IInv => NothingMissed BY NothingMissedFollows DEF IInv
<1> QED BY <1>1, Inductive, PTL

\* And it shows no deleted listing either, unless a read that found the entity
\* gone was overtaken by a query that had found it: the one order of events in
\* which "Event during initial snapshot sets dirty reconciliation"
\* (docs/review-pass/arkiv/implementation.md:63) fails.
THEOREM DeletionsAreShown ==
  Spec /\ [][\A i \in DOMAIN gets : ~Overtaken(i)]_vars => []DeletionsShown
<1>1. Init => WithdrawnKnown BY DEF Init, WithdrawnKnown, Due
<1>2. IInv /\ WithdrawnKnown /\ [Next]_vars /\ [\A i \in DOMAIN gets : ~Overtaken(i)]_vars
        => WithdrawnKnown'
  <2>1. CASE \A i \in DOMAIN gets : ~Overtaken(i) BY <2>1, WithdrawnStep DEF IInv
  <2>2. CASE UNCHANGED vars
    BY <2>2 DEF vars, chain, link, session, marks, hydration, WithdrawnKnown, Due, Withdrawn,
            Snapshot, OnItsWay
  <2> QED BY <2>1, <2>2
<1>3. IInv /\ WithdrawnKnown => DeletionsShown BY DeletionsShownFollows DEF IInv
<1> QED BY <1>1, <1>2, <1>3, Inductive, PTL DEF Spec
=============================================================================
