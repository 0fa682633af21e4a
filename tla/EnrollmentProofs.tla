-------------------------- MODULE EnrollmentProofs --------------------------
(***************************************************************************)
(* Proofs about Enrollment.  Type correctness; then, that a holder once in *)
(* the vault is never replaced, because every copy of an entry that a tab  *)
(* or a backup may write back has that holder; then, that what the vault   *)
(* calls submitted has a row, which lives at least as long; that one       *)
(* instance confirms one row of a ticket; and that setups which do not     *)
(* overlap keep a valid credential.                                        *)
(***************************************************************************)
EXTENDS Enrollment, SequenceTheorems, TLAPS

-----------------------------------------------------------------------------
(* Type correctness.                                                       *)

LEMMA EntryFacts ==
    ASSUME NEW h \in Nat
    PROVE  /\ Bare(h) \in Entry /\ Bare(h).holder = h
           /\ Bare(h).credential = NoCredential
           /\ Bare(h).pending = 0 /\ Bare(h).submitted = "no"
           /\ \A k \in Nat :
                LET e == [Bare(h) EXCEPT !.pending = k] IN
                  /\ e \in Entry /\ e.holder = h
                  /\ e.pending = k /\ e.submitted = "no"
           /\ \A c \in Credential :
                LET e == [Bare(h) EXCEPT !.credential = c] IN
                  /\ e \in Entry /\ e.holder = h
                  /\ e.pending = 0 /\ e.submitted = "no"
BY DEF Bare, Empty, Entry, Credential, NoCredential

LEMMA EmptyFacts ==
    /\ Empty \in Entry /\ Empty.holder = 0 /\ Empty.pending = 0 /\ Empty.submitted = "no"
    /\ Idle \in Tab /\ Idle.entry = Empty /\ Idle.step = "idle"
BY DEF Empty, Entry, Credential, NoCredential, Idle, Tab, Steps

\* What a setup looks like to the invariants.
TabTyped(t) ==
    /\ tab[t].entry.pending <= Len(sealed)
    /\ tab[t].step \in {"sign", "post", "poll", "collect"} => tab[t].entry.pending # 0
    /\ tab[t].step = "post" => tab[t].post \in 1..Len(posts)

Referred ==
    /\ \A k \in Tickets : sealed[k].at <= now
    /\ vault.pending <= Len(sealed) /\ file.pending <= Len(sealed)
    /\ \A r \in rows : r.ticket \in Tickets
    /\ \A c \in granted : c.ticket \in Tickets

PostTyped(p) ==
    /\ posts[p].ticket \in Tickets
    /\ posts[p].answer = "none" <=> posts[p].stage \in {"sent", "admitted"}

LEMMA TypeSplit ==
    TypeOK <=> /\ Typed /\ Referred
               /\ \A p \in 1..Len(posts) : PostTyped(p)
               /\ \A t \in Tabs : TabTyped(t)
BY DEF TypeOK, Referred, PostTyped, TabTyped

LEMMA InitTypeOK == Init => TypeOK
<1> SUFFICES ASSUME Init PROVE TypeOK
  OBVIOUS
<1>1. Len(sealed) = 0 /\ Len(posts) = 0
  BY DEF Init
<1>2. Typed
  <2>1. << >> \in Seq([holder : Nat \ {0}, at : Nat]) /\ << >> \in Seq(Post)
    BY EmptySeq
  <2> QED
    BY <2>1, EmptyFacts DEF Init, Typed
<1> QED
  BY <1>1, <1>2, EmptyFacts DEF Init, TypeOK, Tickets

\* A step that touches one setup only.
LEMMA TabStep ==
    ASSUME TypeOK, NEW t \in Tabs, NEW s \in Tab, Become(t, s),
           s.entry.pending <= Len(sealed'),
           s.step \in {"sign", "post", "poll", "collect"} => s.entry.pending # 0,
           s.step = "post" => s.post \in 1..Len(posts'),
           Len(sealed) <= Len(sealed'), Len(sealed') \in Nat,
           Len(posts) <= Len(posts'), Len(posts') \in Nat
    PROVE  tab' \in [Tabs -> Tab] /\ \A u \in Tabs : TabTyped(u)'
<1>1. tab \in [Tabs -> Tab] /\ Len(sealed) \in Nat /\ Len(posts) \in Nat
  BY DEF TypeOK, Typed
<1>2. tab' = [tab EXCEPT ![t] = s]
  BY DEF Become
<1>3. tab' \in [Tabs -> Tab]
  BY <1>1, <1>2
<1>4. ASSUME NEW u \in Tabs PROVE TabTyped(u)'
  <2>1. CASE u = t
    <3>1. tab'[u] = s
      BY <1>1, <1>2, <2>1
    <3> QED
      BY <3>1 DEF TabTyped
  <2>2. CASE u # t
    <3>1. tab'[u] = tab[u] /\ TabTyped(u)
      BY <1>1, <1>2, <2>2, TypeSplit
    <3>2. tab[u].entry.pending \in Nat
      BY <1>1 DEF Tab, Entry
    <3> QED
      BY <1>1, <3>1, <3>2 DEF TabTyped
  <2> QED
    BY <2>1, <2>2
<1> QED
  BY <1>3, <1>4

LEMMA AppendFacts ==
    ASSUME NEW S, NEW q \in Seq(S), NEW x \in S
    PROVE  /\ Append(q, x) \in Seq(S) /\ Len(Append(q, x)) = Len(q) + 1
           /\ \A k \in 1..Len(q) : Append(q, x)[k] = q[k]
           /\ Append(q, x)[Len(q) + 1] = x
BY AppendProperties

\* A setup, its request and the vault as they were, what was referred to
\* still is.
LEMMA TypeFrame ==
    ASSUME TypeOK, now' = now, faults' \in Nat, restores' \in Nat,
           UNCHANGED <<sealed, file, rows, posts>>, granted' \subseteq Credential,
           \A c \in granted' : c.ticket \in Tickets,
           vault' \in Entry, vault'.pending <= Len(sealed),
           tab' \in [Tabs -> Tab], \A u \in Tabs : TabTyped(u)'
    PROVE  TypeOK'
<1>1. Typed'
  BY DEF TypeOK, Typed
<1>2. Referred'
  BY TypeSplit DEF Referred, Tickets
<1>3. \A p \in 1..Len(posts') : PostTyped(p)'
  BY TypeSplit DEF PostTyped, Tickets
<1> QED
  BY <1>1, <1>2, <1>3 DEF TypeOK, Referred, PostTyped, TabTyped

LEMMA TabFacts ==
    ASSUME TypeOK, NEW t \in Tabs
    PROVE  tab[t] \in Tab /\ tab[t].entry \in Entry
BY DEF TypeOK, Typed, Tab

LEMMA Numbers ==
    ASSUME TypeOK
    PROVE  /\ Len(sealed) \in Nat /\ Len(posts) \in Nat
           /\ vault \in Entry /\ file \in Entry /\ now \in Nat
           /\ vault.pending \in 0..Len(sealed) /\ vault.holder \in Nat
           /\ \A t \in Tabs : /\ tab[t].entry.pending \in 0..Len(sealed)
                              /\ tab[t].entry.holder \in Nat
BY DEF TypeOK, Typed, Entry, Tab

\* A step that leaves everything but one setup, the faults and the grants.
LEMMA ReturnTyped ==
    ASSUME TypeOK, NEW t \in Tabs, Return(t), UNCHANGED <<sealed, posts>>
    PROVE  tab' \in [Tabs -> Tab] /\ \A u \in Tabs : TabTyped(u)'
<1>1. Len(sealed) \in Nat /\ Len(posts) \in Nat
  BY Numbers
<1> QED
  BY <1>1, TabStep, EmptyFacts DEF Return

LEMMA LoadTypeOK ==
    ASSUME TypeOK, NEW t \in Tabs, NEW ask \in {"yes", "no"}, Load(t, ask)
    PROVE  TypeOK'
<1>1. PICK step \in {"stage", "drop", "poll"} :
         /\ CASE step = "stage" -> vault.pending = 0
              [] step = "drop" -> vault.pending # 0 /\ Stale(vault.pending)
              [] OTHER -> vault.pending # 0 /\ ~Stale(vault.pending)
         /\ Become(t, [Idle EXCEPT !.step = step, !.entry = vault, !.ask = ask])
  BY DEF Load
<1> DEFINE s == [Idle EXCEPT !.step = step, !.entry = vault, !.ask = ask]
<1>2. s \in Tab /\ s.entry = vault /\ s.step = step
  BY Numbers DEF Idle, Tab, Steps
<1>3. step = "poll" => vault.pending # 0
  BY <1>1
<1>4. Become(t, s) /\ UNCHANGED <<now, sealed, vault, file, posts, rows, granted, faults, restores>>
  BY <1>1 DEF Load
<1> HIDE DEF s
<1>5. tab' \in [Tabs -> Tab] /\ \A u \in Tabs : TabTyped(u)'
  BY <1>2, <1>3, <1>4, TabStep, Numbers
<1> QED
  BY <1>4, <1>5, TypeFrame, Numbers DEF TypeOK, Typed

LEMMA DropTypeOK ==
    ASSUME TypeOK, NEW t \in Tabs, Drop(t)
    PROVE  TypeOK'
<1> DEFINE bare == Bare(tab[t].entry.holder)
<1>1. bare \in Entry /\ bare.pending = 0
  BY EntryFacts, Numbers
<1> HIDE DEF bare
<1>2. /\ vault' = bare
      /\ Become(t, [tab[t] EXCEPT !.step = "stage", !.entry = bare]) \/ Return(t)
      /\ UNCHANGED <<now, sealed, file, posts, rows, granted, faults, restores>>
  BY DEF Drop, bare
<1>3. tab' \in [Tabs -> Tab] /\ \A u \in Tabs : TabTyped(u)'
  <2>1. CASE Return(t)
    BY <1>2, <2>1, ReturnTyped
  <2>2. CASE Become(t, [tab[t] EXCEPT !.step = "stage", !.entry = bare])
    <3> DEFINE s == [tab[t] EXCEPT !.step = "stage", !.entry = bare]
    <3>1. s \in Tab /\ s.entry = bare /\ s.step = "stage"
      BY <1>1, TabFacts DEF Tab, Steps
    <3>2. Become(t, s)
      BY <2>2
    <3> HIDE DEF s
    <3> QED
      BY <1>1, <1>2, <3>1, <3>2, TabStep, Numbers
  <2> QED
    BY <1>2, <2>1, <2>2
<1> QED
  BY <1>1, <1>2, <1>3, TypeFrame, Numbers DEF TypeOK, Typed

LEMMA MarkTypeOK ==
    ASSUME TypeOK, NEW t \in Tabs, Mark(t)
    PROVE  TypeOK'
<1> DEFINE e == Submitted(tab[t].entry)
<1>1. e \in Entry /\ e.pending = tab[t].entry.pending /\ e.pending # 0
  <2>1. tab[t].entry \in Entry /\ tab[t].step = "post" /\ TabTyped(t)
    BY TabFacts, TypeSplit DEF Mark
  <2> QED
    BY <2>1 DEF Submitted, Entry, TabTyped
<1>2. UNCHANGED <<now, sealed, file, posts, rows, granted, faults, restores>>
  BY DEF Mark
<1> HIDE DEF e
<1>3. CASE vault' = e /\ Become(t, [tab[t] EXCEPT !.step = "poll", !.entry = e])
  <2> DEFINE s == [tab[t] EXCEPT !.step = "poll", !.entry = e]
  <2>1. s \in Tab /\ s.entry = e /\ s.step = "poll"
    BY <1>1, TabFacts DEF Tab, Steps
  <2>2. Become(t, s)
    BY <1>3
  <2> HIDE DEF s
  <2>3. tab' \in [Tabs -> Tab] /\ \A u \in Tabs : TabTyped(u)'
    BY <1>1, <1>2, <2>1, <2>2, TabStep, Numbers
  <2> QED
    BY <1>1, <1>2, <1>3, <2>3, TypeFrame, Numbers DEF TypeOK, Typed
<1>4. CASE Return(t) /\ UNCHANGED vault
  BY <1>2, <1>4, ReturnTyped, TypeFrame, Numbers DEF TypeOK, Typed
<1> QED
  BY <1>3, <1>4 DEF Mark, e

LEMMA QuietTypeOK ==
    ASSUME TypeOK, NEW t \in Tabs, Missing(t) \/ TimedOut(t) \/ Interrupt(t)
    PROVE  TypeOK'
<1>1. /\ UNCHANGED <<now, sealed, vault, file, posts, rows, granted, restores>>
      /\ faults' \in Nat
  BY DEF Missing, TimedOut, Interrupt, TypeOK, Typed
<1>2. tab' \in [Tabs -> Tab] /\ \A u \in Tabs : TabTyped(u)'
  <2>1. CASE Return(t)
    BY <1>1, <2>1, ReturnTyped
  <2>2. CASE Missing(t) /\ ~Return(t)
    <3> DEFINE s == [tab[t] EXCEPT !.step = "sign", !.resent = "yes"]
    <3>1. tab[t] \in Tab /\ tab[t].step = "poll" /\ TabTyped(t)
      BY <2>2, TabFacts, TypeSplit DEF Missing
    <3>2. s \in Tab /\ s.entry = tab[t].entry /\ s.step = "sign"
      BY <3>1 DEF Tab, Steps
    <3>3. Become(t, s)
      BY <2>2 DEF Missing
    <3> HIDE DEF s
    <3> QED
      BY <1>1, <3>1, <3>2, <3>3, TabStep, Numbers DEF TabTyped
  <2> QED
    BY <2>1, <2>2 DEF Missing, TimedOut, Interrupt
<1> QED
  BY <1>1, <1>2, TypeFrame, Numbers DEF TypeOK, Typed

LEMMA ApprovedTypeOK ==
    ASSUME TypeOK, NEW t \in Tabs, Approved(t)
    PROVE  TypeOK'
<1> USE EnrollmentAssumptions
<1>1. /\ UNCHANGED <<now, sealed, vault, file, posts, rows, restores>>
      /\ faults' \in Nat /\ tab[t].step = "poll" /\ TabTyped(t) /\ tab[t] \in Tab
  BY TypeSplit DEF Approved, TypeOK, Typed
<1>2. tab[t].entry.pending \in Tickets
  BY <1>1, Numbers DEF TabTyped, Tickets
<1>3. granted' \subseteq Credential /\ \A c \in granted' : c.ticket \in Tickets
  <2>1. [ticket |-> tab[t].entry.pending, expiry |-> now + PassLife] \in Credential
    BY <1>2, Numbers DEF Credential, Tickets
  <2> QED
    BY <1>2, <2>1 DEF Approved, Grant, TypeOK, Typed
<1>4. tab' \in [Tabs -> Tab] /\ \A u \in Tabs : TabTyped(u)'
  <2>1. CASE UNCHANGED tab
    BY <1>1, <2>1, TypeSplit DEF TabTyped, Typed
  <2>2. CASE Become(t, [tab[t] EXCEPT !.step = "collect"])
    <3> DEFINE s == [tab[t] EXCEPT !.step = "collect"]
    <3>1. s \in Tab /\ s.entry = tab[t].entry /\ s.step = "collect"
      BY <1>1 DEF Tab, Steps
    <3>2. Become(t, s)
      BY <2>2
    <3> HIDE DEF s
    <3> QED
      BY <1>1, <3>1, <3>2, TabStep, Numbers DEF TabTyped
  <2> QED
    BY <2>1, <2>2 DEF Approved
<1> QED
  BY <1>1, <1>3, <1>4, TypeFrame, Numbers DEF TypeOK, Typed

LEMMA CollectTypeOK ==
    ASSUME TypeOK, NEW t \in Tabs, Collect(t)
    PROVE  TypeOK'
<1>1. /\ UNCHANGED <<now, sealed, file, posts, rows, granted, faults, restores>>
      /\ Return(t)
  BY DEF Collect
<1>2. vault' \in Entry /\ vault'.pending <= Len(sealed)
  <2>1. PICK c \in granted :
          IF ~Valid(c) THEN vault' = Bare(tab[t].entry.holder)
          ELSE LET e == [Bare(tab[t].entry.holder) EXCEPT !.credential = c]
               IN IF Accepts(e, tab[t].entry.credential # NoCredential)
                  THEN vault' = e ELSE UNCHANGED vault
    BY DEF Collect
  <2>2. c \in Credential /\ tab[t].entry.holder \in Nat
    BY Numbers DEF TypeOK, Typed
  <2> DEFINE h == tab[t].entry.holder
             e == [Bare(h) EXCEPT !.credential = c]
  <2>3. vault' \in {Bare(h), e, vault}
    BY <2>1
  <2>4. Bare(h) \in Entry /\ Bare(h).pending = 0
    BY <2>2, EntryFacts
  <2>5. e \in Entry /\ e.pending = 0
    BY <2>2, EntryFacts
  <2> HIDE DEF e, h
  <2>6. Len(sealed) \in Nat /\ vault \in Entry /\ vault.pending <= Len(sealed)
    BY Numbers
  <2> QED
    BY <2>3, <2>4, <2>5, <2>6
<1> QED
  BY <1>1, <1>2, ReturnTyped, TypeFrame, Numbers DEF TypeOK, Typed

LEMMA StageTypeOK ==
    ASSUME TypeOK, NEW t \in Tabs, Stage(t)
    PROVE  TypeOK'
<1> DEFINE k == Len(sealed) + 1
           h == HolderOf(tab[t].entry, k)
           e == [Bare(h) EXCEPT !.pending = k]
<1>1. k \in Nat \ {0} /\ h \in Nat \ {0}
  BY Numbers DEF HolderOf
<1>2. e \in Entry /\ e.pending = k
  BY <1>1, EntryFacts
<1>3. /\ sealed' = Append(sealed, [holder |-> h, at |-> now])
      /\ \/ vault' = e /\ Become(t, [tab[t] EXCEPT !.step = "sign", !.entry = e])
         \/ Return(t) /\ UNCHANGED vault
      /\ UNCHANGED <<now, file, posts, rows, granted, faults, restores>>
  BY DEF Stage
<1>4. /\ sealed' \in Seq([holder : Nat \ {0}, at : Nat]) /\ Len(sealed') = k
      /\ \A q \in Tickets : sealed'[q] = sealed[q]
      /\ sealed'[k].at = now
  <2>1. [holder |-> h, at |-> now] \in [holder : Nat \ {0}, at : Nat]
    BY <1>1, Numbers
  <2>2. sealed \in Seq([holder : Nat \ {0}, at : Nat])
    BY DEF TypeOK, Typed
  <2> QED
    BY <1>3, <2>1, <2>2, AppendFacts DEF Tickets
<1> HIDE DEF e, h
<1>5. tab' \in [Tabs -> Tab] /\ \A u \in Tabs : TabTyped(u)'
  <2> DEFINE n == Len(sealed)
             m == Len(posts)
  <2>0. n \in Nat /\ m \in Nat /\ Len(sealed') = n + 1 /\ Len(posts') = m
    BY <1>3, <1>4, Numbers
  <2>a. n <= Len(sealed') /\ Len(sealed') \in Nat /\ m <= Len(posts') /\ Len(posts') \in Nat
    BY <2>0
  <2>1. CASE Return(t)
    BY <2>0, <2>a, <2>1, TabStep, EmptyFacts DEF Return
  <2>2. CASE Become(t, [tab[t] EXCEPT !.step = "sign", !.entry = e])
    <3> DEFINE s == [tab[t] EXCEPT !.step = "sign", !.entry = e]
    <3>1. s \in Tab /\ s.entry = e /\ s.step = "sign"
      BY <1>2, TabFacts DEF Tab, Steps
    <3>2. Become(t, s)
      BY <2>2
    <3>3. s.entry.pending = n + 1
      BY <1>2, <3>1
    <3> HIDE DEF s
    <3> QED
      BY <2>0, <2>a, <3>1, <3>2, <3>3, TabStep
  <2> QED
    BY <1>3, <2>1, <2>2
<1>6. vault' \in Entry /\ vault'.pending <= k
  BY <1>1, <1>2, <1>3, Numbers
<1>7. Typed'
  BY <1>3, <1>4, <1>5, <1>6 DEF TypeOK, Typed
<1>8. Referred'
  BY <1>1, <1>3, <1>4, <1>6, TypeSplit, Numbers DEF Referred, Tickets, Typed, Entry
<1>9. \A p \in 1..Len(posts') : PostTyped(p)'
  BY <1>1, <1>3, <1>4, TypeSplit, Numbers DEF PostTyped, Tickets
<1> QED
  BY <1>5, <1>7, <1>8, <1>9 DEF TypeOK, Referred, PostTyped, TabTyped

LEMMA SignTypeOK ==
    ASSUME TypeOK, NEW t \in Tabs, Sign(t)
    PROVE  TypeOK'
<1> DEFINE m == Len(posts) + 1
           s == [tab[t] EXCEPT !.step = "post", !.post = m]
<1>1. PICK i \in Instances :
        posts' = Append(posts, [ticket |-> tab[t].entry.pending, day |-> now,
                                at |-> i, stage |-> "sent", answer |-> "none"])
  BY DEF Sign
<1> DEFINE x == [ticket |-> tab[t].entry.pending, day |-> now,
                 at |-> i, stage |-> "sent", answer |-> "none"]
<1>2. tab[t] \in Tab /\ tab[t].step = "sign" /\ TabTyped(t)
  BY TabFacts, TypeSplit DEF Sign
<1>3. tab[t].entry.pending \in Tickets
  BY <1>2, Numbers DEF TabTyped, Tickets
<1>4. x \in Post
  BY <1>3, Numbers DEF Post, Tickets
<1>5. posts' = Append(posts, x) /\ posts \in Seq(Post)
  BY <1>1 DEF TypeOK, Typed
<1>6. x.ticket \in Tickets /\ x.answer = "none" /\ x.stage = "sent"
  BY <1>3
<1> HIDE DEF x
<1>7. /\ posts' \in Seq(Post) /\ Len(posts') = Len(posts) + 1
      /\ \A p \in 1..Len(posts) : posts'[p] = posts[p]
      /\ posts'[Len(posts) + 1] = x
  BY <1>4, <1>5, AppendFacts
<1>8. /\ Become(t, s)
      /\ UNCHANGED <<now, sealed, vault, file, rows, granted, faults, restores>>
  BY DEF Sign
<1>m. m \in Nat
  BY Numbers
<1>9. s \in Tab /\ s.entry = tab[t].entry /\ s.step = "post" /\ s.post = m
  <2> HIDE DEF m
  <2> QED
    BY <1>2, <1>m DEF Tab, Steps
<1> HIDE DEF s
<1>10. tab' \in [Tabs -> Tab] /\ \A u \in Tabs : TabTyped(u)'
  BY <1>2, <1>3, <1>7, <1>8, <1>9, TabStep, Numbers DEF TabTyped, Tickets
<1>11. Typed'
  BY <1>7, <1>8, <1>10 DEF TypeOK, Typed
<1>12. Referred'
  BY <1>8, TypeSplit DEF Referred, Tickets
<1>13. \A p \in 1..Len(posts') : PostTyped(p)'
  <2> TAKE p \in 1..Len(posts')
  <2>1. CASE p \in 1..Len(posts)
    BY <1>7, <1>8, <2>1, TypeSplit DEF PostTyped, Tickets
  <2>2. CASE p = Len(posts) + 1
    BY <1>6, <1>7, <1>8, <2>2 DEF PostTyped, Tickets
  <2> QED
    BY <1>7, <2>1, <2>2, Numbers
<1> QED
  BY <1>10, <1>11, <1>12, <1>13 DEF TypeOK, Referred, PostTyped, TabTyped

\* What the API's answer does to the requests.
LEMMA AnswerFacts ==
    ASSUME TypeOK, NEW p \in 1..Len(posts), NEW stage \in {"sent", "admitted", "lost", "done"},
           NEW a \in {"none", "ok", "refused"}, Answer(p, stage, a)
    PROVE  /\ posts' \in Seq(Post) /\ Len(posts') = Len(posts)
           /\ \A q \in 1..Len(posts) : q # p => posts'[q] = posts[q]
           /\ \A q \in 1..Len(posts) :
                posts'[q].ticket = posts[q].ticket /\ posts'[q].at = posts[q].at
           /\ posts'[p].stage = stage /\ posts'[p].answer = a
<1> DEFINE x == [posts[p] EXCEPT !.stage = stage, !.answer = a]
<1>1. posts \in Seq(Post) /\ posts[p] \in Post
  BY ElementOfSeq DEF TypeOK, Typed
<1>2. /\ x \in Post /\ x.ticket = posts[p].ticket /\ x.at = posts[p].at
      /\ x.stage = stage /\ x.answer = a
  BY <1>1 DEF Post
<1>3. posts' = [posts EXCEPT ![p] = x]
  BY DEF Answer
<1> HIDE DEF x
<1>4. /\ posts' \in Seq(Post) /\ Len(posts') = Len(posts)
      /\ \A q \in 1..Len(posts) : posts'[q] = IF q = p THEN x ELSE posts[q]
  BY <1>1, <1>2, <1>3, ExceptSeq
<1> QED
  BY <1>2, <1>4

LEMMA ServiceTypeOK ==
    ASSUME TypeOK, NEW p \in 1..Len(posts), Admit(p) \/ Create(p) \/ Mine(p) \/ Refuse(p)
    PROVE  TypeOK'
<1>1. PICK stage \in {"admitted", "lost", "done"}, a \in {"none", "ok", "refused"} :
        Answer(p, stage, a) /\ (a = "none" <=> stage \in {"sent", "admitted"})
  BY DEF Admit, Create, Mine, Store, Refuse
<1>2. /\ posts' \in Seq(Post) /\ Len(posts') = Len(posts)
      /\ \A q \in 1..Len(posts) : q # p => posts'[q] = posts[q]
      /\ \A q \in 1..Len(posts) : posts'[q].ticket = posts[q].ticket
      /\ posts'[p].stage = stage /\ posts'[p].answer = a
  BY <1>1, AnswerFacts
<1>3. /\ UNCHANGED <<now, sealed, vault, file, tab, granted, restores>>
      /\ faults' \in Nat
  BY DEF Admit, Create, Mine, Store, Refuse, TypeOK, Typed
<1>4. rows' \subseteq Row /\ \A r \in rows' : r.ticket \in Tickets
  <2>1. posts[p].ticket \in Tickets /\ p \in Nat
    BY TypeSplit DEF PostTyped
  <2>2. [ticket |-> posts[p].ticket, at |-> now, post |-> p] \in Row
    BY <2>1, Numbers DEF Row, Tickets
  <2> QED
    BY <2>1, <2>2 DEF Admit, Create, Mine, Store, Refuse, TypeOK, Typed
<1>5. Typed'
  BY <1>2, <1>3, <1>4 DEF TypeOK, Typed
<1>6. Referred'
  BY <1>3, <1>4, TypeSplit DEF Referred, Tickets
<1>7. \A q \in 1..Len(posts') : PostTyped(q)'
  BY <1>1, <1>2, <1>3, TypeSplit DEF PostTyped, Tickets
<1>8. \A t \in Tabs : TabTyped(t)'
  BY <1>2, <1>3, TypeSplit DEF TabTyped
<1> QED
  BY <1>5, <1>6, <1>7, <1>8 DEF TypeOK, Referred, PostTyped, TabTyped

LEMMA OutsideTypeOK ==
    ASSUME TypeOK, Backup \/ Restore \/ Tick
    PROVE  TypeOK'
<1>1. /\ UNCHANGED <<sealed, tab, posts, rows, granted, faults>>
      /\ now' \in Nat /\ now <= now' /\ restores' \in Nat
      /\ vault' \in {vault, file} /\ file' \in {vault, file}
  <2>1. now \in Nat /\ restores \in Nat
    BY DEF TypeOK, Typed
  <2>2. CASE Backup
    BY <2>1, <2>2 DEF Backup
  <2>3. CASE Restore
    BY <2>1, <2>3 DEF Restore
  <2>4. CASE Tick
    BY <2>1, <2>4 DEF Tick
  <2> QED
    BY <2>2, <2>3, <2>4
<1>2. Typed'
  BY <1>1 DEF TypeOK, Typed
<1>3. Referred'
  <2>1. \A k \in Tickets : sealed[k] \in [holder : Nat \ {0}, at : Nat]
    BY ElementOfSeq DEF TypeOK, Typed, Tickets
  <2>2. \A k \in Tickets : sealed[k].at \in Nat
    BY <2>1
  <2> QED
    BY <1>1, <2>2, TypeSplit, Numbers DEF Referred, Tickets
<1>4. /\ \A p \in 1..Len(posts') : PostTyped(p)'
      /\ \A t \in Tabs : TabTyped(t)'
  BY <1>1, TypeSplit DEF PostTyped, TabTyped, Tickets
<1> QED
  BY <1>2, <1>3, <1>4 DEF TypeOK, Referred, PostTyped, TabTyped

LEMMA NextTypeOK == TypeOK /\ [Next]_vars => TypeOK'
<1> SUFFICES ASSUME TypeOK, [Next]_vars PROVE TypeOK'
  OBVIOUS
<1>1. CASE UNCHANGED vars
  BY <1>1 DEF vars, TypeOK, Typed, Tickets
<1>2. ASSUME NEW t \in Tabs,
             \/ \E ask \in {"yes", "no"} : Load(t, ask)
             \/ Drop(t) \/ Stage(t) \/ Sign(t) \/ Mark(t)
             \/ Missing(t) \/ TimedOut(t) \/ Approved(t) \/ Collect(t)
             \/ Interrupt(t)
      PROVE  TypeOK'
  BY <1>2, LoadTypeOK, DropTypeOK, StageTypeOK, SignTypeOK, MarkTypeOK,
     QuietTypeOK, ApprovedTypeOK, CollectTypeOK
<1>3. ASSUME NEW p \in 1..Len(posts), Admit(p) \/ Create(p) \/ Mine(p) \/ Refuse(p)
      PROVE  TypeOK'
  BY <1>3, ServiceTypeOK
<1>4. CASE Backup \/ Restore \/ Tick
  BY <1>4, OutsideTypeOK
<1> QED
  BY <1>1, <1>2, <1>3, <1>4 DEF Next

\* Every ticket, request and day that a tab, the vault, a backup, a row or a
\* credential refers to exists (enrollment.ts:52-115,
\* enrollment-api.ts:38-64).
THEOREM TypeCorrect == Spec => []TypeOK
<1>1. Init => TypeOK
  BY InitTypeOK
<1>2. TypeOK /\ [Next]_vars => TypeOK'
  BY NextTypeOK
<1> QED
  BY <1>1, <1>2, PTL DEF Spec

-----------------------------------------------------------------------------
(* The holder is kept.                                                     *)

TabAgrees(t) ==
    /\ Made(tab[t].entry)
    /\ tab[t].entry.holder \in {0, vault.holder}
    /\ tab[t].step \in {"drop", "sign", "post", "poll", "collect"}
         => tab[t].entry.holder # 0

VaultAgrees == Made(vault) /\ (vault.holder = 0 => vault = Empty)

FileAgrees ==
    /\ Made(file) /\ file.holder \in {0, vault.holder}
    /\ file.holder = 0 => file = Empty

LEMMA HolderSplit ==
    HolderInv <=> /\ VaultAgrees /\ FileAgrees /\ TicketsAgree
                  /\ \A t \in Tabs : TabAgrees(t)
BY DEF HolderInv, CopiesAgree, VaultAgrees, FileAgrees, TabAgrees

LEMMA InitHolderInv == Init => HolderInv
<1> SUFFICES ASSUME Init PROVE HolderInv
  OBVIOUS
<1>1. Len(posts) = 0
  BY DEF Init
<1> QED
  BY <1>1, EmptyFacts DEF Init, HolderInv, CopiesAgree, TicketsAgree, Made

\* Tickets are only added and the vault's holder, once there, does not
\* change.
HolderStays ==
    /\ \A k \in Tickets : sealed'[k].holder = sealed[k].holder
    /\ vault.holder # 0 => vault'.holder = vault.holder

\* What agreed with the vault then still agrees with it.
LEMMA StillAgrees ==
    ASSUME TypeOK, HolderInv, HolderStays
    PROVE  /\ \A p \in 1..Len(posts) : sealed'[posts[p].ticket].holder = vault'.holder
           /\ \A r \in rows : sealed'[r.ticket].holder = vault'.holder
           /\ \A c \in granted : sealed'[c.ticket].holder = vault'.holder
           /\ file' = file => FileAgrees'
           /\ \A t \in Tabs : tab'[t] = tab[t] => TabAgrees(t)'
<1>1. \A k \in Tickets : sealed[k].holder # 0 /\ sealed'[k].holder = sealed[k].holder
  <2>1. \A k \in Tickets : sealed[k] \in [holder : Nat \ {0}, at : Nat]
    BY ElementOfSeq DEF TypeOK, Typed, Tickets
  <2> QED
    BY <2>1 DEF HolderStays
<1>2. /\ \A p \in 1..Len(posts) : sealed'[posts[p].ticket].holder = vault'.holder
      /\ \A r \in rows : sealed'[r.ticket].holder = vault'.holder
      /\ \A c \in granted : sealed'[c.ticket].holder = vault'.holder
  BY <1>1 DEF HolderInv, TicketsAgree, HolderStays, TypeOK
<1>3. file' = file => FileAgrees'
  <2>1. file.pending # 0 => file.pending \in Tickets
    BY Numbers DEF TypeOK, Tickets, Entry
  <2> QED
    BY <1>1, <2>1, HolderSplit DEF FileAgrees, Made, HolderStays
<1>4. \A t \in Tabs : tab'[t] = tab[t] => TabAgrees(t)'
  <2>1. \A t \in Tabs : tab[t].entry.pending # 0 => tab[t].entry.pending \in Tickets
    BY Numbers DEF Tickets
  <2> QED
    BY <1>1, <2>1, HolderSplit DEF TabAgrees, Made, HolderStays
<1> QED
  BY <1>2, <1>3, <1>4

\* A step of one setup keeps the agreement if what it saves and what it goes
\* on with agree.
LEMMA AgreeStep ==
    ASSUME TypeOK, HolderInv, HolderStays, VaultAgrees', UNCHANGED <<file, rows>>,
           NEW t \in Tabs, \A u \in Tabs : u # t => tab'[u] = tab[u], TabAgrees(t)',
           \A p \in 1..Len(posts') : sealed'[posts'[p].ticket].holder = vault'.holder,
           \A c \in granted' : sealed'[c.ticket].holder = vault'.holder
    PROVE  HolderInv'
<1>1. TicketsAgree' /\ FileAgrees'
  BY StillAgrees DEF TicketsAgree
<1>2. \A u \in Tabs : TabAgrees(u)'
  BY StillAgrees
<1> QED
  BY <1>1, <1>2 DEF HolderInv, CopiesAgree, VaultAgrees, FileAgrees, TabAgrees

LEMMA BecomeFacts ==
    ASSUME TypeOK, NEW t \in Tabs, NEW s, Become(t, s)
    PROVE  tab'[t] = s /\ \A u \in Tabs : u # t => tab'[u] = tab[u]
BY DEF Become, TypeOK, Typed

LEMMA ReturnAgrees ==
    ASSUME TypeOK, NEW t \in Tabs, Return(t)
    PROVE  TabAgrees(t)' /\ \A u \in Tabs : u # t => tab'[u] = tab[u]
BY BecomeFacts, EmptyFacts DEF Return, TabAgrees, Made

\* What a setup past its load holds.
LEMMA Holding ==
    ASSUME TypeOK, HolderInv, NEW t \in Tabs
    PROVE  /\ tab[t] \in Tab /\ tab[t].entry \in Entry
           /\ tab[t].entry.holder \in {0, vault.holder}
           /\ tab[t].step \in {"drop", "sign", "post", "poll", "collect"}
                => tab[t].entry.holder = vault.holder /\ vault.holder # 0
           /\ tab[t].entry.pending # 0
                => sealed[tab[t].entry.pending].holder = tab[t].entry.holder
BY TabFacts, HolderSplit DEF TabAgrees, Made

LEMMA LoadHolder ==
    ASSUME TypeOK, HolderInv, NEW t \in Tabs, NEW ask \in {"yes", "no"}, Load(t, ask)
    PROVE  HolderInv'
<1>1. PICK step \in {"stage", "drop", "poll"} :
         /\ step # "stage" => vault.pending # 0
         /\ Become(t, [Idle EXCEPT !.step = step, !.entry = vault, !.ask = ask])
  BY DEF Load
<1> DEFINE s == [Idle EXCEPT !.step = step, !.entry = vault, !.ask = ask]
<1>2. s.entry = vault /\ s.step = step
  BY DEF Idle
<1>3. Become(t, s) /\ UNCHANGED <<sealed, vault, file, posts, rows, granted>>
  BY <1>1 DEF Load
<1> HIDE DEF s
<1>4. tab'[t] = s /\ \A u \in Tabs : u # t => tab'[u] = tab[u]
  BY <1>3, BecomeFacts
<1>5. VaultAgrees /\ (vault.pending # 0 => vault.holder # 0)
  BY HolderSplit, EmptyFacts DEF VaultAgrees
<1>6. HolderStays /\ VaultAgrees'
  BY <1>3, <1>5 DEF HolderStays, VaultAgrees, Made
<1>7. TabAgrees(t)'
  BY <1>1, <1>2, <1>3, <1>4, <1>5 DEF TabAgrees, VaultAgrees, Made
<1> QED
  BY <1>3, <1>4, <1>6, <1>7, AgreeStep, StillAgrees

LEMMA DropHolder ==
    ASSUME TypeOK, HolderInv, NEW t \in Tabs, Drop(t)
    PROVE  HolderInv'
<1> DEFINE bare == Bare(tab[t].entry.holder)
<1>1. bare.pending = 0 /\ bare.holder = vault.holder /\ vault.holder # 0
  BY EntryFacts, Numbers, Holding DEF Drop
<1> HIDE DEF bare
<1>2. /\ vault' = bare
      /\ Become(t, [tab[t] EXCEPT !.step = "stage", !.entry = bare]) \/ Return(t)
      /\ UNCHANGED <<sealed, file, posts, rows, granted>>
  BY DEF Drop, bare
<1>3. HolderStays /\ VaultAgrees'
  BY <1>1, <1>2 DEF HolderStays, VaultAgrees, Made
<1>4. TabAgrees(t)' /\ \A u \in Tabs : u # t => tab'[u] = tab[u]
  <2>1. CASE Return(t)
    BY <2>1, ReturnAgrees
  <2>2. CASE Become(t, [tab[t] EXCEPT !.step = "stage", !.entry = bare])
    <3> DEFINE s == [tab[t] EXCEPT !.step = "stage", !.entry = bare]
    <3>1. s.entry = bare /\ s.step = "stage"
      BY TabFacts DEF Tab
    <3> HIDE DEF s
    <3>2. tab'[t] = s /\ \A u \in Tabs : u # t => tab'[u] = tab[u]
      BY <2>2, BecomeFacts DEF s
    <3> QED
      BY <1>1, <1>2, <3>1, <3>2 DEF TabAgrees, Made
  <2> QED
    BY <1>2, <2>1, <2>2
<1> QED
  BY <1>2, <1>3, <1>4, AgreeStep, StillAgrees

LEMMA StageHolder ==
    ASSUME TypeOK, HolderInv, NEW t \in Tabs, Stage(t)
    PROVE  HolderInv'
<1> DEFINE k == Len(sealed) + 1
           h == HolderOf(tab[t].entry, k)
           e == [Bare(h) EXCEPT !.pending = k]
           accepted == Accepts(e, Replaces(tab[t].entry))
<1>1. k \in Nat /\ h \in Nat \ {0} /\ (tab[t].entry.holder # 0 => h = vault.holder)
  BY Numbers, Holding DEF HolderOf
<1>2. e.holder = h /\ e.pending = k
  BY <1>1, EntryFacts
<1>3. /\ sealed' = Append(sealed, [holder |-> h, at |-> now])
      /\ UNCHANGED <<file, posts, rows, granted>>
  BY DEF Stage
<1>4. sealed'[k].holder = h /\ \A q \in Tickets : sealed'[q] = sealed[q]
  <2>1. /\ sealed \in Seq([holder : Nat \ {0}, at : Nat])
        /\ [holder |-> h, at |-> now] \in [holder : Nat \ {0}, at : Nat]
    BY <1>1, Numbers DEF TypeOK, Typed
  <2> QED
    BY <1>3, <2>1, AppendFacts DEF Tickets
<1>5. CASE accepted
  <2>1. vault' = e /\ Become(t, [tab[t] EXCEPT !.step = "sign", !.entry = e])
    BY <1>5 DEF Stage
  <2>2. vault.holder # 0 => h = vault.holder
    BY <1>1, <1>2, <1>5 DEF Accepts, Replaces
  <2> DEFINE s == [tab[t] EXCEPT !.step = "sign", !.entry = e]
  <2>3. s.entry = e /\ s.step = "sign"
    BY TabFacts DEF Tab
  <2> HIDE DEF s, e, h
  <2>4. tab'[t] = s /\ \A u \in Tabs : u # t => tab'[u] = tab[u]
    BY <2>1, BecomeFacts DEF s
  <2>5. HolderStays /\ VaultAgrees'
    BY <1>1, <1>2, <1>4, <2>1, <2>2 DEF HolderStays, VaultAgrees, Made
  <2>6. TabAgrees(t)'
    BY <1>1, <1>2, <1>4, <2>1, <2>3, <2>4 DEF TabAgrees, Made
  <2> QED
    BY <1>3, <2>4, <2>5, <2>6, AgreeStep, StillAgrees
<1>6. CASE ~accepted
  <2>1. Return(t) /\ UNCHANGED vault
    BY <1>6 DEF Stage
  <2>2. vault.pending # 0 => vault.pending \in Tickets
    BY Numbers DEF Tickets
  <2>3. HolderStays /\ VaultAgrees'
    BY <1>4, <2>1, <2>2, HolderSplit DEF HolderStays, VaultAgrees, Made
  <2>4. TabAgrees(t)' /\ \A u \in Tabs : u # t => tab'[u] = tab[u]
    BY <2>1, ReturnAgrees
  <2> QED
    BY <1>3, <2>3, <2>4, AgreeStep, StillAgrees
<1> QED
  BY <1>5, <1>6

\* A step that leaves the vault and the tickets alone.
LEMMA VaultFrame ==
    ASSUME TypeOK, HolderInv, UNCHANGED <<sealed, vault>>
    PROVE  HolderStays /\ VaultAgrees'
BY HolderSplit DEF HolderStays, VaultAgrees, Made

\* The setup goes on with the entry it had, past a step that had one.
LEMMA GoOnAgrees ==
    ASSUME TypeOK, HolderInv, NEW t \in Tabs, NEW s, Become(t, s),
           s.entry = tab[t].entry, tab[t].entry.holder # 0,
           UNCHANGED <<sealed, vault>>
    PROVE  TabAgrees(t)' /\ \A u \in Tabs : u # t => tab'[u] = tab[u]
BY BecomeFacts, HolderSplit DEF TabAgrees, Made

LEMMA SignHolder ==
    ASSUME TypeOK, HolderInv, NEW t \in Tabs, Sign(t)
    PROVE  HolderInv'
<1>1. PICK i \in Instances :
        posts' = Append(posts, [ticket |-> tab[t].entry.pending, day |-> now,
                                at |-> i, stage |-> "sent", answer |-> "none"])
  BY DEF Sign
<1> DEFINE x == [ticket |-> tab[t].entry.pending, day |-> now,
                 at |-> i, stage |-> "sent", answer |-> "none"]
           s == [tab[t] EXCEPT !.step = "post", !.post = Len(posts) + 1]
<1>2. /\ tab[t] \in Tab /\ tab[t].step = "sign" /\ TabTyped(t)
      /\ Become(t, s) /\ UNCHANGED <<sealed, vault, file, rows, granted>>
  BY TabFacts, TypeSplit DEF Sign
<1>3. s.entry = tab[t].entry /\ tab[t].entry.holder # 0
  BY <1>2, Holding DEF Tab
<1> HIDE DEF s
<1>4. HolderStays /\ VaultAgrees'
  BY <1>2, VaultFrame
<1>5. TabAgrees(t)' /\ \A u \in Tabs : u # t => tab'[u] = tab[u]
  BY <1>2, <1>3, GoOnAgrees
<1>6. x.ticket = tab[t].entry.pending /\ x \in Post /\ posts \in Seq(Post)
  BY Numbers DEF Post, TypeOK, Typed
<1>7. sealed[x.ticket].holder = vault.holder
  BY <1>2, <1>6, Holding DEF TabTyped
<1> HIDE DEF x
<1>8. /\ Len(posts') = Len(posts) + 1 /\ posts'[Len(posts) + 1] = x
      /\ \A p \in 1..Len(posts) : posts'[p] = posts[p]
  BY <1>1, <1>6, AppendFacts DEF x
<1>9. \A p \in 1..Len(posts') : sealed'[posts'[p].ticket].holder = vault'.holder
  BY <1>2, <1>4, <1>7, <1>8, StillAgrees, Numbers
<1> QED
  BY <1>2, <1>4, <1>5, <1>9, AgreeStep, StillAgrees

LEMMA MarkHolder ==
    ASSUME TypeOK, HolderInv, NEW t \in Tabs, Mark(t)
    PROVE  HolderInv'
<1> DEFINE e == Submitted(tab[t].entry)
<1>1. /\ tab[t].entry \in Entry /\ tab[t].entry.holder = vault.holder /\ vault.holder # 0
      /\ UNCHANGED <<sealed, file, posts, rows, granted>>
  BY Holding DEF Mark
<1>2. e.holder = vault.holder /\ e.pending = tab[t].entry.pending
  BY <1>1 DEF Submitted, Entry
<1> HIDE DEF e
<1>3. CASE vault' = e /\ Become(t, [tab[t] EXCEPT !.step = "poll", !.entry = e])
  <2> DEFINE s == [tab[t] EXCEPT !.step = "poll", !.entry = e]
  <2>1. s.entry = e /\ s.step = "poll"
    BY TabFacts DEF Tab
  <2> HIDE DEF s
  <2>2. tab'[t] = s /\ \A u \in Tabs : u # t => tab'[u] = tab[u]
    BY <1>3, BecomeFacts DEF s
  <2>3. HolderStays /\ VaultAgrees'
    BY <1>1, <1>2, <1>3, Holding DEF HolderStays, VaultAgrees, Made
  <2>4. TabAgrees(t)'
    BY <1>1, <1>2, <1>3, <2>1, <2>2, Holding DEF TabAgrees, Made
  <2> QED
    BY <1>1, <2>2, <2>3, <2>4, AgreeStep, StillAgrees
<1>4. CASE Return(t) /\ UNCHANGED vault
  BY <1>1, <1>4, VaultFrame, ReturnAgrees, AgreeStep, StillAgrees
<1> QED
  BY <1>3, <1>4 DEF Mark, e

LEMMA QuietHolder ==
    ASSUME TypeOK, HolderInv, NEW t \in Tabs, Missing(t) \/ TimedOut(t) \/ Interrupt(t)
    PROVE  HolderInv'
<1>1. UNCHANGED <<sealed, vault, file, posts, rows, granted>>
  BY DEF Missing, TimedOut, Interrupt
<1>2. TabAgrees(t)' /\ \A u \in Tabs : u # t => tab'[u] = tab[u]
  <2>1. CASE Return(t)
    BY <2>1, ReturnAgrees
  <2>2. CASE Missing(t) /\ ~Return(t)
    <3> DEFINE s == [tab[t] EXCEPT !.step = "sign", !.resent = "yes"]
    <3>1. s.entry = tab[t].entry /\ tab[t].entry.holder # 0 /\ Become(t, s)
      BY <2>2, Holding DEF Missing, Tab
    <3> HIDE DEF s
    <3> QED
      BY <1>1, <3>1, GoOnAgrees
  <2> QED
    BY <2>1, <2>2 DEF Missing, TimedOut, Interrupt
<1> QED
  BY <1>1, <1>2, VaultFrame, AgreeStep, StillAgrees

LEMMA ApprovedHolder ==
    ASSUME TypeOK, HolderInv, NEW t \in Tabs, Approved(t)
    PROVE  HolderInv'
<1>1. /\ UNCHANGED <<sealed, vault, file, posts, rows>>
      /\ tab[t].step = "poll" /\ TabTyped(t)
  BY TypeSplit DEF Approved
<1>2. TabAgrees(t)' /\ \A u \in Tabs : u # t => tab'[u] = tab[u]
  <2>1. CASE UNCHANGED tab
    BY <1>1, <2>1, HolderSplit DEF TabAgrees, Made
  <2>2. CASE Become(t, [tab[t] EXCEPT !.step = "collect"])
    <3> DEFINE s == [tab[t] EXCEPT !.step = "collect"]
    <3>1. s.entry = tab[t].entry /\ tab[t].entry.holder # 0 /\ Become(t, s)
      BY <1>1, <2>2, Holding DEF Tab
    <3> HIDE DEF s
    <3> QED
      BY <1>1, <3>1, GoOnAgrees
  <2> QED
    BY <2>1, <2>2 DEF Approved
<1>3. \A c \in granted' : sealed'[c.ticket].holder = vault'.holder
  <2>1. sealed[tab[t].entry.pending].holder = vault.holder
    BY <1>1, Holding DEF TabTyped
  <2> QED
    BY <1>1, <2>1 DEF Approved, Grant, HolderInv, TicketsAgree
<1> QED
  BY <1>1, <1>2, <1>3, VaultFrame, AgreeStep, StillAgrees

LEMMA CollectHolder ==
    ASSUME TypeOK, HolderInv, NEW t \in Tabs, Collect(t)
    PROVE  HolderInv'
<1>1. /\ tab[t].entry.holder = vault.holder /\ vault.holder # 0 /\ vault.holder \in Nat
      /\ Return(t) /\ UNCHANGED <<sealed, file, posts, rows, granted>>
  BY Holding, Numbers DEF Collect
<1>2. UNCHANGED vault \/ (vault'.holder = vault.holder /\ vault'.pending = 0)
  <2> DEFINE h == tab[t].entry.holder
             kept(c) == [Bare(h) EXCEPT !.credential = c]
  <2>1. PICK c \in granted : vault' \in {Bare(h), kept(c), vault}
    BY DEF Collect
  <2>2. c \in Credential
    BY DEF TypeOK, Typed
  <2>3. Bare(h).holder = h /\ Bare(h).pending = 0
    BY <1>1, EntryFacts
  <2>4. kept(c).holder = h /\ kept(c).pending = 0
    BY <1>1, <2>2, EntryFacts
  <2> HIDE DEF h, kept
  <2> QED
    BY <1>1, <2>1, <2>3, <2>4 DEF h
<1>3. HolderStays /\ VaultAgrees'
  BY <1>1, <1>2, HolderSplit DEF HolderStays, VaultAgrees, Made
<1> QED
  BY <1>1, <1>3, ReturnAgrees, AgreeStep, StillAgrees

LEMMA ServiceHolder ==
    ASSUME TypeOK, HolderInv, NEW p \in 1..Len(posts), Admit(p) \/ Create(p) \/ Mine(p) \/ Refuse(p)
    PROVE  HolderInv'
<1>1. UNCHANGED <<sealed, vault, file, tab, granted>>
  BY DEF Admit, Create, Mine, Store, Refuse
<1>2. Len(posts') = Len(posts) /\ \A q \in 1..Len(posts) : posts'[q].ticket = posts[q].ticket
  <2>1. PICK stage \in {"admitted", "lost", "done"}, a \in {"none", "ok", "refused"} :
          Answer(p, stage, a)
    BY DEF Admit, Create, Mine, Store, Refuse
  <2> QED
    BY <2>1, AnswerFacts
<1>3. \A r \in rows' : sealed[r.ticket].holder = vault.holder
  BY DEF Admit, Create, Mine, Store, Refuse, HolderInv, TicketsAgree
<1>4. TicketsAgree'
  BY <1>1, <1>2, <1>3 DEF HolderInv, TicketsAgree
<1> QED
  BY <1>1, <1>4 DEF HolderInv, CopiesAgree, Made

LEMMA OutsideHolder ==
    ASSUME TypeOK, HolderInv, Backup \/ Restore \/ Tick
    PROVE  HolderInv'
<1>1. UNCHANGED <<sealed, tab, posts, rows, granted>>
  BY DEF Backup, Restore, Tick
<1>2. vault'.holder = vault.holder /\ VaultAgrees' /\ FileAgrees'
  <2>1. VaultAgrees /\ FileAgrees
    BY HolderSplit
  <2>2. CASE Backup
    BY <2>1, <2>2, EmptyFacts DEF Backup, VaultAgrees, FileAgrees, Made
  <2>3. CASE Restore
    BY <2>1, <2>3, EmptyFacts DEF Restore, Accepts, VaultAgrees, FileAgrees, Made
  <2>4. CASE Tick
    BY <2>1, <2>4 DEF Tick, VaultAgrees, FileAgrees, Made
  <2> QED
    BY <2>2, <2>3, <2>4
<1> QED
  BY <1>1, <1>2 DEF HolderInv, CopiesAgree, TicketsAgree, VaultAgrees, FileAgrees, Made

LEMMA NextHolderInv == TypeOK /\ HolderInv /\ [Next]_vars => HolderInv'
<1> SUFFICES ASSUME TypeOK, HolderInv, [Next]_vars PROVE HolderInv'
  OBVIOUS
<1>1. CASE UNCHANGED vars
  BY <1>1 DEF vars, HolderInv, CopiesAgree, TicketsAgree, Made
<1>2. ASSUME NEW t \in Tabs,
             \/ \E ask \in {"yes", "no"} : Load(t, ask)
             \/ Drop(t) \/ Stage(t) \/ Sign(t) \/ Mark(t)
             \/ Missing(t) \/ TimedOut(t) \/ Approved(t) \/ Collect(t)
             \/ Interrupt(t)
      PROVE  HolderInv'
  BY <1>2, LoadHolder, DropHolder, StageHolder, SignHolder, MarkHolder,
     QuietHolder, ApprovedHolder, CollectHolder
<1>3. ASSUME NEW p \in 1..Len(posts), Admit(p) \/ Create(p) \/ Mine(p) \/ Refuse(p)
      PROVE  HolderInv'
  BY <1>3, ServiceHolder
<1>4. CASE Backup \/ Restore \/ Tick
  BY <1>4, OutsideHolder
<1> QED
  BY <1>1, <1>2, <1>3, <1>4 DEF Next

\* A step of a setup brings no credential into a copy but a granted one.
LEMMA Origins ==
    ASSUME TypeOK, NEW t \in Tabs,
           \/ \E ask \in {"yes", "no"} : Load(t, ask)
           \/ Drop(t) \/ Stage(t) \/ Sign(t) \/ Mark(t)
           \/ Missing(t) \/ TimedOut(t) \/ Approved(t) \/ Collect(t)
           \/ Interrupt(t)
    PROVE  /\ {vault'.credential, tab'[t].entry.credential}
                \subseteq {NoCredential, vault.credential, tab[t].entry.credential}
                            \cup granted
           /\ \A u \in Tabs : u # t => tab'[u] = tab[u]
           /\ file' = file /\ granted \subseteq granted'
<1> DEFINE old == {NoCredential, vault.credential, tab[t].entry.credential} \cup granted
           good == /\ {vault'.credential, tab'[t].entry.credential} \subseteq old
                   /\ \A u \in Tabs : u # t => tab'[u] = tab[u]
<1>1. file' = file /\ granted \subseteq granted'
  BY DEF Load, Drop, Stage, Sign, Mark, Missing, TimedOut, Approved, Grant, Collect,
         Interrupt
<1> SUFFICES good
  BY <1>1
<1>2. tab[t] \in Tab /\ tab[t].entry \in Entry /\ tab[t].entry.holder \in Nat
  BY TabFacts, Numbers
<1>3. ASSUME NEW s, Become(t, s), {s.entry.credential, vault'.credential} \subseteq old
      PROVE  good
  BY <1>3, BecomeFacts
<1>4. ASSUME Return(t), vault'.credential \in old
      PROVE  good
  <2>1. Idle.entry.credential = NoCredential
    BY DEF Idle, Empty
  <2> QED
    BY <1>3, <1>4, <2>1 DEF Return
<1> HIDE DEF good
<1>5. CASE \E ask \in {"yes", "no"} : Load(t, ask)
  <2>1. PICK ask \in {"yes", "no"} : Load(t, ask)
    BY <1>5
  <2>2. PICK step \in {"stage", "drop", "poll"} :
          Become(t, [Idle EXCEPT !.step = step, !.entry = vault, !.ask = ask])
    BY <2>1 DEF Load
  <2> DEFINE s == [Idle EXCEPT !.step = step, !.entry = vault, !.ask = ask]
  <2>3. s.entry = vault /\ Become(t, s) /\ vault' = vault
    BY <2>1, <2>2 DEF Idle, Load
  <2> HIDE DEF s
  <2> QED
    BY <1>3, <2>3
<1>6. CASE Drop(t)
  <2> DEFINE bare == Bare(tab[t].entry.holder)
             s == [tab[t] EXCEPT !.step = "stage", !.entry = bare]
  <2>1. vault' = bare /\ (Become(t, s) \/ Return(t))
    BY <1>6 DEF Drop
  <2>2. bare.credential = NoCredential /\ s.entry = bare
    BY <1>2, EntryFacts DEF Tab
  <2> HIDE DEF bare, s
  <2> QED
    BY <1>3, <1>4, <2>1, <2>2
<1>7. CASE Stage(t)
  <2> DEFINE k == Len(sealed) + 1
             e == [Bare(HolderOf(tab[t].entry, k)) EXCEPT !.pending = k]
             s == [tab[t] EXCEPT !.step = "sign", !.entry = e]
  <2>1. (vault' = e /\ Become(t, s)) \/ (vault' = vault /\ Return(t))
    BY <1>7 DEF Stage
  <2>2. e.credential = NoCredential /\ s.entry = e
    BY <1>2 DEF Tab, Bare, Empty
  <2> HIDE DEF e, s
  <2> QED
    BY <1>3, <1>4, <2>1, <2>2
<1>8. CASE Sign(t)
  <2> DEFINE s == [tab[t] EXCEPT !.step = "post", !.post = Len(posts) + 1]
  <2>1. vault' = vault /\ Become(t, s)
    BY <1>8 DEF Sign
  <2>2. s.entry = tab[t].entry
    BY <1>2 DEF Tab
  <2> HIDE DEF s
  <2> QED
    BY <1>3, <2>1, <2>2
<1>9. CASE Mark(t)
  <2> DEFINE e == Submitted(tab[t].entry)
             s == [tab[t] EXCEPT !.step = "poll", !.entry = e]
  <2>1. (vault' = e /\ Become(t, s)) \/ (vault' = vault /\ Return(t))
    BY <1>9 DEF Mark
  <2>2. e.credential = tab[t].entry.credential /\ s.entry = e
    BY <1>2 DEF Tab, Entry, Submitted
  <2> HIDE DEF e, s
  <2> QED
    BY <1>3, <1>4, <2>1, <2>2
<1>10. CASE Missing(t) \/ Approved(t)
  <2>1. /\ vault' = vault
        /\ \/ Become(t, [tab[t] EXCEPT !.step = "sign", !.resent = "yes"])
           \/ Become(t, [tab[t] EXCEPT !.step = "collect"])
           \/ Return(t)
           \/ tab' = tab
    BY <1>10 DEF Missing, Approved
  <2>2. /\ [tab[t] EXCEPT !.step = "sign", !.resent = "yes"].entry = tab[t].entry
        /\ [tab[t] EXCEPT !.step = "collect"].entry = tab[t].entry
    BY <1>2 DEF Tab
  <2>3. CASE tab' = tab
    BY <2>1, <2>3 DEF good
  <2> QED
    BY <1>3, <1>4, <2>1, <2>2, <2>3
<1>11. CASE Collect(t)
  <2> DEFINE h == tab[t].entry.holder
             kept(c) == [Bare(h) EXCEPT !.credential = c]
  <2>1. PICK c \in granted : vault' \in {Bare(h), kept(c), vault}
    BY <1>11 DEF Collect
  <2>2. kept(c).credential = c /\ Bare(h).credential = NoCredential
    BY DEF Bare, Empty
  <2> HIDE DEF h, kept
  <2> QED
    BY <1>4, <1>11, <2>1, <2>2 DEF Collect
<1>12. CASE TimedOut(t) \/ Interrupt(t)
  BY <1>4, <1>12 DEF TimedOut, Interrupt
<1> QED
  BY <1>5, <1>6, <1>7, <1>8, <1>9, <1>10, <1>11, <1>12

LEMMA NextCopiesGranted == TypeOK /\ CopiesGranted /\ [Next]_vars => CopiesGranted'
<1> SUFFICES ASSUME TypeOK, CopiesGranted, [Next]_vars PROVE CopiesGranted'
  OBVIOUS
<1>1. CASE UNCHANGED vars
  BY <1>1 DEF vars, CopiesGranted
<1>2. ASSUME NEW t \in Tabs,
             \/ \E ask \in {"yes", "no"} : Load(t, ask)
             \/ Drop(t) \/ Stage(t) \/ Sign(t) \/ Mark(t)
             \/ Missing(t) \/ TimedOut(t) \/ Approved(t) \/ Collect(t)
             \/ Interrupt(t)
      PROVE  CopiesGranted'
  BY <1>2, Origins DEF CopiesGranted
<1>3. ASSUME NEW p \in 1..Len(posts), Admit(p) \/ Create(p) \/ Mine(p) \/ Refuse(p)
      PROVE  CopiesGranted'
  BY <1>3 DEF Admit, Create, Mine, Store, Refuse, CopiesGranted
<1>4. CASE Backup \/ Restore \/ Tick
  BY <1>4 DEF Backup, Restore, Tick, CopiesGranted
<1> QED
  BY <1>1, <1>2, <1>3, <1>4 DEF Next

\* Whatever tabs, reloads and backups interleave, every submitted ticket and
\* every granted credential belongs to the holder the vault keeps, and the
\* credential it keeps is one of them (enrollment.ts:62-69,
\* credential-vault.ts:180-182).
THEOREM HolderIsKept == Spec => []HolderKept
<1>1. Init => TypeOK /\ HolderInv /\ CopiesGranted
  <2>1. Init => CopiesGranted
    BY DEF Init, CopiesGranted, Idle, Empty
  <2> QED
    BY <2>1, InitTypeOK, InitHolderInv
<1>2. (TypeOK /\ HolderInv /\ CopiesGranted) /\ [Next]_vars
        => (TypeOK /\ HolderInv /\ CopiesGranted)'
  BY NextTypeOK, NextHolderInv, NextCopiesGranted
<1>3. HolderInv /\ CopiesGranted => HolderKept
  BY DEF HolderInv, CopiesGranted, HolderKept
<1> QED
  BY <1>1, <1>2, <1>3, PTL DEF Spec

-----------------------------------------------------------------------------
(* What is called submitted has a row.                                     *)

Registered(e) == e.submitted = "yes" => HasRow(e.pending)

TabRegistered(t) ==
    /\ Registered(tab[t].entry)
    /\ tab[t].step = "post" => posts[tab[t].post].ticket = tab[t].entry.pending

LEMMA RowsSplit ==
    RowsInv <=> /\ Registered(vault) /\ Registered(file)
                /\ \A t \in Tabs : TabRegistered(t)
                /\ \A p \in 1..Len(posts) : posts[p].answer = "ok" => HasRow(posts[p].ticket)
                /\ \A r \in rows : r.at >= sealed[r.ticket].at
BY DEF RowsInv, Registered, TabRegistered

LEMMA InitRowsInv == Init => RowsInv
<1> SUFFICES ASSUME Init PROVE RowsInv
  OBVIOUS
<1>1. Len(posts) = 0
  BY DEF Init
<1> QED
  BY <1>1, EmptyFacts DEF Init, RowsInv

LEMMA HasRowGrows ==
    ASSUME NEW k, HasRow(k), rows \subseteq rows'
    PROVE  HasRow(k)'
BY DEF HasRow

\* A step of one setup that leaves the rows and the answers alone.
LEMMA RowsStep ==
    ASSUME TypeOK, RowsInv, UNCHANGED <<file, rows>>, Registered(vault)',
           NEW t \in Tabs, \A u \in Tabs : u # t => tab'[u] = tab[u], TabRegistered(t)',
           \A k \in Tickets : sealed'[k] = sealed[k],
           Len(posts) <= Len(posts'),
           \A p \in 1..Len(posts) : posts'[p] = posts[p],
           \A p \in 1..Len(posts') : posts'[p].answer = "ok" => p \in 1..Len(posts)
    PROVE  RowsInv'
<1>1. \A u \in Tabs : TabRegistered(u)'
  <2> TAKE u \in Tabs
  <2>1. CASE u = t
    BY <2>1
  <2>2. CASE u # t
    BY <2>2, RowsSplit, TypeSplit DEF TabRegistered, Registered, HasRow, TabTyped
  <2> QED
    BY <2>1, <2>2
<1>2. \A p \in 1..Len(posts') : posts'[p].answer = "ok" => HasRow(posts[p].ticket)'
  BY RowsSplit DEF HasRow
<1>3. \A r \in rows' : r.at >= sealed'[r.ticket].at
  BY RowsSplit, TypeSplit DEF Referred
<1>4. Registered(file)'
  BY RowsSplit DEF Registered, HasRow
<1> QED
  BY <1>1, <1>2, <1>3, <1>4 DEF RowsInv, Registered, TabRegistered

LEMMA ReturnRegistered ==
    ASSUME TypeOK, NEW t \in Tabs, Return(t)
    PROVE  TabRegistered(t)' /\ \A u \in Tabs : u # t => tab'[u] = tab[u]
BY BecomeFacts, EmptyFacts DEF Return, TabRegistered, Registered

\* The setup takes up an entry that is registered, at a step other than the
\* wait for its request.
LEMMA BecomeRegistered ==
    ASSUME TypeOK, NEW t \in Tabs, NEW s, Become(t, s), s.step # "post",
           Registered(s.entry), UNCHANGED rows
    PROVE  TabRegistered(t)' /\ \A u \in Tabs : u # t => tab'[u] = tab[u]
BY BecomeFacts DEF TabRegistered, Registered, HasRow

LEMMA SaveRows ==
    ASSUME TypeOK, RowsInv, NEW t \in Tabs,
           \/ \E ask \in {"yes", "no"} : Load(t, ask)
           \/ Drop(t) \/ Stage(t)
    PROVE  RowsInv'
<1>1. UNCHANGED <<file, rows, posts>>
  BY DEF Load, Drop, Stage
<1>2. \A k \in Tickets : sealed'[k] = sealed[k]
  <2>1. CASE Stage(t)
    <3> DEFINE h == HolderOf(tab[t].entry, Len(sealed) + 1)
    <3>1. sealed' = Append(sealed, [holder |-> h, at |-> now])
      BY <2>1 DEF Stage
    <3>2. h \in Nat \ {0}
      BY Numbers DEF HolderOf
    <3>3. /\ sealed \in Seq([holder : Nat \ {0}, at : Nat])
          /\ [holder |-> h, at |-> now] \in [holder : Nat \ {0}, at : Nat]
      BY <3>2, Numbers DEF TypeOK, Typed
    <3> QED
      BY <3>1, <3>3, AppendFacts DEF Tickets
  <2> QED
    BY <2>1 DEF Load, Drop
<1>3. /\ Registered(vault)' /\ TabRegistered(t)'
      /\ \A u \in Tabs : u # t => tab'[u] = tab[u]
  <2>1. ASSUME NEW ask \in {"yes", "no"}, Load(t, ask)
        PROVE  /\ Registered(vault)' /\ TabRegistered(t)'
               /\ \A u \in Tabs : u # t => tab'[u] = tab[u]
    <3>1. PICK step \in {"stage", "drop", "poll"} :
            Become(t, [Idle EXCEPT !.step = step, !.entry = vault, !.ask = ask])
      BY <2>1 DEF Load
    <3> DEFINE s == [Idle EXCEPT !.step = step, !.entry = vault, !.ask = ask]
    <3>2. s.entry = vault /\ s.step # "post" /\ Become(t, s)
      BY <3>1 DEF Idle
    <3>3. Registered(vault) /\ UNCHANGED vault
      BY <2>1, RowsSplit DEF Load
    <3> HIDE DEF s
    <3> QED
      BY <1>1, <3>2, <3>3, BecomeRegistered DEF Registered, HasRow
  <2>2. CASE Drop(t)
    <3> DEFINE bare == Bare(tab[t].entry.holder)
    <3>1. Registered(bare)
      BY EntryFacts, Numbers DEF Registered
    <3>2. /\ vault' = bare
          /\ Become(t, [tab[t] EXCEPT !.step = "stage", !.entry = bare]) \/ Return(t)
      BY <2>2 DEF Drop
    <3> HIDE DEF bare
    <3> DEFINE s == [tab[t] EXCEPT !.step = "stage", !.entry = bare]
    <3>3. s.entry = bare /\ s.step = "stage"
      BY TabFacts DEF Tab
    <3>4. Become(t, s) \/ Return(t)
      BY <3>2
    <3> HIDE DEF s
    <3> QED
      BY <1>1, <3>1, <3>2, <3>3, <3>4, BecomeRegistered, ReturnRegistered
         DEF Registered, HasRow
  <2>3. CASE Stage(t)
    <3> DEFINE k == Len(sealed) + 1
               h == HolderOf(tab[t].entry, k)
               e == [Bare(h) EXCEPT !.pending = k]
               s == [tab[t] EXCEPT !.step = "sign", !.entry = e]
    <3>1. (vault' = e /\ Become(t, s)) \/ (Return(t) /\ UNCHANGED vault)
      BY <2>3 DEF Stage
    <3>2. h \in Nat /\ k \in Nat
      BY Numbers DEF HolderOf
    <3>3. Registered(e)
      BY <3>2, EntryFacts DEF Registered
    <3> HIDE DEF e, h
    <3>4. s.entry = e /\ s.step = "sign"
      BY TabFacts DEF Tab
    <3> HIDE DEF s
    <3>5. Registered(vault)'
      BY <1>1, <3>1, <3>3, RowsSplit DEF Registered, HasRow
    <3> QED
      BY <1>1, <3>1, <3>3, <3>4, <3>5, BecomeRegistered, ReturnRegistered
  <2> QED
    BY <2>1, <2>2, <2>3
<1> QED
  BY <1>1, <1>2, <1>3, RowsStep, Numbers

LEMMA SignRows ==
    ASSUME TypeOK, RowsInv, NEW t \in Tabs, Sign(t)
    PROVE  RowsInv'
<1>1. PICK i \in Instances :
        posts' = Append(posts, [ticket |-> tab[t].entry.pending, day |-> now,
                                at |-> i, stage |-> "sent", answer |-> "none"])
  BY DEF Sign
<1> DEFINE x == [ticket |-> tab[t].entry.pending, day |-> now,
                 at |-> i, stage |-> "sent", answer |-> "none"]
           n == Len(posts) + 1
           s == [tab[t] EXCEPT !.step = "post", !.post = n]
<1>2. x.ticket = tab[t].entry.pending /\ x.answer = "none" /\ x \in Post /\ posts \in Seq(Post)
  BY Numbers DEF Post, TypeOK, Typed
<1>3. Become(t, s) /\ UNCHANGED <<sealed, vault, file, rows>>
  BY DEF Sign
<1>4. s.entry = tab[t].entry /\ s.post = n
  <2> HIDE DEF n
  <2> QED
    BY TabFacts DEF Tab
<1> HIDE DEF x, s
<1>5. /\ Len(posts') = n /\ posts'[n] = x /\ n \in Nat
      /\ \A p \in 1..Len(posts) : posts'[p] = posts[p]
  BY <1>1, <1>2, AppendFacts, Numbers DEF x
<1>6. tab'[t] = s /\ \A u \in Tabs : u # t => tab'[u] = tab[u]
  BY <1>3, BecomeFacts
<1>7. TabRegistered(t)' /\ Registered(vault)'
  BY <1>2, <1>3, <1>4, <1>5, <1>6, RowsSplit DEF TabRegistered, Registered, HasRow
<1>8. Len(posts) \in Nat
  BY Numbers
<1>9. \A p \in 1..Len(posts') : p = n \/ p \in 1..Len(posts)
  BY <1>5, <1>8
<1>10. posts'[n].answer # "ok"
  BY <1>2, <1>5
<1>11. \A p \in 1..Len(posts') : posts'[p].answer = "ok" => p \in 1..Len(posts)
  BY <1>9, <1>10
<1>12. Len(posts) <= Len(posts') /\ \A k \in Tickets : sealed'[k] = sealed[k]
  BY <1>3, <1>5, <1>8
<1> QED
  BY <1>3, <1>5, <1>6, <1>7, <1>11, <1>12, RowsStep

LEMMA MarkRows ==
    ASSUME TypeOK, RowsInv, NEW t \in Tabs, Mark(t)
    PROVE  RowsInv'
<1>1. UNCHANGED <<sealed, file, posts, rows>> /\ tab[t].step = "post" /\ TabTyped(t)
  BY TypeSplit DEF Mark
<1> DEFINE e == Submitted(tab[t].entry)
           s == [tab[t] EXCEPT !.step = "poll", !.entry = e]
<1>2. CASE posts[tab[t].post].answer = "ok"
  <2>1. vault' = e /\ Become(t, s)
    BY <1>2 DEF Mark
  <2>2. e.pending = tab[t].entry.pending
    BY TabFacts DEF Submitted, Entry
  <2>3. Registered(e)
    BY <1>1, <1>2, <2>2, RowsSplit DEF TabRegistered, TabTyped, Registered
  <2> HIDE DEF e
  <2>4. s.entry = e /\ s.step = "poll"
    BY TabFacts DEF Tab
  <2> HIDE DEF s
  <2>5. TabRegistered(t)' /\ \A u \in Tabs : u # t => tab'[u] = tab[u]
    BY <1>1, <2>1, <2>3, <2>4, BecomeRegistered
  <2> QED
    BY <1>1, <2>1, <2>3, <2>5, RowsStep, Numbers DEF Registered, HasRow
<1>3. CASE posts[tab[t].post].answer # "ok"
  <2>1. Return(t) /\ UNCHANGED vault
    BY <1>3 DEF Mark
  <2>2. Registered(vault)'
    BY <1>1, <2>1, RowsSplit DEF Registered, HasRow
  <2> QED
    BY <1>1, <2>1, <2>2, ReturnRegistered, RowsStep, Numbers
<1> QED
  BY <1>2, <1>3

LEMMA PollRows ==
    ASSUME TypeOK, RowsInv, NEW t \in Tabs,
           Missing(t) \/ TimedOut(t) \/ Approved(t) \/ Interrupt(t)
    PROVE  RowsInv'
<1>1. UNCHANGED <<sealed, vault, file, posts, rows>>
  BY DEF Missing, TimedOut, Approved, Interrupt
<1>2. Registered(vault)'
  BY <1>1, RowsSplit DEF Registered, HasRow
<1>3. TabRegistered(t)' /\ \A u \in Tabs : u # t => tab'[u] = tab[u]
  <2>1. CASE Return(t)
    BY <2>1, ReturnRegistered
  <2>2. CASE UNCHANGED tab
    BY <1>1, <2>2, RowsSplit DEF TabRegistered, Registered, HasRow
  <2>3. ASSUME NEW s, Become(t, s), s.step # "post", s.entry = tab[t].entry
        PROVE  TabRegistered(t)' /\ \A u \in Tabs : u # t => tab'[u] = tab[u]
    BY <1>1, <2>3, BecomeRegistered, RowsSplit DEF TabRegistered
  <2> DEFINE signing == [tab[t] EXCEPT !.step = "sign", !.resent = "yes"]
             collecting == [tab[t] EXCEPT !.step = "collect"]
  <2>4. /\ signing.step # "post" /\ signing.entry = tab[t].entry
        /\ collecting.step # "post" /\ collecting.entry = tab[t].entry
    BY TabFacts DEF Tab
  <2>5. Return(t) \/ UNCHANGED tab \/ Become(t, signing) \/ Become(t, collecting)
    BY DEF Missing, TimedOut, Approved, Interrupt
  <2> HIDE DEF signing, collecting
  <2> QED
    BY <2>1, <2>2, <2>3, <2>4, <2>5
<1> QED
  BY <1>1, <1>2, <1>3, RowsStep, Numbers

LEMMA CollectRows ==
    ASSUME TypeOK, RowsInv, NEW t \in Tabs, Collect(t)
    PROVE  RowsInv'
<1>1. UNCHANGED <<sealed, file, posts, rows>> /\ Return(t)
  BY DEF Collect
<1>2. Registered(vault)'
  <2> DEFINE h == tab[t].entry.holder
             kept(c) == [Bare(h) EXCEPT !.credential = c]
  <2>1. PICK c \in granted : vault' \in {Bare(h), kept(c), vault}
    BY DEF Collect
  <2>2. c \in Credential /\ h \in Nat
    BY Numbers DEF TypeOK, Typed
  <2>3. Bare(h).submitted = "no"
    BY <2>2, EntryFacts
  <2>4. kept(c).submitted = "no"
    BY <2>2, EntryFacts
  <2>5. Registered(vault)
    BY RowsSplit
  <2> HIDE DEF h, kept
  <2> QED
    BY <1>1, <2>1, <2>3, <2>4, <2>5 DEF Registered, HasRow
<1> QED
  BY <1>1, <1>2, ReturnRegistered, RowsStep, Numbers

LEMMA ServiceRows ==
    ASSUME TypeOK, RowsInv, NEW p \in 1..Len(posts), Admit(p) \/ Create(p) \/ Mine(p) \/ Refuse(p)
    PROVE  RowsInv'
<1>1. UNCHANGED <<sealed, vault, file, tab>> /\ rows \subseteq rows'
  BY DEF Admit, Create, Mine, Store, Refuse
<1>2. PICK stage \in {"admitted", "lost", "done"}, a \in {"none", "ok", "refused"} :
        Answer(p, stage, a) /\ (a = "ok" => HasRow(posts[p].ticket)')
  <2>1. posts[p].ticket \in Tickets /\ posts[p].ticket # 0
    BY TypeSplit DEF PostTyped, Tickets
  <2>2. LiveRowsOf(posts[p].ticket) # {} => HasRow(posts[p].ticket)
    BY <2>1 DEF LiveRowsOf, HasRow
  <2>3. CASE Admit(p)
    <3>1. \E stage \in {"admitted", "lost", "done"}, a \in {"none", "ok", "refused"} :
            Answer(p, stage, a) /\ (a = "ok" => LiveRowsOf(posts[p].ticket) # {})
      BY <2>3 DEF Admit
    <3>2. UNCHANGED rows /\ \A q \in 1..Len(posts) : posts'[q].ticket = posts[q].ticket
      BY <2>3, <3>1, AnswerFacts DEF Admit
    <3> QED
      BY <2>2, <3>1, <3>2 DEF HasRow
  <2>4. CASE Create(p)
    <3>0. CASE Answer(p, "lost", "refused")
      BY <3>0
    <3> SUFFICES ASSUME ~Answer(p, "lost", "refused")
                 PROVE  \E stage \in {"admitted", "lost", "done"}, a \in {"none", "ok", "refused"} :
                          Answer(p, stage, a) /\ (a = "ok" => HasRow(posts[p].ticket)')
      BY <3>0
    <3>1. Answer(p, "done", "ok")
      BY <2>4 DEF Create
    <3>2. \A q \in 1..Len(posts) : posts'[q].ticket = posts[q].ticket
      BY <3>1, AnswerFacts
    <3>3. HasRow(posts[p].ticket)'
      <4> DEFINE r == [ticket |-> posts[p].ticket, at |-> now, post |-> p]
      <4>1. r \in rows' /\ r.ticket = posts[p].ticket
        BY <2>4 DEF Create, Store
      <4>2. posts'[p].ticket = posts[p].ticket
        BY <3>2
      <4> HIDE DEF r
      <4> QED
        BY <2>1, <4>1, <4>2 DEF HasRow
    <3> QED
      BY <3>1, <3>3
  <2>5. CASE Refuse(p)
    BY <2>5 DEF Refuse
  <2>6. CASE Mine(p)
    BY <2>6 DEF Mine
  <2> QED
    BY <2>3, <2>4, <2>5, <2>6
<1>3. /\ Len(posts') = Len(posts)
      /\ \A q \in 1..Len(posts) : q # p => posts'[q] = posts[q]
      /\ \A q \in 1..Len(posts) : posts'[q].ticket = posts[q].ticket
      /\ posts'[p].answer = a
  BY <1>2, AnswerFacts
<1>4. Registered(vault)' /\ Registered(file)'
  BY <1>1, RowsSplit, HasRowGrows DEF Registered, HasRow
<1>5. \A t \in Tabs : TabRegistered(t)'
  <2> TAKE t \in Tabs
  <2>1. Registered(tab[t].entry)'
    BY <1>1, RowsSplit DEF TabRegistered, Registered, HasRow
  <2>2. tab'[t].step = "post" => posts'[tab'[t].post].ticket = tab'[t].entry.pending
    BY <1>1, <1>3, RowsSplit, TypeSplit DEF TabRegistered, TabTyped
  <2> QED
    BY <2>1, <2>2 DEF TabRegistered, Registered
<1>6. \A q \in 1..Len(posts') : posts'[q].answer = "ok" => HasRow(posts[q].ticket)'
  BY <1>1, <1>2, <1>3, RowsSplit DEF HasRow
<1>7. \A r \in rows' : r.at >= sealed'[r.ticket].at
  <2>1. rows' = rows \/ \E post : rows' = rows \cup {[ticket |-> posts[p].ticket, at |-> now, post |-> post]}
    BY DEF Admit, Create, Mine, Store, Refuse
  <2>2. posts[p].ticket \in Tickets /\ now >= sealed[posts[p].ticket].at
    <3>1. posts[p].ticket \in Tickets
      BY TypeSplit DEF PostTyped
    <3>2. sealed[posts[p].ticket] \in [holder : Nat \ {0}, at : Nat]
      BY <3>1, ElementOfSeq DEF TypeOK, Typed, Tickets
    <3> QED
      BY <3>1, <3>2, TypeSplit, Numbers DEF Referred
  <2> QED
    BY <1>1, <2>1, <2>2, RowsSplit
<1> QED
  BY <1>1, <1>3, <1>4, <1>5, <1>6, <1>7 DEF RowsInv, Registered, TabRegistered, HasRow

LEMMA OutsideRows ==
    ASSUME TypeOK, RowsInv, Backup \/ Restore \/ Tick
    PROVE  RowsInv'
<1>1. /\ UNCHANGED <<sealed, tab, posts, rows>>
      /\ vault' \in {vault, file} /\ file' \in {vault, file}
  BY DEF Backup, Restore, Tick
<1>2. Registered(vault)' /\ Registered(file)'
  BY <1>1, RowsSplit DEF Registered, HasRow
<1> QED
  BY <1>1, <1>2 DEF RowsInv, Registered, HasRow

LEMMA NextRowsInv == TypeOK /\ RowsInv /\ [Next]_vars => RowsInv'
<1> SUFFICES ASSUME TypeOK, RowsInv, [Next]_vars PROVE RowsInv'
  OBVIOUS
<1>1. CASE UNCHANGED vars
  BY <1>1 DEF vars, RowsInv, HasRow
<1>2. ASSUME NEW t \in Tabs,
             \/ \E ask \in {"yes", "no"} : Load(t, ask)
             \/ Drop(t) \/ Stage(t) \/ Sign(t) \/ Mark(t)
             \/ Missing(t) \/ TimedOut(t) \/ Approved(t) \/ Collect(t)
             \/ Interrupt(t)
      PROVE  RowsInv'
  BY <1>2, SaveRows, SignRows, MarkRows, PollRows, CollectRows
<1>3. ASSUME NEW p \in 1..Len(posts), Admit(p) \/ Create(p) \/ Mine(p) \/ Refuse(p)
      PROVE  RowsInv'
  BY <1>3, ServiceRows
<1>4. CASE Backup \/ Restore \/ Tick
  BY <1>4, OutsideRows
<1> QED
  BY <1>1, <1>2, <1>3, <1>4 DEF Next

\* The row of an application outlives the application: it is no older than
\* the ticket, and rows live at least as long as pending applications.
LEMMA RowOutlives == TypeOK /\ RowsInv => SubmittedIsQueued
<1> SUFFICES ASSUME TypeOK, RowsInv, vault.submitted = "yes", ~Stale(vault.pending)
             PROVE  LiveRowsOf(vault.pending) # {}
  BY DEF SubmittedIsQueued
<1>1. PICK r \in rows : r.ticket = vault.pending /\ vault.pending # 0
  BY DEF RowsInv, HasRow
<1>2. r.at >= sealed[vault.pending].at /\ r.at \in Nat /\ now \in Nat
  BY <1>1 DEF RowsInv, TypeOK, Typed, Row
<1>3. sealed[vault.pending] \in [holder : Nat \ {0}, at : Nat]
  <2>1. vault.pending \in 1..Len(sealed)
    BY <1>1, Numbers
  <2> QED
    BY <2>1, ElementOfSeq DEF TypeOK, Typed
<1>4. now - sealed[vault.pending].at <= PendingLife
  BY <1>2, <1>3, EnrollmentAssumptions DEF Stale
<1>5. Live(r)
  BY <1>2, <1>3, <1>4, EnrollmentAssumptions DEF Live
<1> QED
  BY <1>1, <1>5 DEF LiveRowsOf

\* A missing row of an application that is not yet stale means that it was
\* never submitted (enrollment.ts:57, 97, enrollment-inbox.ts:22).
THEOREM SubmittedHasRow == Spec => []SubmittedIsQueued
<1>1. Init => TypeOK /\ RowsInv
  BY InitTypeOK, InitRowsInv
<1>2. (TypeOK /\ RowsInv) /\ [Next]_vars => (TypeOK /\ RowsInv)'
  BY NextTypeOK, NextRowsInv
<1>3. TypeOK /\ RowsInv => SubmittedIsQueued
  BY RowOutlives
<1> QED
  BY <1>1, <1>2, <1>3, PTL DEF Spec

-----------------------------------------------------------------------------
(* One row for a ticket, of one instance.                                  *)

LEMMA InitAdmitInv == Init => AdmitInv
<1> SUFFICES ASSUME Init PROVE AdmitInv
  OBVIOUS
<1>1. Len(posts) = 0 /\ rows = {}
  BY DEF Init
<1> QED
  BY <1>1 DEF AdmitInv, OneRowPerInstance, LiveRows

\* Rows as they were, on the same day or a later one; what is admitted was.
LEMMA AdmitFrame ==
    ASSUME TypeOK, AdmitInv, rows' = rows, now' \in Nat, now <= now',
           Len(posts) <= Len(posts'), Len(posts') \in Nat,
           \A p \in 1..Len(posts) :
             /\ posts'[p].ticket = posts[p].ticket /\ posts'[p].at = posts[p].at
             /\ posts[p].stage = "done" => posts'[p] = posts[p]
             /\ posts'[p].stage = "admitted" => posts[p].stage = "admitted",
           \A p \in 1..Len(posts') : posts'[p].stage = "admitted" => p \in 1..Len(posts)
    PROVE  AdmitInv'
<1>1. /\ now \in Nat /\ Len(posts) \in Nat
      /\ \A r \in rows : r.at \in Nat /\ r.post \in 1..Len(posts)
  BY Numbers DEF TypeOK, Typed, Row, AdmitInv
<1>2. \A r \in rows : /\ r.post \in 1..Len(posts') /\ posts'[r.post].stage = "done"
                     /\ Confirmed(r)' = Confirmed(r)
  BY <1>1 DEF AdmitInv, Confirmed
<1>3. \A r \in rows : Live(r)' => Live(r)
  BY <1>1, EnrollmentAssumptions DEF Live
<1>4. ASSUME NEW p \in 1..Len(posts'), NEW q \in 1..Len(posts'),
             posts'[p].stage = "admitted", posts'[q].stage = "admitted",
             posts'[p].at = posts'[q].at
      PROVE  p = q
  BY <1>4 DEF AdmitInv
<1>5. ASSUME NEW p \in 1..Len(posts'), posts'[p].stage = "admitted",
             NEW r \in LiveRowsOf(posts[p].ticket)', Confirmed(r)'
      PROVE  posts'[r.post].at # posts'[p].at
  <2>1. p \in 1..Len(posts) /\ posts[p].stage = "admitted"
    BY <1>5
  <2>2. r \in LiveRowsOf(posts[p].ticket)
    BY <1>3, <1>5, <2>1 DEF LiveRowsOf
  <2>3. r \in rows /\ Confirmed(r)
    BY <1>2, <1>5, <2>2 DEF LiveRowsOf
  <2>4. posts[r.post].at # posts[p].at
    BY <2>1, <2>2, <2>3 DEF AdmitInv
  <2> QED
    BY <1>1, <2>1, <2>3, <2>4
<1>6. OneRowPerInstance'
  <2> SUFFICES ASSUME NEW r \in LiveRows', NEW s \in LiveRows',
                      r.ticket = s.ticket, posts'[r.post].at = posts'[s.post].at,
                      Confirmed(r)', Confirmed(s)'
               PROVE  r = s
    BY DEF OneRowPerInstance
  <2>1. r \in LiveRows /\ s \in LiveRows /\ r \in rows /\ s \in rows
    BY <1>3 DEF LiveRows
  <2>2. posts[r.post].at = posts[s.post].at /\ Confirmed(r) /\ Confirmed(s)
    BY <1>1, <1>2, <2>1
  <2> QED
    BY <2>1, <2>2 DEF AdmitInv, OneRowPerInstance
<1> QED
  BY <1>2, <1>4, <1>5, <1>6 DEF AdmitInv

LEMMA SignAdmit ==
    ASSUME TypeOK, AdmitInv, NEW t \in Tabs, Sign(t)
    PROVE  AdmitInv'
<1>1. PICK i \in Instances :
        posts' = Append(posts, [ticket |-> tab[t].entry.pending, day |-> now,
                                at |-> i, stage |-> "sent", answer |-> "none"])
  BY DEF Sign
<1> DEFINE x == [ticket |-> tab[t].entry.pending, day |-> now,
                 at |-> i, stage |-> "sent", answer |-> "none"]
<1>2. posts \in Seq(Post) /\ tab[t].entry.pending \in Nat /\ now \in Nat /\ Len(posts) \in Nat
  BY Numbers, TabFacts DEF TypeOK, Typed, Entry
<1>3. x \in Post /\ x.stage = "sent"
  BY <1>2 DEF Post
<1>4. posts' = Append(posts, x)
  BY <1>1
<1> HIDE DEF x
<1>5. /\ Len(posts') = Len(posts) + 1
      /\ \A p \in 1..Len(posts) : posts'[p] = posts[p]
      /\ posts'[Len(posts) + 1] = x
  BY <1>2, <1>3, <1>4, AppendFacts
<1>6. rows' = rows /\ now' = now
  BY DEF Sign
<1>7. \A p \in 1..Len(posts') : posts'[p].stage = "admitted" => p \in 1..Len(posts)
  <2> TAKE p \in 1..Len(posts')
  <2>1. p \in 1..Len(posts) \/ p = Len(posts) + 1
    BY <1>2, <1>5
  <2> QED
    BY <1>3, <1>5, <2>1
<1>8. /\ Len(posts) <= Len(posts') /\ Len(posts') \in Nat /\ now' \in Nat /\ now <= now'
  BY <1>2, <1>5, <1>6
<1> QED
  BY <1>5, <1>6, <1>7, <1>8, AdmitFrame

LEMMA QuietAdmit ==
    ASSUME TypeOK, TypeOK', AdmitInv, rows' = rows, posts' = posts, now <= now'
    PROVE  AdmitInv'
<1>1. /\ now' \in Nat /\ Len(posts) \in Nat
      /\ Len(posts') = Len(posts) /\ Len(posts) <= Len(posts)
  BY Numbers DEF TypeOK, Typed
<1> QED
  BY <1>1, AdmitFrame

\* A request is admitted when its instance holds no other and its ticket has
\* no row.
LEMMA AdmitAdmit ==
    ASSUME TypeOK, AdmitInv, NEW p \in 1..Len(posts), Admit(p)
    PROVE  AdmitInv'
<1>1. /\ posts[p].stage = "sent" /\ MyTurn(p) /\ rows' = rows /\ now' = now
      /\ now \in Nat /\ Len(posts) \in Nat
  BY Numbers DEF Admit
<1>2. CASE Answer(p, "done", "ok") \/ Answer(p, "done", "refused")
  <2>1. /\ Len(posts') = Len(posts)
        /\ \A q \in 1..Len(posts) : q # p => posts'[q] = posts[q]
        /\ \A q \in 1..Len(posts) :
             posts'[q].ticket = posts[q].ticket /\ posts'[q].at = posts[q].at
        /\ posts'[p].stage = "done"
    BY <1>2, AnswerFacts
  <2>2. \A q \in 1..Len(posts) :
          /\ posts[q].stage = "done" => posts'[q] = posts[q]
          /\ posts'[q].stage = "admitted" => posts[q].stage = "admitted"
    BY <1>1, <2>1
  <2> QED
    BY <1>1, <2>1, <2>2, AdmitFrame
<1>3. CASE LiveRowsOf(posts[p].ticket) = {} /\ Answer(p, "admitted", "none")
  <2>1. /\ Len(posts') = Len(posts)
        /\ \A q \in 1..Len(posts) : q # p => posts'[q] = posts[q]
        /\ \A q \in 1..Len(posts) :
             posts'[q].ticket = posts[q].ticket /\ posts'[q].at = posts[q].at
        /\ posts'[p].stage = "admitted"
    BY <1>3, AnswerFacts
  <2>2. \A r \in rows : r.post \in 1..Len(posts) /\ r.post # p
    BY <1>1 DEF AdmitInv
  <2>3. \A r \in rows : /\ r.post \in 1..Len(posts') /\ posts'[r.post].stage = "done"
                       /\ Confirmed(r)' = Confirmed(r)
    BY <2>1, <2>2 DEF AdmitInv, Confirmed
  <2>4. ASSUME NEW q \in 1..Len(posts), posts[q].at = posts[p].at, q # p
        PROVE  posts'[q].stage # "admitted"
    BY <1>1, <2>1, <2>4 DEF MyTurn
  <2>5. ASSUME NEW q \in 1..Len(posts'), NEW u \in 1..Len(posts'),
               posts'[q].stage = "admitted", posts'[u].stage = "admitted",
               posts'[q].at = posts'[u].at
        PROVE  q = u
    <3>1. q \in 1..Len(posts) /\ u \in 1..Len(posts) /\ posts[q].at = posts[u].at
      BY <2>1, <2>5
    <3>2. CASE q = p \/ u = p
      BY <2>4, <2>5, <3>1, <3>2
    <3>3. CASE q # p /\ u # p
      <4>1. posts[q].stage = "admitted" /\ posts[u].stage = "admitted"
        BY <2>1, <2>5, <3>1, <3>3
      <4> QED
        BY <3>1, <4>1 DEF AdmitInv
    <3> QED
      BY <3>2, <3>3
  <2>6. ASSUME NEW q \in 1..Len(posts'), posts'[q].stage = "admitted",
               NEW r \in LiveRowsOf(posts[q].ticket)', Confirmed(r)'
        PROVE  posts'[r.post].at # posts'[q].at
    <3>1. /\ q \in 1..Len(posts) /\ r \in LiveRowsOf(posts[q].ticket)
          /\ r \in rows /\ Confirmed(r)
      BY <1>1, <2>1, <2>3, <2>6 DEF LiveRowsOf, Live
    <3>2. q # p
      BY <1>3, <3>1
    <3>3. posts[r.post].at # posts[q].at
      BY <2>1, <2>6, <3>1, <3>2 DEF AdmitInv
    <3> QED
      BY <2>1, <2>2, <3>1, <3>3 DEF LiveRowsOf
  <2>7. OneRowPerInstance'
    <3> SUFFICES ASSUME NEW r \in LiveRows', NEW s \in LiveRows',
                        r.ticket = s.ticket, posts'[r.post].at = posts'[s.post].at,
                        Confirmed(r)', Confirmed(s)'
                 PROVE  r = s
      BY DEF OneRowPerInstance
    <3>1. r \in LiveRows /\ s \in LiveRows /\ r \in rows /\ s \in rows
      BY <1>1 DEF LiveRows, Live
    <3>2. posts[r.post].at = posts[s.post].at /\ Confirmed(r) /\ Confirmed(s)
      BY <2>1, <2>2, <2>3, <3>1
    <3> QED
      BY <3>1, <3>2 DEF AdmitInv, OneRowPerInstance
  <2> QED
    BY <1>1, <2>3, <2>5, <2>6, <2>7 DEF AdmitInv
<1> QED
  BY <1>2, <1>3 DEF Admit

\* A request that ends, or is given up, without a row.
LEMMA EndAdmit ==
    ASSUME TypeOK, AdmitInv, NEW p \in 1..Len(posts), posts[p].stage # "done",
           Answer(p, "done", "refused") \/ Answer(p, "lost", "refused"),
           rows' = rows, now' = now
    PROVE  AdmitInv'
<1>1. /\ Len(posts') = Len(posts) /\ Len(posts) \in Nat /\ now \in Nat
      /\ \A q \in 1..Len(posts) : q # p => posts'[q] = posts[q]
      /\ \A q \in 1..Len(posts) :
           posts'[q].ticket = posts[q].ticket /\ posts'[q].at = posts[q].at
      /\ posts'[p].stage \in {"lost", "done"}
  BY AnswerFacts, Numbers
<1>2. \A q \in 1..Len(posts) :
        /\ posts[q].stage = "done" => posts'[q] = posts[q]
        /\ posts'[q].stage = "admitted" => posts[q].stage = "admitted"
  BY <1>1
<1> QED
  BY <1>1, <1>2, AdmitFrame

\* A confirmed row is the first of its ticket that its instance confirms,
\* and a row mined later is not confirmed.
LEMMA StoreAdmit ==
    ASSUME TypeOK, AdmitInv, NEW p \in 1..Len(posts), Store(p), now' = now,
           \/ posts[p].stage = "admitted" /\ Answer(p, "done", "ok")
           \/ posts[p].stage = "lost" /\ Answer(p, "done", "refused")
    PROVE  AdmitInv'
<1> DEFINE new == [ticket |-> posts[p].ticket, at |-> now, post |-> p]
<1>1. rows' = rows \cup {new}
  BY DEF Store
<1>2. /\ Len(posts') = Len(posts) /\ Len(posts) \in Nat
      /\ \A q \in 1..Len(posts) : q # p => posts'[q] = posts[q]
      /\ \A q \in 1..Len(posts) :
           posts'[q].ticket = posts[q].ticket /\ posts'[q].at = posts[q].at
      /\ posts'[p].stage = "done"
      /\ posts'[p].answer = "ok" => posts[p].stage = "admitted"
  <2>1. ASSUME NEW a \in {"ok", "refused"}, Answer(p, "done", a)
        PROVE  /\ Len(posts') = Len(posts) /\ Len(posts) \in Nat
               /\ \A q \in 1..Len(posts) : q # p => posts'[q] = posts[q]
               /\ \A q \in 1..Len(posts) :
                    posts'[q].ticket = posts[q].ticket /\ posts'[q].at = posts[q].at
               /\ posts'[p].stage = "done" /\ posts'[p].answer = a
    BY <2>1, AnswerFacts, Numbers
  <2>2. CASE posts[p].stage = "admitted" /\ Answer(p, "done", "ok")
    BY <2>1, <2>2
  <2>3. CASE posts[p].stage = "lost" /\ Answer(p, "done", "refused")
    BY <2>1, <2>3
  <2> QED
    BY <2>2, <2>3
<1>3. new.ticket = posts[p].ticket /\ new.post = p
  OBVIOUS
<1> HIDE DEF new
<1>4. \A r \in rows : /\ r.post \in 1..Len(posts) /\ r.post # p
                     /\ posts'[r.post] = posts[r.post]
                     /\ posts'[r.post].stage = "done"
                     /\ Confirmed(r)' = Confirmed(r)
  BY <1>2 DEF AdmitInv, Confirmed
<1>5. \A r \in rows' : r.post \in 1..Len(posts') /\ posts'[r.post].stage = "done"
  BY <1>1, <1>2, <1>3, <1>4
<1>6. ASSUME NEW q \in 1..Len(posts'), posts'[q].stage = "admitted"
      PROVE  /\ q \in 1..Len(posts) /\ posts[q].stage = "admitted" /\ q # p
             /\ posts[p].stage = "admitted" => posts[q].at # posts[p].at
  <2>1. q \in 1..Len(posts) /\ q # p /\ posts[q].stage = "admitted"
    BY <1>2, <1>6
  <2> QED
    BY <2>1 DEF AdmitInv
<1>7. ASSUME NEW q \in 1..Len(posts'), NEW u \in 1..Len(posts'),
             posts'[q].stage = "admitted", posts'[u].stage = "admitted",
             posts'[q].at = posts'[u].at
      PROVE  q = u
  BY <1>2, <1>6, <1>7 DEF AdmitInv
<1>8. ASSUME NEW q \in 1..Len(posts'), posts'[q].stage = "admitted",
             NEW r \in LiveRowsOf(posts[q].ticket)', Confirmed(r)'
      PROVE  posts'[r.post].at # posts'[q].at
  <2>1. q \in 1..Len(posts) /\ posts[q].stage = "admitted"
    BY <1>6, <1>8
  <2>2. CASE r = new
    <3>1. posts[p].stage = "admitted"
      BY <1>2, <1>3, <1>8, <2>2 DEF Confirmed
    <3> QED
      BY <1>2, <1>3, <1>6, <1>8, <2>1, <2>2, <3>1
  <2>3. CASE r # new
    <3>1. r \in LiveRowsOf(posts[q].ticket) /\ r \in rows /\ Confirmed(r)
      BY <1>1, <1>2, <1>4, <1>8, <2>1, <2>3 DEF LiveRowsOf, Live
    <3>2. posts[r.post].at # posts[q].at
      BY <2>1, <3>1 DEF AdmitInv
    <3> QED
      BY <1>2, <1>4, <2>1, <3>1, <3>2
  <2> QED
    BY <2>2, <2>3
<1>9. OneRowPerInstance'
  <2> SUFFICES ASSUME NEW r \in LiveRows', NEW s \in LiveRows',
                      r.ticket = s.ticket, posts'[r.post].at = posts'[s.post].at,
                      Confirmed(r)', Confirmed(s)'
               PROVE  r = s
    BY DEF OneRowPerInstance
  <2>1. ASSUME NEW x \in LiveRows', x # new
        PROVE  x \in LiveRows /\ x \in rows
    BY <1>1, <2>1 DEF LiveRows, Live
  <2>2. ASSUME NEW x \in LiveRows', NEW y \in LiveRows', y = new, x # new,
               x.ticket = y.ticket, Confirmed(x)', Confirmed(y)'
        PROVE  posts'[x.post].at # posts'[y.post].at
    <3>1. x \in LiveRowsOf(posts[p].ticket) /\ x \in rows /\ Confirmed(x)
      BY <1>3, <1>4, <2>1, <2>2 DEF LiveRowsOf, LiveRows
    <3>2. posts[p].stage = "admitted"
      BY <1>2, <1>3, <2>2 DEF Confirmed
    <3>3. posts[x.post].at # posts[p].at
      BY <3>1, <3>2 DEF AdmitInv
    <3> QED
      BY <1>2, <1>3, <1>4, <2>2, <3>1, <3>3
  <2>3. CASE r = new \/ s = new
    BY <2>2, <2>3
  <2>4. CASE r # new /\ s # new
    <3>1. r \in LiveRows /\ s \in LiveRows /\ r \in rows /\ s \in rows
      BY <2>1, <2>4
    <3>2. posts[r.post].at = posts[s.post].at /\ Confirmed(r) /\ Confirmed(s)
      BY <1>2, <1>4, <3>1
    <3> QED
      BY <3>1, <3>2 DEF AdmitInv, OneRowPerInstance
  <2> QED
    BY <2>3, <2>4
<1> QED
  BY <1>5, <1>7, <1>8, <1>9 DEF AdmitInv

LEMMA ServiceAdmit ==
    ASSUME TypeOK, AdmitInv, NEW p \in 1..Len(posts),
           Admit(p) \/ Create(p) \/ Mine(p) \/ Refuse(p)
    PROVE  AdmitInv'
<1>1. CASE Create(p)
  BY <1>1, StoreAdmit, EndAdmit DEF Create
<1>2. CASE Mine(p)
  BY <1>2, StoreAdmit DEF Mine
<1>3. CASE Refuse(p)
  BY <1>3, EndAdmit DEF Refuse
<1> QED
  BY <1>1, <1>2, <1>3, AdmitAdmit

LEMMA NextAdmitInv == TypeOK /\ AdmitInv /\ [Next]_vars => AdmitInv'
<1> SUFFICES ASSUME TypeOK, AdmitInv, [Next]_vars PROVE AdmitInv'
  OBVIOUS
<1>1. TypeOK'
  BY NextTypeOK
<1>2. now \in Nat /\ now' \in Nat
  BY <1>1 DEF TypeOK, Typed
<1>3. CASE UNCHANGED vars
  BY <1>1, <1>2, <1>3, QuietAdmit DEF vars
<1>4. ASSUME NEW t \in Tabs,
             \/ \E ask \in {"yes", "no"} : Load(t, ask)
             \/ Drop(t) \/ Stage(t) \/ Mark(t)
             \/ Missing(t) \/ TimedOut(t) \/ Approved(t) \/ Collect(t)
             \/ Interrupt(t)
      PROVE  AdmitInv'
  <2>1. rows' = rows /\ posts' = posts /\ now' = now
    BY <1>4 DEF Load, Drop, Stage, Mark, Missing, TimedOut, Approved, Collect, Interrupt
  <2> QED
    BY <1>1, <1>2, <2>1, QuietAdmit
<1>5. ASSUME NEW t \in Tabs, Sign(t) PROVE AdmitInv'
  BY <1>5, SignAdmit
<1>6. ASSUME NEW p \in 1..Len(posts), Admit(p) \/ Create(p) \/ Mine(p) \/ Refuse(p)
      PROVE  AdmitInv'
  BY <1>6, ServiceAdmit
<1>7. CASE Backup \/ Restore \/ Tick
  <2>1. rows' = rows /\ posts' = posts /\ (now' = now \/ now' = now + 1)
    BY <1>7 DEF Backup, Restore, Tick
  <2> QED
    BY <1>1, <1>2, <2>1, QuietAdmit
<1> QED
  BY <1>3, <1>4, <1>5, <1>6, <1>7 DEF Next

LEMMA AdmitInvariance == Spec => [](TypeOK /\ AdmitInv)
<1>1. Init => TypeOK /\ AdmitInv
  BY InitTypeOK, InitAdmitInv
<1>2. (TypeOK /\ AdmitInv) /\ [Next]_vars => (TypeOK /\ AdmitInv)'
  BY NextTypeOK, NextAdmitInv
<1> QED
  BY <1>1, <1>2, PTL DEF Spec

\* Safety: of the live rows of one ticket, each instance of the API had at
\* most one confirmed, however often the request is repeated and whichever
\* answers are lost: the queue runs the look-up and the creation of one
\* request before the next (enrollment-api.ts:17, 53-54, 63).  A row whose
\* creation timed out may come beside it.
THEOREM InstanceMakesOneRow == Spec => []OneRowPerInstance
<1>1. AdmitInv => OneRowPerInstance
  BY DEF AdmitInv
<1> QED
  BY <1>1, AdmitInvariance, PTL

\* Safety: with one instance repeated requests of a ticket share the row
\* that was confirmed, as enrollment-api.ts:17 says of any number, and every
\* other live row of the ticket is of a creation that was given up.
THEOREM TicketHasOneRow ==
    ASSUME \A i, j \in Instances : i = j
    PROVE  Spec => []ConfirmedOnce
<1>1. TypeOK /\ AdmitInv => ConfirmedOnce
  <2> SUFFICES ASSUME TypeOK, AdmitInv, NEW r \in LiveRows, NEW s \in LiveRows,
                      r.ticket = s.ticket, Confirmed(r), Confirmed(s)
               PROVE  r = s
    BY DEF ConfirmedOnce
  <2>1. r.post \in 1..Len(posts) /\ s.post \in 1..Len(posts) /\ posts \in Seq(Post)
    BY DEF AdmitInv, LiveRows, TypeOK, Typed
  <2>2. posts[r.post] \in Post /\ posts[s.post] \in Post
    BY <2>1, ElementOfSeq
  <2>3. posts[r.post].at = posts[s.post].at
    BY <2>2 DEF Post
  <2> QED
    BY <2>3 DEF AdmitInv, OneRowPerInstance
<1> QED
  BY <1>1, AdmitInvariance, PTL

-----------------------------------------------------------------------------
(* A credential is kept while setups do not overlap.                       *)

Resting == \A t \in Tabs : tab[t].step = "idle"
OneSetup == \A t, u \in Tabs : tab[t].step # "idle" /\ tab[u].step # "idle" => t = u

LEMMA Expiries ==
    ASSUME TypeOK
    PROVE  /\ now \in Nat /\ vault.credential.expiry \in Nat
           /\ \A t \in Tabs : tab[t].entry.credential.expiry \in Nat
           /\ ~Valid(NoCredential) /\ ~Valid(Empty.credential)
BY TabFacts DEF TypeOK, Typed, Entry, Credential, NoCredential, Empty, Valid

\* An entry made anew for a holder has no valid credential.
LEMMA NoneValid ==
    ASSUME TypeOK, NEW h
    PROVE  /\ ~Valid(Bare(h).credential)
           /\ \A k : ~Valid([Bare(h) EXCEPT !.pending = k].credential)
BY Expiries DEF Bare, Empty

LEMMA InitCredentialInv == Init => CredentialInv
BY DEF Init, CredentialInv, Idle, Empty, NoCredential, Valid

\* A step of the one setup that runs, or starts.
LEMMA SetupCredential ==
    ASSUME TypeOK, CredentialInv, OneSetup, NEW t \in Tabs,
           now' = now,
           \A u \in Tabs : u # t => tab'[u] = tab[u],
           ~Valid(tab'[t].entry.credential),
           tab'[t].step # "idle" => ~Valid(vault'.credential),
           tab[t].step # "idle" \/ vault' = vault
    PROVE  CredentialInv'
<1> SUFFICES ASSUME NEW u \in Tabs
             PROVE  /\ ~Valid(tab[u].entry.credential)'
                    /\ tab'[u].step # "idle" => ~Valid(vault.credential)'
  BY DEF CredentialInv
<1>1. CASE u = t
  BY <1>1 DEF Valid
<1>2. CASE u # t
  <2>1. tab'[u] = tab[u]
    BY <1>2
  <2>2. tab[u].step # "idle" => tab[t].step = "idle"
    BY <1>2 DEF OneSetup
  <2> QED
    BY <2>1, <2>2 DEF CredentialInv, Valid
<1> QED
  BY <1>1, <1>2

LEMMA SaveCredential ==
    ASSUME TypeOK, CredentialInv, OneSetup, NEW t \in Tabs,
           \/ \E ask \in {"yes", "no"} : Load(t, ask)
           \/ Drop(t) \/ Stage(t) \/ Sign(t) \/ Mark(t)
           \/ Missing(t) \/ TimedOut(t) \/ Approved(t) \/ Collect(t)
           \/ Interrupt(t)
    PROVE  CredentialInv'
<1>1. /\ tab[t] \in Tab /\ ~Valid(tab[t].entry.credential)
      /\ tab[t].step # "idle" => ~Valid(vault.credential)
  BY TabFacts DEF CredentialInv
<1>2. ~Valid(Idle.entry.credential) /\ Idle.step = "idle"
  BY EmptyFacts, Expiries
<1>3. ASSUME NEW s, Become(t, s), ~Valid(s.entry.credential), now' = now,
             s.step # "idle" => ~Valid(vault'.credential),
             tab[t].step # "idle" \/ vault' = vault
      PROVE  CredentialInv'
  <2>1. tab'[t] = s /\ \A u \in Tabs : u # t => tab'[u] = tab[u]
    BY <1>3, BecomeFacts
  <2> QED
    BY <1>3, <2>1, SetupCredential
<1>4. ASSUME Return(t), now' = now, tab[t].step # "idle" \/ vault' = vault
      PROVE  CredentialInv'
  BY <1>2, <1>3, <1>4 DEF Return
<1>5. ASSUME NEW ask \in {"yes", "no"}, Load(t, ask)
      PROVE  CredentialInv'
  <2>1. PICK step \in {"stage", "drop", "poll"} :
          Become(t, [Idle EXCEPT !.step = step, !.entry = vault, !.ask = ask])
    BY <1>5 DEF Load
  <2> DEFINE s == [Idle EXCEPT !.step = step, !.entry = vault, !.ask = ask]
  <2>2. s.entry = vault
    BY DEF Idle
  <2>3. Become(t, s) /\ vault' = vault /\ now' = now /\ ~Valid(vault.credential)
    BY <1>5, <2>1 DEF Load, NeedsPass
  <2> HIDE DEF s
  <2> QED
    BY <1>3, <2>2, <2>3
<1>6. CASE Drop(t)
  <2> DEFINE bare == Bare(tab[t].entry.holder)
             s == [tab[t] EXCEPT !.step = "stage", !.entry = bare]
  <2>1. /\ vault' = bare /\ tab[t].step = "drop" /\ now' = now
        /\ Become(t, s) \/ Return(t)
    BY <1>6 DEF Drop
  <2>2. ~Valid(bare.credential)
    BY NoneValid
  <2>3. s.entry = bare
    BY <1>1 DEF Tab
  <2> HIDE DEF bare, s
  <2> QED
    BY <1>3, <1>4, <2>1, <2>2, <2>3
<1>7. CASE Stage(t)
  <2> DEFINE k == Len(sealed) + 1
             e == [Bare(HolderOf(tab[t].entry, k)) EXCEPT !.pending = k]
             s == [tab[t] EXCEPT !.step = "sign", !.entry = e]
  <2>1. /\ tab[t].step = "stage" /\ now' = now
        /\ (vault' = e /\ Become(t, s)) \/ Return(t)
    BY <1>7 DEF Stage
  <2>2. ~Valid(e.credential)
    BY NoneValid
  <2>3. s.entry = e
    BY <1>1 DEF Tab
  <2> HIDE DEF e, s
  <2> QED
    BY <1>3, <1>4, <2>1, <2>2, <2>3
<1>8. CASE Sign(t)
  <2> DEFINE s == [tab[t] EXCEPT !.step = "post", !.post = Len(posts) + 1]
  <2>1. /\ tab[t].step = "sign" /\ now' = now /\ vault' = vault /\ Become(t, s)
    BY <1>8 DEF Sign
  <2>2. s.entry = tab[t].entry
    BY <1>1 DEF Tab
  <2> HIDE DEF s
  <2> QED
    BY <1>1, <1>3, <2>1, <2>2
<1>9. CASE Mark(t)
  <2> DEFINE e == Submitted(tab[t].entry)
             s == [tab[t] EXCEPT !.step = "poll", !.entry = e]
  <2>1. /\ tab[t].step = "post" /\ now' = now
        /\ (vault' = e /\ Become(t, s)) \/ Return(t)
    BY <1>9 DEF Mark
  <2>2. e.credential = tab[t].entry.credential /\ s.entry = e
    BY <1>1 DEF Tab, Entry, Submitted
  <2> HIDE DEF e, s
  <2> QED
    BY <1>1, <1>3, <1>4, <2>1, <2>2
<1>10. CASE Missing(t) \/ Approved(t)
  <2>1. /\ tab[t].step = "poll" /\ now' = now /\ vault' = vault
        /\ \/ Become(t, [tab[t] EXCEPT !.step = "sign", !.resent = "yes"])
           \/ Become(t, [tab[t] EXCEPT !.step = "collect"])
           \/ Return(t)
           \/ tab' = tab
    BY <1>10 DEF Missing, Approved
  <2>2. /\ [tab[t] EXCEPT !.step = "sign", !.resent = "yes"].entry = tab[t].entry
        /\ [tab[t] EXCEPT !.step = "collect"].entry = tab[t].entry
    BY <1>1 DEF Tab
  <2>3. CASE tab' = tab
    BY <2>1, <2>3 DEF CredentialInv, Valid
  <2> QED
    BY <1>1, <1>3, <1>4, <2>1, <2>2, <2>3
<1>11. CASE TimedOut(t) \/ Collect(t) \/ Interrupt(t)
  BY <1>4, <1>11 DEF TimedOut, Collect, Interrupt
<1> QED
  BY <1>5, <1>6, <1>7, <1>8, <1>9, <1>10, <1>11

LEMMA NextCredentialInv ==
    /\ TypeOK /\ CredentialInv /\ OneSetup
    /\ [Next]_vars /\ [Restore => Resting]_vars
    => CredentialInv'
<1> SUFFICES ASSUME TypeOK, CredentialInv, OneSetup,
                    [Next]_vars, [Restore => Resting]_vars
             PROVE  CredentialInv'
  OBVIOUS
<1>1. TypeOK'
  BY NextTypeOK
<1>2. ASSUME tab' = tab, vault' = vault, now <= now'
      PROVE  CredentialInv'
  <2>1. now \in Nat /\ now' \in Nat /\ vault.credential \in Credential
    BY <1>1 DEF TypeOK, Typed, Entry
  <2>2. \A t \in Tabs : tab[t].entry.credential \in Credential
    BY TabFacts DEF Entry
  <2>3. ASSUME NEW t \in Tabs
        PROVE  /\ ~Valid(tab[t].entry.credential)'
               /\ tab'[t].step # "idle" => ~Valid(vault.credential)'
    BY <1>2, <2>1, <2>2 DEF CredentialInv, Valid, Credential
  <2> QED
    BY <2>3 DEF CredentialInv
<1>3. now \in Nat /\ now' \in Nat
  BY <1>1 DEF TypeOK, Typed
<1>4. CASE UNCHANGED vars
  BY <1>2, <1>3, <1>4 DEF vars
<1>5. ASSUME NEW t \in Tabs,
             \/ \E ask \in {"yes", "no"} : Load(t, ask)
             \/ Drop(t) \/ Stage(t) \/ Sign(t) \/ Mark(t)
             \/ Missing(t) \/ TimedOut(t) \/ Approved(t) \/ Collect(t)
             \/ Interrupt(t)
      PROVE  CredentialInv'
  BY <1>5, SaveCredential
<1>6. ASSUME NEW p \in 1..Len(posts), Admit(p) \/ Create(p) \/ Mine(p) \/ Refuse(p)
      PROVE  CredentialInv'
  <2>1. tab' = tab /\ vault' = vault /\ now' = now
    BY <1>6 DEF Admit, Create, Mine, Store, Refuse
  <2> QED
    BY <1>2, <1>3, <2>1
<1>7. CASE Backup \/ Tick
  <2>1. tab' = tab /\ vault' = vault /\ (now' = now \/ now' = now + 1)
    BY <1>7 DEF Backup, Tick
  <2> QED
    BY <1>2, <1>3, <2>1
<1>8. CASE Restore /\ ~UNCHANGED vars
  <2>1. Resting /\ tab' = tab /\ now' = now
    BY <1>8 DEF Restore
  <2> QED
    BY <2>1 DEF Resting, CredentialInv, Valid
<1> QED
  BY <1>4, <1>5, <1>6, <1>7, <1>8 DEF Next

\* A restored backup does not change a valid credential, which belongs to a
\* holder.
LEMMA StepKeepsCredential ==
    ASSUME TypeOK, HolderInv, CredentialInv, Next, Valid(vault.credential), now' = now
    PROVE  vault'.credential = vault.credential
<1>1. \A t \in Tabs : tab[t].step = "idle"
  BY DEF CredentialInv
<1>2. vault.credential # NoCredential /\ vault.holder # 0
  <2>1. vault # Empty /\ vault.credential # NoCredential
    BY Expiries
  <2> QED
    BY <2>1 DEF HolderInv, CopiesAgree
<1>3. CASE Restore
  <2>1. vault' = file /\ Accepts(file, FALSE)
    BY <1>3 DEF Restore
  <2> QED
    BY <1>2, <2>1 DEF Accepts
<1>4. ASSUME NEW t \in Tabs,
             \/ \E ask \in {"yes", "no"} : Load(t, ask)
             \/ Drop(t) \/ Stage(t) \/ Sign(t) \/ Mark(t)
             \/ Missing(t) \/ TimedOut(t) \/ Approved(t) \/ Collect(t)
             \/ Interrupt(t)
      PROVE  vault' = vault
  BY <1>1, <1>4 DEF Load, Drop, Stage, Sign, Mark, Missing, TimedOut, Approved, Collect, Interrupt
<1>5. ASSUME NEW p \in 1..Len(posts), Admit(p) \/ Create(p) \/ Mine(p) \/ Refuse(p)
      PROVE  vault' = vault
  BY <1>5 DEF Admit, Create, Mine, Store, Refuse
<1>6. CASE Backup \/ Tick
  BY <1>6 DEF Backup, Tick
<1> QED
  BY <1>3, <1>4, <1>5, <1>6 DEF Next

\* Action property: while at most one setup runs, and no backup is restored
\* under it, nothing replaces a valid credential in the vault: a setup
\* starts only without one, and saves none before its end (enrollment.ts:52,
\* credential-vault.ts:170).
THEOREM CredentialStays ==
    Spec /\ []OneSetup /\ [][Restore => Resting]_vars => CredentialKept
<1>1. Init => TypeOK /\ HolderInv /\ CredentialInv
  BY InitTypeOK, InitHolderInv, InitCredentialInv
<1>2. /\ TypeOK /\ HolderInv /\ CredentialInv /\ OneSetup
      /\ [Next]_vars /\ [Restore => Resting]_vars
      => (TypeOK /\ HolderInv /\ CredentialInv)'
  BY NextTypeOK, NextHolderInv, NextCredentialInv
<1>3. TypeOK /\ HolderInv /\ CredentialInv /\ [Next]_vars
      => [Valid(vault.credential) /\ now' = now
            => vault'.credential = vault.credential]_vars
  BY StepKeepsCredential
<1> QED
  BY <1>1, <1>2, <1>3, PTL DEF Spec, CredentialKept

\* Action property: with one tab open, as renewal is checked, a valid
\* credential stays in the vault without further conditions.
COROLLARY OneTabKeepsCredential ==
    ASSUME \A t, u \in Tabs : t = u
    PROVE  Spec => CredentialKept
<1>1. OneSetup
  BY DEF OneSetup
<1>2. [Restore => Resting]_vars
  BY DEF Restore, Resting
<1> QED
  BY <1>1, <1>2, CredentialStays, PTL
=============================================================================
