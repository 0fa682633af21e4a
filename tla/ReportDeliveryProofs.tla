------------------------ MODULE ReportDeliveryProofs ------------------------
(***************************************************************************)
(* Proofs about ReportDelivery.  One inductive invariant carries all the   *)
(* safety properties: histories only grow and contain their current key,   *)
(* whatever a tab is about to use or a pending call names is already in a  *)
(* history, and a report that waits for its transaction saw no binding     *)
(* older than those in force when its upload ended.                        *)
(***************************************************************************)
EXTENDS ReportDelivery, FiniteSetTheorems, TLAPS

Somewhere(a, k) == \E p \in Profiles : k \in kept[<<p, a>>]

\* A history holds its current key, and is empty while there is none.
StoreInv ==
    \A n \in Namespaces :
        /\ current[n] # NoKey => current[n] \in kept[n]
        /\ current[n] = NoKey => kept[n] = {}

\* A sealed report that may be delivered.
Good(d) ==
    /\ Somewhere(Client, d.to[Client].key)
    /\ d.to[Worker].key \in kept[<<d.by, Worker>>]
    /\ \A r \in Recipients : d.to[r].version >= d.since[r]

PoolInv ==
    \A x \in pool :
        /\ x.call.name = "register" => Somewhere(x.from, x.call.key)
        /\ x.call.name = "submit" => Good(x.call.document)

ReportInv == report # NoReport => Good(report)

Sealed == {"checking", "uploading", "rechecking"}
Delivering == {"sealing"} \union Sealed

\* What an operation in progress may rely on.
OpInv(t) ==
    /\ op[t].step # "idle" => op[t].owner \in Accounts
    /\ op[t].step \in {"creating", "rotating"} => op[t].key \in Keys
    /\ op[t].step \in {"opened", "rotated", "keying", "ensuring"} => op[t].key \in kept[Place(t)]
    /\ op[t].step \in {"rotating", "rotated", "keying", "ensuring"} /\ Fresh(t) => account[t] = op[t].owner
    /\ op[t].step \in Delivering =>
        /\ op[t].seen[Worker].key \in kept[<<ProfileOf[t], Worker>>]
        /\ op[t].seen[Client].key # NoKey => Somewhere(Client, op[t].seen[Client].key)
    /\ op[t].step \in Sealed => op[t].seen[Client].key # NoKey
    /\ op[t].step = "rechecking" =>
        \A r \in Recipients : op[t].since[r] <= binding[r].version

IInv ==
    /\ TypeOK /\ StoreInv /\ DeviceIsKept /\ RegisteredIsKept
    /\ PoolInv /\ ReportInv
    /\ \A t \in Tabs : OpInv(t)

-----------------------------------------------------------------------------
(* Types of the parts.                                                     *)

LEMMA Parts ==
    /\ NoBinding \in Binding /\ Idle \in Operation /\ Idle.step = "idle"
    /\ Recipients \subseteq Accounts /\ Client \in Recipients /\ Worker \in Recipients
    /\ NoKey \notin Keys
    /\ \A t \in Tabs : ProfileOf[t] \in Profiles
    /\ \A t \in Tabs, a \in Accounts : <<ProfileOf[t], a>> \in Namespaces
BY DeliveryAssumptions
DEF NoBinding, Binding, Idle, Operation, Steps, Recipients, Keys, NoKey, Namespaces

LEMMA InitInv == Init => IInv
<1> SUFFICES ASSUME Init PROVE IInv
  OBVIOUS
<1>1. TypeOK
  <2>1. Cardinality({}) = 0
    BY FS_EmptySet
  <2> QED
    BY <2>1, Parts, DeliveryAssumptions DEF Init, TypeOK, NoKey
<1>2. \A t \in Tabs : OpInv(t)
  BY Parts DEF Init, OpInv, Sealed, Delivering
<1> QED
  BY <1>1, <1>2
  DEF Init, IInv, StoreInv, DeviceIsKept, RegisteredIsKept, PoolInv, ReportInv, NoBinding

-----------------------------------------------------------------------------
(* What a step of another actor leaves alone.                              *)

\* Histories and versions only grow: an operation keeps what it relies on.
LEMMA OpFrame ==
    ASSUME TypeOK, NEW t \in Tabs, OpInv(t), op'[t] = op[t], account'[t] = account[t],
           \A n \in Namespaces : kept[n] \subseteq kept'[n],
           \A a \in Recipients : binding[a].version <= binding'[a].version,
           \A a \in Recipients : binding'[a].version \in Nat
    PROVE  OpInv(t)'
<1>1. \A p \in Profiles, a \in Accounts : <<p, a>> \in Namespaces
  BY DEF Namespaces
<1>2. op[t] \in Operation /\ \A r \in Recipients : binding[r].version \in Nat
  BY Parts DEF TypeOK, Binding
<1>3. \A r \in Recipients : op[t].since[r] \in Nat
  BY <1>2 DEF Operation
<1>4. op[t].step \in {"opened", "rotated", "keying", "ensuring"}
        => op[t].key \in kept'[Place(t)] /\ Place(t)' = Place(t)
  BY <1>1, Parts DEF OpInv, Place
<1>5. op[t].step \in Delivering =>
        /\ op[t].seen[Worker].key \in kept'[<<ProfileOf[t], Worker>>]
        /\ op[t].seen[Client].key # NoKey => Somewhere(Client, op[t].seen[Client].key)'
  BY <1>1, Parts DEF OpInv, Somewhere
<1>6. op[t].step = "rechecking" => \A r \in Recipients : op[t].since[r] <= binding'[r].version
  BY <1>2, <1>3 DEF OpInv
<1> QED
  BY <1>4, <1>5, <1>6 DEF OpInv, Fresh

LEMMA GoodGrows ==
    ASSUME NEW d \in Document, Good(d),
           \A n \in Namespaces : kept[n] \subseteq kept'[n]
    PROVE  Good(d)'
BY Parts DEF Good, Somewhere, Document, Namespaces

\* Calls and the report keep what they rely on.
LEMMA CallsGrow ==
    ASSUME TypeOK, PoolInv, ReportInv, pool' \subseteq pool, report' = report,
           \A n \in Namespaces : kept[n] \subseteq kept'[n]
    PROVE  PoolInv' /\ ReportInv'
<1>1. ASSUME NEW x \in pool, x.call.name = "register" PROVE Somewhere(x.from, x.call.key)'
  BY <1>1 DEF PoolInv, Somewhere, TypeOK, Namespaces
<1>2. ASSUME NEW x \in pool, x.call.name = "submit" PROVE Good(x.call.document)'
  <2>1. x.call.document \in Document
    BY <1>2 DEF TypeOK, Call
  <2> QED
    BY <1>2, <2>1, GoodGrows DEF PoolInv
<1>3. report # NoReport => Good(report)'
  BY GoodGrows DEF ReportInv, TypeOK
<1> QED
  BY <1>1, <1>2, <1>3 DEF PoolInv, ReportInv

\* A step of one tab that touches neither the chain nor a history.
LEMMA TabStep ==
    ASSUME IInv, NEW t \in Tabs, NEW o \in Operation, Become(t, o),
           UNCHANGED <<chain, kept, current>>, made' \in 0 .. MaxKeys,
           account' \in [Tabs -> Accounts \union {Nobody}],
           device' \in [Tabs -> Keys \union {NoKey}],
           \A u \in Tabs \ {t} : account'[u] = account[u] /\ device'[u] = device[u],
           account'[t] # Nobody => device'[t] \in kept[<<ProfileOf[t], account'[t]>>],
           op'[t] = o => OpInv(t)'
    PROVE  IInv'
<1>1. op' \in [Tabs -> Operation] /\ op'[t] = o /\ \A u \in Tabs \ {t} : op'[u] = op[u]
  BY DEF IInv, TypeOK, Become
<1>2. TypeOK'
  BY <1>1 DEF IInv, TypeOK, chain
<1>3. DeviceIsKept'
  BY DEF IInv, DeviceIsKept
<1>4. StoreInv' /\ RegisteredIsKept'
  BY DEF IInv, StoreInv, RegisteredIsKept, chain
<1>5. PoolInv' /\ ReportInv'
  BY CallsGrow DEF IInv, chain
<1>6. ASSUME NEW u \in Tabs PROVE OpInv(u)'
  <2>1. CASE u = t
    BY <1>1, <2>1
  <2>2. CASE u # t
    <3>1. op'[u] = op[u] /\ account'[u] = account[u]
      BY <1>1, <2>2
    <3>2. /\ \A n \in Namespaces : kept[n] \subseteq kept'[n]
          /\ \A a \in Recipients : binding[a].version \in Nat
          /\ binding' = binding
      BY Parts DEF IInv, TypeOK, Binding, chain
    <3> QED
      BY <3>1, <3>2, OpFrame DEF IInv
  <2> QED
    BY <2>1, <2>2
<1> QED
  BY <1>2, <1>3, <1>4, <1>5, <1>6 DEF IInv

\* The same, for an operation that keeps the tab's wallet and key.
LEMMA OpStep ==
    ASSUME IInv, NEW t \in Tabs, NEW o \in Operation, Become(t, o),
           UNCHANGED <<chain, kept, current, account, device>>, made' \in 0 .. MaxKeys,
           op'[t] = o => OpInv(t)'
    PROVE  IInv'
<1>1. /\ account' \in [Tabs -> Accounts \union {Nobody}]
      /\ device' \in [Tabs -> Keys \union {NoKey}]
      /\ account'[t] # Nobody => device'[t] \in kept[<<ProfileOf[t], account'[t]>>]
  BY DEF IInv, TypeOK, DeviceIsKept
<1> QED
  BY <1>1, TabStep

LEMMA IdleInv ==
    ASSUME NEW t \in Tabs, op'[t].step = "idle"
    PROVE  OpInv(t)'
BY DEF OpInv, Sealed, Delivering

LEMMA Now ==
    ASSUME IInv, NEW t \in Tabs
    PROVE  /\ op[t] \in Operation /\ OpInv(t) /\ made \in 0 .. MaxKeys
           /\ account[t] \in Accounts \union {Nobody} /\ device[t] \in Keys \union {NoKey}
           /\ \A a \in Accounts : binding[a] \in Binding
           /\ \A n \in Namespaces : kept[n] \in SUBSET Keys /\ current[n] \in Keys \union {NoKey}
BY DEF IInv, TypeOK

-----------------------------------------------------------------------------
(* Connecting.                                                             *)

LEMMA ConnectInv ==
    ASSUME IInv, NEW t \in Tabs, NEW a \in Accounts, Connect(t, a)
    PROVE  IInv'
<1> DEFINE o == [Idle EXCEPT !.step = "opening", !.owner = a, !.key = NoKey]
<1>1. o \in Operation /\ o.step = "opening" /\ o.owner = a
  BY DEF Idle, Operation, Steps, NoBinding, Binding
<1>2. Become(t, o) /\ UNCHANGED <<chain, kept, current, account, device>> /\ made' = made
  BY DEF Connect, Begin, browser
<1>3. op'[t] = o => OpInv(t)'
  BY <1>1 DEF OpInv, Sealed, Delivering
<1> HIDE DEF o
<1> QED
  BY <1>1, <1>2, <1>3, OpStep, Now

LEMMA LoadKeyInv ==
    ASSUME IInv, NEW t \in Tabs, LoadKey(t)
    PROVE  IInv'
<1>1. Place(t) \in Namespaces /\ op[t].owner \in Accounts
  BY Now, Parts DEF LoadKey, OpInv, Place
<1>2. CASE current[Place(t)] # NoKey
  <2> DEFINE o == [op[t] EXCEPT !.step = "opened", !.key = current[Place(t)]]
  <2>1. o \in Operation /\ o.step = "opened" /\ o.owner = op[t].owner /\ o.key = current[Place(t)]
    BY <1>1, Now DEF Operation, Steps
  <2>2. Become(t, o) /\ UNCHANGED <<chain, kept, current, account, device>> /\ made' = made
    BY <1>2 DEF LoadKey
  <2>3. current[Place(t)] \in kept[Place(t)]
    BY <1>1, <1>2 DEF IInv, StoreInv
  <2>4. op'[t] = o => OpInv(t)'
    BY <1>1, <2>1, <2>2, <2>3 DEF OpInv, Sealed, Delivering, Place
  <2> HIDE DEF o
  <2> QED
    BY <2>1, <2>2, <2>4, OpStep, Now
<1>3. CASE current[Place(t)] = NoKey
  <2> DEFINE o == [op[t] EXCEPT !.step = "creating", !.key = made + 1]
  <2>1. made + 1 \in Keys /\ made' = made + 1 /\ made' \in 0 .. MaxKeys
    BY <1>3, Now, DeliveryAssumptions DEF LoadKey, Generate, Keys
  <2>2. o \in Operation /\ o.step = "creating" /\ o.owner = op[t].owner /\ o.key = made + 1
    BY <2>1, Now DEF Operation, Steps
  <2>3. Become(t, o) /\ UNCHANGED <<chain, kept, current, account, device>>
    BY <1>3 DEF LoadKey
  <2>4. op'[t] = o => OpInv(t)'
    BY <1>1, <2>1, <2>2 DEF OpInv, Sealed, Delivering
  <2> HIDE DEF o
  <2> QED
    BY <2>1, <2>2, <2>3, <2>4, OpStep
<1> QED
  BY <1>2, <1>3

\* A write of a history that keeps every key it had.
LEMMA StoreStep ==
    ASSUME IInv, NEW t \in Tabs, NEW step \in {"opened", "rotated"}, NEW S \in SUBSET Keys,
           Become(t, [op[t] EXCEPT !.step = step]),
           op[t].step \in {"creating", "rotating"},
           step = "rotated" /\ Fresh(t) => account[t] = op[t].owner,
           kept' = [kept EXCEPT ![Place(t)] = S],
           current' = [current EXCEPT ![Place(t)] = op[t].key],
           kept[Place(t)] \subseteq S, op[t].key \in S, Cardinality(S) <= MaxHistory,
           UNCHANGED <<chain, made, account, device>>
    PROVE  IInv'
<1>1. /\ Place(t) \in Namespaces /\ op[t].owner \in Accounts /\ op[t].key \in Keys
      /\ op[t] \in Operation
  BY Now, Parts DEF OpInv, Place
<1> DEFINE o == [op[t] EXCEPT !.step = step]
<1>2. /\ o \in Operation /\ o.step = step /\ o.key = op[t].key /\ o.owner = op[t].owner
      /\ o.fresh = op[t].fresh
  BY <1>1 DEF Operation, Steps
<1>3. op' \in [Tabs -> Operation] /\ op'[t] = o /\ \A u \in Tabs \ {t} : op'[u] = op[u]
  BY <1>2 DEF IInv, TypeOK, Become
<1> HIDE DEF o
<1>4. /\ kept' \in [Namespaces -> SUBSET Keys]
      /\ kept'[Place(t)] = S /\ \A n \in Namespaces \ {Place(t)} : kept'[n] = kept[n]
  BY <1>1 DEF IInv, TypeOK
<1>5. /\ current' \in [Namespaces -> Keys \union {NoKey}]
      /\ current'[Place(t)] = op[t].key
      /\ \A n \in Namespaces \ {Place(t)} : current'[n] = current[n]
  BY <1>1 DEF IInv, TypeOK
<1>6. \A n \in Namespaces : kept[n] \subseteq kept'[n]
  BY <1>4
<1>7. TypeOK'
  <2>1. \A n \in Namespaces : Cardinality(kept'[n]) <= MaxHistory
    BY <1>4 DEF IInv, TypeOK
  <2> QED
    BY <1>3, <1>4, <1>5, <2>1 DEF IInv, TypeOK, chain
<1>8. StoreInv'
  BY <1>1, <1>4, <1>5, Parts DEF IInv, StoreInv
<1>9. DeviceIsKept' /\ RegisteredIsKept'
  <2>1. \A u \in Tabs : account[u] # Nobody =>
            <<ProfileOf[u], account[u]>> \in Namespaces
    BY Now, Parts
  <2>2. \A p \in Profiles, a \in Accounts : <<p, a>> \in Namespaces
    BY DEF Namespaces
  <2> QED
    BY <1>6, <2>1, <2>2 DEF IInv, DeviceIsKept, RegisteredIsKept, chain
<1>10. PoolInv' /\ ReportInv'
  BY <1>6, CallsGrow DEF IInv, chain
<1>11. ASSUME NEW u \in Tabs PROVE OpInv(u)'
  <2>1. CASE u = t
    <3>1. Place(t)' = Place(t) /\ op'[t].key \in kept'[Place(t)]
      BY <1>2, <1>3, <1>4 DEF Place
    <3> QED
      BY <1>1, <1>2, <1>3, <2>1, <3>1 DEF OpInv, Sealed, Delivering, Fresh
  <2>2. CASE u # t
    <3>1. op'[u] = op[u] /\ account'[u] = account[u]
      BY <1>3, <2>2
    <3>2. binding' = binding /\ \A a \in Recipients : binding[a].version \in Nat
      BY Parts DEF IInv, TypeOK, Binding, chain
    <3> QED
      BY <1>6, <3>1, <3>2, OpFrame DEF IInv
  <2> QED
    BY <2>1, <2>2
<1> QED
  BY <1>7, <1>8, <1>9, <1>10, <1>11 DEF IInv

LEMMA CreateKeyInv ==
    ASSUME IInv, NEW t \in Tabs, CreateKey(t)
    PROVE  IInv'
<1>1. Place(t) \in Namespaces /\ op[t].owner \in Accounts /\ op[t].key \in Keys
  BY Now, Parts DEF CreateKey, OpInv, Place
<1>2. CASE Taken(Place(t))
  <2> DEFINE o == [op[t] EXCEPT !.step = "opened", !.key = current[Place(t)]]
  <2>1. o \in Operation /\ o.step = "opened" /\ o.owner = op[t].owner /\ o.key = current[Place(t)]
    BY <1>1, Now DEF Operation, Steps
  <2>2. Become(t, o) /\ UNCHANGED <<chain, kept, current, account, device>> /\ made' = made
    BY <1>2 DEF CreateKey
  <2>3. current[Place(t)] \in kept[Place(t)]
    BY <1>1, <1>2 DEF IInv, StoreInv, Taken
  <2>4. op'[t] = o => OpInv(t)'
    BY <1>1, <2>1, <2>2, <2>3 DEF OpInv, Sealed, Delivering, Place
  <2> HIDE DEF o
  <2> QED
    BY <2>1, <2>2, <2>4, OpStep, Now
<1>3. CASE ~Taken(Place(t))
  <2>1. kept[Place(t)] = {}
    BY <1>1, <1>3 DEF IInv, StoreInv, Taken
  <2>2. Cardinality({op[t].key}) <= MaxHistory
    <3>1. Cardinality({op[t].key}) = 1
      BY FS_Singleton
    <3> QED
      BY <3>1, DeliveryAssumptions
  <2>3. /\ Become(t, [op[t] EXCEPT !.step = "opened"])
        /\ kept' = [kept EXCEPT ![Place(t)] = {op[t].key}]
        /\ current' = [current EXCEPT ![Place(t)] = op[t].key]
        /\ UNCHANGED <<chain, made, account, device>>
        /\ op[t].step = "creating"
    BY <1>3 DEF CreateKey
  <2> QED
    BY <1>1, <2>1, <2>2, <2>3, StoreStep
<1> QED
  BY <1>2, <1>3

LEMMA ConnectedInv ==
    ASSUME IInv, NEW t \in Tabs, Connected(t)
    PROVE  IInv'
<1>1. op[t].owner \in Accounts /\ op[t].key \in kept[<<ProfileOf[t], op[t].owner>>]
  BY Now DEF Connected, OpInv, Place
<1>2. /\ account' \in [Tabs -> Accounts \union {Nobody}]
      /\ device' \in [Tabs -> Keys \union {NoKey}]
      /\ account'[t] = op[t].owner /\ device'[t] = op[t].key
      /\ \A u \in Tabs \ {t} : account'[u] = account[u] /\ device'[u] = device[u]
  <2>1. op[t].key \in Keys \union {NoKey}
    BY Now DEF Operation
  <2> QED
    BY <1>1, <2>1 DEF Connected, IInv, TypeOK
<1>3. Become(t, Idle) /\ UNCHANGED <<chain, kept, current>> /\ made' = made
  BY DEF Connected, browser
<1>4. op'[t] = Idle => OpInv(t)'
  BY IdleInv, Parts
<1> QED
  BY <1>1, <1>2, <1>3, <1>4, TabStep, Parts, Now

-----------------------------------------------------------------------------
(* Registering, rotating, revoking, ensuring.                              *)

\* An operation that begins with the connected wallet and its key.
LEMMA KeyBegins ==
    ASSUME IInv, NEW t \in Tabs, NEW step \in {"keying", "ensuring"}, account[t] # Nobody,
           Begin(t, step, account[t], device[t]),
           UNCHANGED <<chain, browser, account, device>>
    PROVE  IInv'
<1> DEFINE o == [Idle EXCEPT !.step = step, !.owner = account[t], !.key = device[t]]
<1>1. o \in Operation /\ o.step = step /\ o.owner = account[t] /\ o.key = device[t]
  BY Now DEF Idle, Operation, Steps, NoBinding, Binding
<1>2. Become(t, o) /\ UNCHANGED <<chain, kept, current, account, device>> /\ made' = made
  BY DEF Begin, browser
<1>3. account[t] \in Accounts /\ device[t] \in kept[<<ProfileOf[t], account[t]>>]
  BY Now DEF IInv, DeviceIsKept
<1>4. op'[t] = o => OpInv(t)'
  BY <1>1, <1>2, <1>3 DEF OpInv, Sealed, Delivering, Place, Fresh
<1> HIDE DEF o
<1> QED
  BY <1>1, <1>2, <1>4, OpStep, Now

LEMMA RegisterInv == ASSUME IInv, NEW t \in Tabs, Register(t) PROVE IInv'
BY KeyBegins DEF Register

LEMMA EnsureInv == ASSUME IInv, NEW t \in Tabs, Ensure(t) PROVE IInv'
BY KeyBegins DEF Ensure

\* Signing a call that names only keys in a history.
LEMMA SendStep ==
    ASSUME IInv, NEW t \in Tabs, NEW call \in Call, Send(t, call),
           call.name = "register" => call.key \in kept[<<ProfileOf[t], account[t]>>],
           call.name = "submit" => Good(call.document),
           Become(t, Idle) \/ UNCHANGED op,
           UNCHANGED <<time, binding, report, browser, account, device>>
    PROVE  IInv'
<1> DEFINE x == [nonce |-> sent[account[t]], from |-> account[t], call |-> call]
<1>1. account[t] \in Accounts /\ sent[account[t]] \in Nat
  BY Now DEF Send, IInv, TypeOK
<1>2. /\ sent' \in [Accounts -> Nat] /\ pool' = pool \union {x}
      /\ x \in [nonce : Nat, from : Accounts, call : Call]
  BY <1>1 DEF Send, IInv, TypeOK
<1>3. /\ op' \in [Tabs -> Operation] /\ op'[t] \in {op[t], Idle}
      /\ \A u \in Tabs \ {t} : op'[u] = op[u]
  BY Parts, Now DEF IInv, TypeOK, Become
<1>4. TypeOK'
  BY <1>2, <1>3 DEF IInv, TypeOK, browser
<1>5. StoreInv' /\ DeviceIsKept' /\ RegisteredIsKept' /\ ReportInv'
  BY DEF IInv, StoreInv, DeviceIsKept, RegisteredIsKept, ReportInv, Good, Somewhere, browser
<1>6. PoolInv'
  <2>1. /\ x.call.name = "register" => Somewhere(x.from, x.call.key)
        /\ x.call.name = "submit" => Good(x.call.document)
    BY Parts DEF Somewhere
  <2>2. \A y \in pool' :
        /\ y.call.name = "register" => Somewhere(y.from, y.call.key)
        /\ y.call.name = "submit" => Good(y.call.document)
    BY <1>2, <2>1 DEF IInv, PoolInv
  <2> QED
    BY <2>2 DEF PoolInv, Good, Somewhere, browser
<1>7. ASSUME NEW u \in Tabs PROVE OpInv(u)'
  <2>1. CASE op'[u] = op[u]
    <3>1. /\ \A n \in Namespaces : kept[n] \subseteq kept'[n]
          /\ \A a \in Recipients : binding[a].version \in Nat
          /\ binding' = binding /\ account'[u] = account[u]
      BY Parts DEF IInv, TypeOK, Binding, browser
    <3> QED
      BY <2>1, <3>1, OpFrame DEF IInv
  <2>2. CASE op'[u] = Idle
    BY <2>2, IdleInv, Parts
  <2> QED
    BY <1>3, <2>1, <2>2
<1> QED
  BY <1>4, <1>5, <1>6, <1>7 DEF IInv

LEMMA SendKeyInv ==
    ASSUME IInv, NEW t \in Tabs, SendKey(t)
    PROVE  IInv'
<1> DEFINE call == [name |-> "register", key |-> op[t].key, expires |-> time + Life]
<1>1. /\ account[t] = op[t].owner /\ op[t].owner \in Accounts
      /\ op[t].key \in kept[<<ProfileOf[t], account[t]>>]
  BY Now DEF SendKey, OpInv, Place
<1>2. op[t].key \in Keys
  BY <1>1, Now, Parts
<1>3. call \in Call /\ call.name = "register" /\ call.key = op[t].key
  <2>1. time + Life \in Nat
    BY DeliveryAssumptions DEF IInv, TypeOK
  <2> QED
    BY <1>2, <2>1 DEF Call
<1>4. /\ Send(t, call) /\ Become(t, Idle)
      /\ UNCHANGED <<time, binding, report, browser, account, device>>
  BY DEF SendKey
<1> HIDE DEF call
<1> QED
  BY <1>1, <1>3, <1>4, SendStep

LEMMA RevokeInv ==
    ASSUME IInv, NEW t \in Tabs, Revoke(t)
    PROVE  IInv'
<1>1. [name |-> "revoke"] \in Call
  BY DEF Call
<1> QED
  BY <1>1, SendStep DEF Revoke

LEMMA EnsuredInv ==
    ASSUME IInv, NEW t \in Tabs, Ensured(t)
    PROVE  IInv'
<1>1. UNCHANGED <<chain, kept, current, account, device>> /\ made' = made
  BY DEF Ensured, browser
<1>2. CASE Become(t, Idle)
  BY <1>1, <1>2, OpStep, IdleInv, Parts, Now
<1>3. CASE Become(t, [op[t] EXCEPT !.step = "keying"])
  <2> DEFINE o == [op[t] EXCEPT !.step = "keying"]
  <2>1. /\ o \in Operation /\ o.step = "keying" /\ o.key = op[t].key /\ o.owner = op[t].owner
        /\ o.fresh = op[t].fresh
    BY Now DEF Operation, Steps
  <2>2. /\ op[t].owner \in Accounts /\ op[t].key \in kept[Place(t)]
        /\ Fresh(t) => account[t] = op[t].owner
    BY Now DEF Ensured, OpInv
  <2>3. op'[t] = o => OpInv(t)'
    BY <1>1, <2>1, <2>2 DEF OpInv, Sealed, Delivering, Place, Fresh
  <2>4. Become(t, o)
    BY <1>3
  <2> HIDE DEF o
  <2> QED
    BY <1>1, <2>1, <2>3, <2>4, OpStep, Now
<1> QED
  BY <1>2, <1>3 DEF Ensured

LEMMA RotateInv ==
    ASSUME IInv, NEW t \in Tabs, Rotate(t)
    PROVE  IInv'
<1> DEFINE o == [Idle EXCEPT !.step = "rotating", !.owner = account[t], !.key = made + 1]
<1>1. made + 1 \in Keys /\ made' = made + 1 /\ made' \in 0 .. MaxKeys
  BY Now, DeliveryAssumptions DEF Rotate, Generate, Keys
<1>2. /\ o \in Operation /\ o.step = "rotating" /\ o.owner = account[t] /\ o.key = made + 1
      /\ account[t] \in Accounts
  BY <1>1, Now DEF Rotate, Idle, Operation, Steps, NoBinding, Binding
<1>3. Become(t, o) /\ UNCHANGED <<chain, kept, current, account, device>>
  BY DEF Rotate, Begin
<1>4. op'[t] = o => OpInv(t)'
  BY <1>1, <1>2, <1>3 DEF OpInv, Sealed, Delivering
<1> HIDE DEF o
<1> QED
  BY <1>1, <1>2, <1>3, <1>4, OpStep

LEMMA OneMore ==
    ASSUME NEW S \in SUBSET Keys, NEW k \in Keys, Cardinality(S) < MaxHistory
    PROVE  Cardinality(S \union {k}) <= MaxHistory
<1>1. IsFiniteSet(S)
  <2>1. IsFiniteSet(1 .. MaxKeys)
    BY FS_Interval, DeliveryAssumptions
  <2> QED
    BY <2>1, FS_Subset DEF Keys
<1>2. /\ Cardinality(S) \in Nat
      /\ Cardinality(S \union {k}) = IF k \in S THEN Cardinality(S) ELSE Cardinality(S) + 1
  BY <1>1, FS_AddElement, FS_CardinalityType
<1> QED
  BY <1>2, DeliveryAssumptions

LEMMA StoreRotatedInv ==
    ASSUME IInv, NEW t \in Tabs, StoreRotated(t)
    PROVE  IInv'
<1> DEFINE S == kept[Place(t)] \union {op[t].key}
<1>1. Place(t) \in Namespaces /\ op[t].key \in Keys /\ op[t].step = "rotating"
  BY Now, Parts DEF StoreRotated, OpInv, Place
<1>2. kept[Place(t)] \in SUBSET Keys /\ S \in SUBSET Keys
  BY <1>1, Now
<1>3. Cardinality(S) <= MaxHistory
  <2>1. Cardinality(kept[Place(t)]) < MaxHistory
    <3>1. IsFiniteSet(kept[Place(t)])
      <4>1. IsFiniteSet(Keys)
        BY FS_Interval, DeliveryAssumptions DEF Keys
      <4> QED
        BY <1>2, <4>1, FS_Subset
    <3> QED
      BY <3>1, FS_CardinalityType, DeliveryAssumptions DEF StoreRotated, HistoryFull
  <2> QED
    BY <1>1, <1>2, <2>1, OneMore
<1>4. /\ Become(t, [op[t] EXCEPT !.step = "rotated"])
      /\ kept' = [kept EXCEPT ![Place(t)] = S]
      /\ current' = [current EXCEPT ![Place(t)] = op[t].key]
      /\ UNCHANGED <<chain, made, account, device>>
  BY DEF StoreRotated, Appended
<1>5. Fresh(t) => account[t] = op[t].owner
  BY <1>1, Now DEF OpInv
<1> HIDE DEF S
<1>6. kept[Place(t)] \subseteq S /\ op[t].key \in S
  BY DEF S
<1> QED
  BY <1>1, <1>2, <1>3, <1>4, <1>5, <1>6, StoreStep

LEMMA RotatedInv ==
    ASSUME IInv, NEW t \in Tabs, Rotated(t)
    PROVE  IInv'
<1> DEFINE o == [op[t] EXCEPT !.step = "keying"]
<1>1. /\ o \in Operation /\ o.step = "keying" /\ o.key = op[t].key /\ o.owner = op[t].owner
      /\ o.fresh = op[t].fresh
  BY Now DEF Operation, Steps
<1>2. /\ op[t].owner \in Accounts /\ account[t] = op[t].owner
      /\ op[t].key \in kept[<<ProfileOf[t], op[t].owner>>]
  BY Now DEF Rotated, OpInv, Place
<1>3. /\ Become(t, o) /\ UNCHANGED <<chain, kept, current, account>> /\ made' = made
  BY DEF Rotated, browser
<1> HIDE DEF o
<1>4. /\ account' \in [Tabs -> Accounts \union {Nobody}] /\ account'[t] = op[t].owner
      /\ device' \in [Tabs -> Keys \union {NoKey}] /\ device'[t] = op[t].key
      /\ \A u \in Tabs \ {t} : account'[u] = account[u] /\ device'[u] = device[u]
  <2>1. op[t].key \in Keys \union {NoKey}
    BY Now DEF Operation
  <2> QED
    BY <1>2, <1>3, <2>1 DEF Rotated, IInv, TypeOK
<1>5. op'[t] = o => OpInv(t)'
  BY <1>1, <1>2, <1>3 DEF OpInv, Sealed, Delivering, Place, Fresh
<1> QED
  BY <1>1, <1>2, <1>3, <1>4, <1>5, TabStep, Now

-----------------------------------------------------------------------------
(* Delivering.                                                             *)

LEMMA DeliverInv ==
    ASSUME IInv, NEW t \in Tabs, Deliver(t)
    PROVE  IInv'
<1> DEFINE seen == [r \in Recipients |-> binding[r]]
           o == [Idle EXCEPT !.step = "sealing", !.owner = Worker, !.seen = seen]
<1>1. seen \in [Recipients -> Binding] /\ seen[Worker] = binding[Worker]
      /\ seen[Client] = binding[Client]
  BY Now, Parts
<1>2. Worker \in Accounts /\ o \in Operation /\ o.step = "sealing" /\ o.owner = Worker
      /\ o.seen = seen
  BY <1>1, Parts DEF Idle, Operation, Steps
<1>3. Become(t, o) /\ UNCHANGED <<chain, kept, current, account, device>> /\ made' = made
  BY DEF Deliver, browser
<1>4. seen[Worker].key \in kept[<<ProfileOf[t], Worker>>]
  BY <1>1, DeliveryAssumptions DEF Deliver, Sealable, IInv, DeviceIsKept
<1>5. seen[Client].key # NoKey => Somewhere(Client, seen[Client].key)
  BY <1>1, Parts DEF IInv, RegisteredIsKept, Somewhere
<1> HIDE DEF o, seen
<1>6. op'[t] = o => OpInv(t)'
  BY <1>2, <1>3, <1>4, <1>5 DEF OpInv, Sealed, Delivering, Somewhere
<1> QED
  BY <1>2, <1>3, <1>6, OpStep, Now

\* The next step of a delivery, with the bindings it was sealed for.
LEMMA DeliveryStep ==
    ASSUME IInv, NEW t \in Tabs, NEW o \in Operation, Become(t, o), op[t].step \in Delivering,
           UNCHANGED <<chain, browser, account, device>>,
           o.owner = op[t].owner, o.seen = op[t].seen, o.step \in Sealed,
           op[t].seen[Client].key # NoKey,
           o.step = "rechecking" => \A r \in Recipients : o.since[r] <= binding[r].version
    PROVE  IInv'
<1>1. /\ op[t].owner \in Accounts
      /\ op[t].seen[Worker].key \in kept[<<ProfileOf[t], Worker>>]
      /\ Somewhere(Client, op[t].seen[Client].key)
  BY Now DEF OpInv, Delivering, Sealed
<1>2. binding' = binding /\ kept' = kept
  BY DEF chain, browser
<1>3. op'[t] = o => OpInv(t)'
  BY <1>1, <1>2 DEF OpInv, Sealed, Delivering, Somewhere
<1> QED
  BY <1>3, OpStep, Now DEF browser

LEMMA EncryptInv ==
    ASSUME IInv, NEW t \in Tabs, Encrypt(t)
    PROVE  IInv'
<1> DEFINE o == [op[t] EXCEPT !.step = "checking"]
<1>1. o \in Operation /\ o.step = "checking" /\ o.owner = op[t].owner /\ o.seen = op[t].seen
  BY Now DEF Operation, Steps
<1>2. /\ Become(t, o) /\ UNCHANGED <<chain, browser, account, device>>
      /\ op[t].seen[Client].key # NoKey /\ op[t].step \in Delivering
  BY Parts DEF Encrypt, Delivering
<1> HIDE DEF o
<1> QED
  BY <1>1, <1>2, DeliveryStep DEF Sealed

LEMMA CheckedInv ==
    ASSUME IInv, NEW t \in Tabs, Checked(t)
    PROVE  IInv'
<1> DEFINE o == [op[t] EXCEPT !.step = "uploading"]
<1>1. o \in Operation /\ o.step = "uploading" /\ o.owner = op[t].owner /\ o.seen = op[t].seen
  BY Now DEF Operation, Steps
<1>2. /\ Become(t, o) /\ UNCHANGED <<chain, browser, account, device>>
      /\ op[t].seen[Client].key # NoKey /\ op[t].step \in Delivering
  BY Now DEF Checked, OpInv, Delivering, Sealed
<1> HIDE DEF o
<1> QED
  BY <1>1, <1>2, DeliveryStep DEF Sealed

LEMMA UploadedInv ==
    ASSUME IInv, NEW t \in Tabs, Uploaded(t)
    PROVE  IInv'
<1> DEFINE since == [r \in Recipients |-> binding[r].version]
           o == [op[t] EXCEPT !.step = "rechecking", !.since = since]
<1>1. since \in [Recipients -> Nat] /\ \A r \in Recipients : since[r] <= binding[r].version
  BY Now, Parts DEF Binding
<1>2. /\ o \in Operation /\ o.step = "rechecking" /\ o.owner = op[t].owner
      /\ o.seen = op[t].seen /\ o.since = since
  BY <1>1, Now DEF Operation, Steps
<1>3. /\ Become(t, o) /\ UNCHANGED <<chain, browser, account, device>>
      /\ op[t].seen[Client].key # NoKey /\ op[t].step \in Delivering
  BY Now DEF Uploaded, OpInv, Delivering, Sealed
<1> HIDE DEF o, since
<1> QED
  BY <1>1, <1>2, <1>3, DeliveryStep DEF Sealed

\* The second check compares whole bindings, so what is sent is at least as
\* new as what was in force when the upload ended.
LEMMA SendReportInv ==
    ASSUME IInv, NEW t \in Tabs, SendReport(t)
    PROVE  IInv'
<1> DEFINE d == [to |-> op[t].seen, by |-> ProfileOf[t], since |-> op[t].since]
           call == [name |-> "submit", document |-> d]
<1>1. d \in Document /\ d.to = op[t].seen /\ d.by = ProfileOf[t] /\ d.since = op[t].since
  BY Now, Parts DEF Operation, Document
<1>2. call \in Call /\ call.name = "submit" /\ call.document = d
  BY <1>1 DEF Call
<1>3. Good(d)
  <2>1. \A r \in Recipients : op[t].seen[r].version >= op[t].since[r]
    <3>1. ASSUME NEW r \in Recipients PROVE op[t].seen[r].version >= op[t].since[r]
      <4>1. op[t].since[r] <= binding[r].version /\ binding[r] = op[t].seen[r]
        BY Now DEF SendReport, OpInv, BindingsHold, Unchanged
      <4>2. op[t].since[r] \in Nat /\ binding[r].version \in Nat
        BY Now, Parts DEF Operation, Binding
      <4> QED
        BY <4>1, <4>2
    <3> QED
      BY <3>1
  <2>2. /\ op[t].seen[Worker].key \in kept[<<ProfileOf[t], Worker>>]
        /\ Somewhere(Client, op[t].seen[Client].key)
    BY Now DEF SendReport, OpInv, Delivering, Sealed
  <2> QED
    BY <1>1, <2>1, <2>2 DEF Good
<1>4. /\ Send(t, call) /\ Become(t, Idle)
      /\ UNCHANGED <<time, binding, report, browser, account, device>>
  BY DEF SendReport
<1> HIDE DEF call, d
<1> QED
  BY <1>2, <1>3, <1>4, SendStep

-----------------------------------------------------------------------------
(* Failures, wallet events, the chain.                                     *)

LEMMA FailInv ==
    ASSUME IInv, NEW t \in Tabs, Fail(t)
    PROVE  IInv'
BY OpStep, IdleInv, Parts, Now DEF Fail, browser

LEMMA WalletEventInv ==
    ASSUME IInv, NEW t \in Tabs, WalletEvent(t)
    PROVE  IInv'
<1>1. /\ account' \in [Tabs -> Accounts \union {Nobody}] /\ account'[t] = Nobody
      /\ device' \in [Tabs -> Keys \union {NoKey}]
      /\ \A u \in Tabs \ {t} : account'[u] = account[u] /\ device'[u] = device[u]
  BY DEF WalletEvent, IInv, TypeOK
<1>2. UNCHANGED <<chain, kept, current>> /\ made' = made
  BY DEF WalletEvent, browser
<1>3. CASE op[t].step = "idle"
  <2>1. Become(t, op[t])
    BY <1>3 DEF WalletEvent, Become, IInv, TypeOK
  <2>2. op'[t] = op[t] => OpInv(t)'
    BY <1>3, IdleInv
  <2> QED
    BY <1>1, <1>2, <2>1, <2>2, TabStep, Now
<1>4. CASE op[t].step # "idle"
  <2> DEFINE o == [op[t] EXCEPT !.fresh = "no"]
  <2>1. /\ o \in Operation /\ o.step = op[t].step /\ o.owner = op[t].owner
        /\ o.key = op[t].key /\ o.fresh = "no" /\ o.seen = op[t].seen
        /\ o.since = op[t].since
    BY Now DEF Operation
  <2>2. Become(t, o)
    BY <1>4 DEF WalletEvent
  <2> HIDE DEF o
  <2>3. ASSUME op'[t] = o PROVE OpInv(t)'
    <3>1. /\ op'[t].step = op[t].step /\ op'[t].owner = op[t].owner
          /\ op'[t].key = op[t].key /\ op'[t].fresh = "no"
          /\ op'[t].seen = op[t].seen /\ op'[t].since = op[t].since
      BY <2>1, <2>3
    <3>2. /\ kept' = kept /\ binding' = binding
          /\ Place(t)' = Place(t) /\ ~Fresh(t)'
      BY <1>2, <3>1 DEF Place, Fresh, chain
    <3>3. \A k : Somewhere(Client, k)' <=> Somewhere(Client, k)
      BY <3>2 DEF Somewhere
    <3>4. OpInv(t)
      BY Now
    <3>5. /\ op[t].step # "idle" => op[t].owner \in Accounts
          /\ op[t].step \in {"creating", "rotating"} => op[t].key \in Keys
          /\ op[t].step \in {"opened", "rotated", "keying", "ensuring"}
                => op[t].key \in kept[Place(t)]
          /\ op[t].step \in Sealed => op[t].seen[Client].key # NoKey
      BY <3>4 DEF OpInv
    <3>6. op[t].step \in Delivering =>
            /\ op[t].seen[Worker].key \in kept[<<ProfileOf[t], Worker>>]
            /\ op[t].seen[Client].key # NoKey
                  => Somewhere(Client, op[t].seen[Client].key)
      BY <3>4 DEF OpInv
    <3>7. op[t].step = "rechecking" =>
            \A r \in Recipients : op[t].since[r] <= binding[r].version
      BY <3>4 DEF OpInv
    <3>8. op'[t].step \in Delivering =>
            /\ op'[t].seen[Worker].key \in kept'[<<ProfileOf[t], Worker>>]
            /\ op'[t].seen[Client].key # NoKey
                  => Somewhere(Client, op[t].seen[Client].key)'
      BY <3>1, <3>2, <3>6 DEF Somewhere
    <3>9. op'[t].step = "rechecking" =>
            \A r \in Recipients : op'[t].since[r] <= binding'[r].version
      BY <3>1, <3>2, <3>7
    <3>10. /\ op'[t].step # "idle" => op'[t].owner \in Accounts
           /\ op'[t].step \in {"creating", "rotating"} => op'[t].key \in Keys
           /\ op'[t].step \in {"opened", "rotated", "keying", "ensuring"}
                => op'[t].key \in kept'[Place(t)']
           /\ op'[t].step \in Sealed => op'[t].seen[Client].key # NoKey
      BY <3>1, <3>2, <3>5
    <3> QED
      BY <3>2, <3>8, <3>9, <3>10 DEF OpInv
  <2> QED
    BY <1>1, <1>2, <2>1, <2>2, <2>3, TabStep, Now
<1> QED
  BY <1>3, <1>4

\* A step of the chain: histories, tabs and operations stay, versions grow.
LEMMA ChainStep ==
    ASSUME IInv, UNCHANGED <<sent, browser, account, device, op>>, time' \in Nat,
           pool' \subseteq pool, binding' \in [Accounts -> Binding],
           \A a \in Accounts : binding[a].version <= binding'[a].version,
           RegisteredIsKept',
           report' \in Document \union {NoReport}, ReportInv'
    PROVE  IInv'
<1>1. TypeOK'
  BY DEF IInv, TypeOK, browser
<1>2. StoreInv' /\ DeviceIsKept'
  BY DEF IInv, StoreInv, DeviceIsKept, browser
<1>3. PoolInv'
  BY DEF IInv, PoolInv, Good, Somewhere, browser
<1>4. ASSUME NEW u \in Tabs PROVE OpInv(u)'
  <2>1. /\ \A n \in Namespaces : kept[n] \subseteq kept'[n]
        /\ \A a \in Recipients : binding'[a].version \in Nat
        /\ \A a \in Recipients : binding[a].version <= binding'[a].version
        /\ op'[u] = op[u] /\ account'[u] = account[u]
    BY Parts DEF Binding, browser
  <2> QED
    BY <2>1, OpFrame DEF IInv
<1> QED
  BY <1>1, <1>2, <1>3, <1>4 DEF IInv

LEMMA RegisterKeyInv ==
    ASSUME IInv, NEW x \in pool, RegisterKey(x), pool' = pool \ {x},
           UNCHANGED <<time, sent, browser, account, device, op>>
    PROVE  IInv'
<1>1. x.from \in Accounts /\ x.call.key \in Keys /\ x.call.expires \in Nat
  BY DEF RegisterKey, IInv, TypeOK, Call
<1>2. Somewhere(x.from, x.call.key)
  BY DEF RegisterKey, IInv, PoolInv
<1>3. time' \in Nat /\ report' \in Document \union {NoReport} /\ ReportInv'
  BY DEF RegisterKey, IInv, TypeOK, ReportInv, Good, Somewhere, browser
<1>4. \A a \in Accounts : binding[a].version \in Nat
  BY Now DEF IInv, TypeOK, Binding
<1>5. CASE binding' = binding
  BY <1>3, <1>4, <1>5, ChainStep DEF IInv, TypeOK, RegisteredIsKept, browser
<1>6. CASE binding' # binding
  <2> DEFINE b == [key |-> x.call.key, expires |-> x.call.expires,
                   version |-> binding[x.from].version + 1]
  <2>1. b \in Binding /\ b.key = x.call.key /\ b.version = binding[x.from].version + 1
    BY <1>1, <1>4 DEF Binding
  <2>2. binding' = [binding EXCEPT ![x.from] = b]
    BY <1>6 DEF RegisterKey
  <2> HIDE DEF b
  <2>3. /\ binding' \in [Accounts -> Binding] /\ binding'[x.from] = b
        /\ \A a \in Accounts \ {x.from} : binding'[a] = binding[a]
    BY <1>1, <2>1, <2>2 DEF IInv, TypeOK
  <2>4. \A a \in Accounts : binding[a].version <= binding'[a].version
    BY <1>1, <1>4, <2>1, <2>3
  <2>5. RegisteredIsKept'
    BY <1>1, <1>2, <2>1, <2>3 DEF IInv, RegisteredIsKept, Somewhere, browser
  <2> QED
    BY <1>3, <2>3, <2>4, <2>5, ChainStep
<1> QED
  BY <1>5, <1>6

LEMMA RevokeKeyInv ==
    ASSUME IInv, NEW x \in pool, RevokeKey(x), pool' = pool \ {x},
           UNCHANGED <<time, sent, browser, account, device, op>>
    PROVE  IInv'
<1>1. x.from \in Accounts /\ \A a \in Accounts : binding[a].version \in Nat
  BY Now DEF IInv, TypeOK, Binding
<1>2. time' \in Nat /\ report' \in Document \union {NoReport} /\ ReportInv'
  BY DEF RevokeKey, IInv, TypeOK, ReportInv, Good, Somewhere, browser
<1> DEFINE b == [key |-> NoKey, expires |-> 0, version |-> binding[x.from].version + 1]
<1>3. b \in Binding /\ b.key = NoKey /\ b.version = binding[x.from].version + 1
  BY <1>1 DEF Binding
<1>4. binding' = [binding EXCEPT ![x.from] = b]
  BY DEF RevokeKey
<1> HIDE DEF b
<1>5. /\ binding' \in [Accounts -> Binding] /\ binding'[x.from] = b
      /\ \A a \in Accounts \ {x.from} : binding'[a] = binding[a]
  BY <1>1, <1>3, <1>4 DEF IInv, TypeOK
<1>6. \A a \in Accounts : binding[a].version <= binding'[a].version
  BY <1>1, <1>3, <1>5
<1>7. RegisteredIsKept'
  BY <1>1, <1>3, <1>5 DEF IInv, RegisteredIsKept, browser
<1> QED
  BY <1>2, <1>5, <1>6, <1>7, ChainStep

LEMMA SubmitDocumentInv ==
    ASSUME IInv, NEW x \in pool, SubmitDocument(x), pool' = pool \ {x},
           UNCHANGED <<time, sent, browser, account, device, op>>
    PROVE  IInv'
<1>1. x.call.document \in Document /\ Good(x.call.document)
  BY DEF SubmitDocument, IInv, TypeOK, PoolInv, Call
<1>2. report' \in {report, x.call.document}
  BY DEF SubmitDocument
<1>3. /\ report \in Document \union {NoReport} /\ ReportInv
      /\ kept' = kept
  BY DEF IInv, TypeOK, browser
<1>3a. report' \in Document \union {NoReport}
  BY <1>1, <1>2, <1>3
<1>3b. ReportInv'
  <2>1. CASE report' = report
    BY <1>3, <2>1 DEF ReportInv, Good, Somewhere
  <2>2. CASE report' = x.call.document
    BY <1>1, <1>3, <2>2 DEF ReportInv, Good, Somewhere
  <2> QED
    BY <1>2, <2>1, <2>2
<1>4. \A a \in Accounts : binding[a].version \in Nat
  BY DEF IInv, TypeOK, Binding
<1>5. time' \in Nat /\ binding' = binding /\ binding' \in [Accounts -> Binding]
  BY DEF SubmitDocument, IInv, TypeOK
<1>5a. RegisteredIsKept'
  <2>1. RegisteredIsKept /\ binding' = binding /\ kept' = kept
    BY <1>3, <1>5 DEF IInv
  <2> QED
    BY <2>1 DEF RegisteredIsKept
<1>6. RegisteredIsKept' /\ \A a \in Accounts : binding[a].version <= binding'[a].version
  BY <1>4, <1>5, <1>5a
<1>7. pool' \subseteq pool /\ time' \in Nat /\ binding' \in [Accounts -> Binding]
  BY <1>5
<1> QED
  BY <1>3a, <1>3b, <1>6, <1>7, ChainStep

LEMMA IncludeInv ==
    ASSUME IInv, NEW x \in pool, Include(x)
    PROVE  IInv'
BY RegisterKeyInv, RevokeKeyInv, SubmitDocumentInv DEF Include

LEMMA TickInv ==
    ASSUME IInv, Tick
    PROVE  IInv'
<1>1. time' \in Nat /\ binding' \in [Accounts -> Binding] /\ report' \in Document \union {NoReport}
  BY DEF Tick, IInv, TypeOK
<1>2. \A a \in Accounts : binding[a].version <= binding'[a].version
  BY DEF Tick, IInv, TypeOK, Binding
<1>3. RegisteredIsKept' /\ ReportInv'
  BY DEF Tick, IInv, RegisteredIsKept, ReportInv, Good, Somewhere, browser
<1> QED
  BY <1>1, <1>2, <1>3, ChainStep DEF Tick

LEMMA StutterInv ==
    ASSUME IInv, UNCHANGED vars
    PROVE  IInv'
BY DEF IInv, TypeOK, StoreInv, DeviceIsKept, RegisteredIsKept, PoolInv, ReportInv, Good,
       Somewhere, OpInv, Fresh, Place, vars

-----------------------------------------------------------------------------
(* The theorems.                                                           *)

LEMMA Inductive == IInv /\ [Next]_vars => IInv'
<1> SUFFICES ASSUME IInv, [Next]_vars PROVE IInv'
  OBVIOUS
<1>1. ASSUME NEW t \in Tabs, NEW a \in Accounts, Connect(t, a) PROVE IInv'
  BY <1>1, ConnectInv
<1>2. ASSUME NEW t \in Tabs, LoadKey(t) \/ CreateKey(t) \/ Connected(t) PROVE IInv'
  BY <1>2, LoadKeyInv, CreateKeyInv, ConnectedInv
<1>3. ASSUME NEW t \in Tabs, \/ Register(t) \/ SendKey(t) \/ Revoke(t)
                             \/ Ensure(t) \/ Ensured(t) PROVE IInv'
  BY <1>3, RegisterInv, SendKeyInv, RevokeInv, EnsureInv, EnsuredInv
<1>4. ASSUME NEW t \in Tabs, Rotate(t) \/ StoreRotated(t) \/ Rotated(t) PROVE IInv'
  BY <1>4, RotateInv, StoreRotatedInv, RotatedInv
<1>5. ASSUME NEW t \in Tabs, \/ Deliver(t) \/ Encrypt(t) \/ Checked(t)
                             \/ Uploaded(t) \/ SendReport(t) PROVE IInv'
  BY <1>5, DeliverInv, EncryptInv, CheckedInv, UploadedInv, SendReportInv
<1>6. ASSUME NEW t \in Tabs, Fail(t) \/ WalletEvent(t) PROVE IInv'
  BY <1>6, FailInv, WalletEventInv
<1>7. ASSUME NEW x \in pool, Include(x) PROVE IInv'
  BY <1>7, IncludeInv
<1>8. CASE Tick
  BY <1>8, TickInv
<1>9. CASE UNCHANGED vars
  BY <1>9, StutterInv
<1> QED
  BY <1>1, <1>2, <1>3, <1>4, <1>5, <1>6, <1>7, <1>8, <1>9 DEF Next

\* The inductive invariant holds throughout: of the stores of every profile,
\* every tab, every pending call and the chain.
THEOREM Invariant == Spec => []IInv
<1>1. Init => IInv
  BY InitInv
<1>2. IInv /\ [Next]_vars => IInv'
  BY Inductive
<1> QED
  BY <1>1, <1>2, PTL DEF Spec

\* Every variable has its type, and no history exceeds MAX_HISTORY.
THEOREM TypeCorrect == Spec => []TypeOK
<1>1. IInv => TypeOK
  BY DEF IInv
<1> QED
  BY <1>1, Invariant, PTL

\* The key of a connected tab is in the history of its wallet and profile
\* (keys.ts, loadOrCreateDeviceKey and rotateDeviceKey).
THEOREM DeviceKept == Spec => []DeviceIsKept
<1>1. IInv => DeviceIsKept
  BY DEF IInv
<1> QED
  BY <1>1, Invariant, PTL

\* The private half of every key in the directory is in a history of its
\* wallet (rotate's "no historical keys were deleted").
THEOREM RegisteredKept == Spec => []RegisteredIsKept
<1>1. IInv => RegisteredIsKept
  BY DEF IInv
<1> QED
  BY <1>1, Invariant, PTL

\* A delivered report is readable by the client in some profile and by the
\* worker in the one that sealed it (the submit action).
THEOREM DeliveredReadable == Spec => []DeliveredIsReadable
<1>1. IInv => DeliveredIsReadable
  BY DEF IInv, ReportInv, Good, Somewhere, DeliveredIsReadable
<1> QED
  BY <1>1, Invariant, PTL

\* No report is delivered for a key replaced by the time its upload ended
\* (the second ensureBindings of the submit action).
THEOREM RecipientsCurrent == Spec => []RecipientsAreCurrent
<1>1. IInv => RecipientsAreCurrent
  BY DEF IInv, ReportInv, Good, RecipientsAreCurrent
<1> QED
  BY <1>1, Invariant, PTL
=============================================================================
