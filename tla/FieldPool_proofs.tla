-------------------------- MODULE FieldPool_proofs --------------------------
(***************************************************************************)
(* Proofs about the flow-field pool, for every number of slots, movers,    *)
(* cells and masks, and every epoch width.                                 *)
(***************************************************************************)
EXTENDS FieldPool, FiniteSetTheorems, TLAPS

\* What ties the keys to the fields behind them: dropping every key with the
\* mask is what makes this inductive.
KeyedIsLive ==
  \A s \in Slots : keys[s] # None =>
    /\ fields[s] = [dest |-> keys[s], mask |-> blocked]
    /\ builds[s] # 0

\* The next epoch is a legal one and is not the reserved zero, wrapped or not.
LEMMA NextEpochLegal ==
  \A e \in 0 .. EpochMod - 1 : NextEpoch(e) \in 1 .. EpochMod - 1
PROOF
<1> TAKE e \in 0 .. EpochMod - 1
<1>1. (e + 1) % EpochMod \in 0 .. EpochMod - 1
  BY FieldPoolAssumption, SMT
<1> QED BY <1>1, FieldPoolAssumption, SMT DEF NextEpoch

\* Sampling never marks a mover whose slot holds the field it asked for.
LEMMA HitIsRight ==
  ASSUME TypeOK, KeyedIsLive, NEW d \in Dests, NEW s \in Slots, keys[s] = d
  PROVE  fields[s] = [dest |-> d, mask |-> blocked]
PROOF BY FieldPoolAssumption DEF KeyedIsLive, Dests

\* Acquire, whichever way it answers, keeps the pool well-typed and hands out a
\* slot that carries the destination, a nonzero epoch and a counted build.
LEMMA AcquireKeepsType ==
  ASSUME TypeOK, KeyedIsLive, NEW d \in Dests, NEW s \in Slots, Acquire(d, s)
  PROVE  /\ blocked' = blocked
         /\ fields' \in [Slots -> [dest : Cells, mask : SUBSET Cells] \cup {None}]
         /\ keys' \in [Slots -> Cells \cup {None}]
         /\ lastUsed' \in [Slots -> 0 .. clock']
         /\ epochs' \in [Slots -> 0 .. EpochMod - 1]
         /\ epochClock' \in 0 .. EpochMod - 1
         /\ clock' \in 0 .. MaxClock
         /\ rebuilds' \in 0 .. clock'
         /\ builds' \in [Slots -> 0 .. rebuilds']
         /\ \A t \in Slots : keys'[t] # None => epochs'[t] # 0
         /\ keys'[s] = d /\ d \in Cells
         /\ fields'[s] = [dest |-> d, mask |-> blocked]
         /\ Granted(d, s) \in Orders
         /\ KeyedIsLive'
PROOF
<1> USE FieldPoolAssumption
<1>1. CASE Hit(d, s)
  <2>1. d \in Cells
    BY <1>1 DEF Hit, TypeOK, Dests
  <2>2. fields[s] = [dest |-> d, mask |-> blocked]
    BY <1>1, HitIsRight DEF Hit
  <2>3. lastUsed' \in [Slots -> 0 .. clock']
    BY <1>1 DEF Hit, TypeOK
  <2>4. Granted(d, s) \in Orders
    <3>1. epochs[s] \in 1 .. EpochMod - 1 /\ builds[s] \in 1 .. MaxClock
      BY <1>1, <2>1 DEF Hit, TypeOK, KeyedIsLive
    <3> QED BY <3>1, <1>1 DEF Hit, Granted, Orders
  <2> QED BY <1>1, <2>1, <2>2, <2>3, <2>4 DEF Hit, TypeOK, KeyedIsLive
<1>2. CASE Miss(d, s)
  <2>1. d \in Cells /\ epochClock' \in 1 .. EpochMod - 1
    BY <1>2, NextEpochLegal DEF Miss, TypeOK, Buildable
  <2>2. /\ keys' = [keys EXCEPT ![s] = d]
        /\ fields' = [fields EXCEPT ![s] = [dest |-> d, mask |-> blocked]]
        /\ epochs' = [epochs EXCEPT ![s] = epochClock']
        /\ builds' = [builds EXCEPT ![s] = rebuilds']
        /\ lastUsed' = [lastUsed EXCEPT ![s] = clock + 1]
        /\ clock' = clock + 1 /\ rebuilds' = rebuilds + 1 /\ blocked' = blocked
        /\ clock' \in 0 .. MaxClock
    BY <1>2 DEF Miss, TypeOK
  <2>3. lastUsed' \in [Slots -> 0 .. clock'] /\ builds' \in [Slots -> 0 .. rebuilds']
    BY <2>2 DEF TypeOK
  <2>4. keys' \in [Slots -> Cells \cup {None}] /\ epochs' \in [Slots -> 0 .. EpochMod - 1]
    BY <2>1, <2>2 DEF TypeOK
  <2>5. fields' \in [Slots -> [dest : Cells, mask : SUBSET Cells] \cup {None}]
    BY <2>1, <2>2 DEF TypeOK
  <2>6. \A t \in Slots : keys'[t] # None => epochs'[t] # 0
    BY <2>1, <2>2 DEF TypeOK
  <2>7. KeyedIsLive'
    BY <2>1, <2>2 DEF KeyedIsLive, TypeOK
  <2>8. keys'[s] = d /\ fields'[s] = [dest |-> d, mask |-> blocked]
    BY <2>2 DEF TypeOK
  <2>9. Granted(d, s) \in Orders
    <3>1. epochs'[s] \in 1 .. EpochMod - 1 /\ builds'[s] \in 1 .. MaxClock
      BY <2>1, <2>2 DEF TypeOK
    <3> QED BY <3>1 DEF Granted, Orders
  <2> QED BY <2>1, <2>2, <2>3, <2>4, <2>5, <2>6, <2>7, <2>8, <2>9 DEF TypeOK
<1> QED BY <1>1, <1>2 DEF Acquire

\* A refused acquire only moves the clock.
LEMMA RefuseKeepsType ==
  ASSUME TypeOK, KeyedIsLive, NEW d \in Dests, Refuse(d)
  PROVE  /\ UNCHANGED <<blocked, fields, keys, epochs, epochClock, rebuilds, builds, lastUsed>>
         /\ clock' \in 0 .. MaxClock
         /\ lastUsed' \in [Slots -> 0 .. clock']
         /\ rebuilds' \in 0 .. clock'
         /\ KeyedIsLive'
PROOF
<1>1. clock' = clock + 1 /\ clock' \in 0 .. MaxClock
  BY FieldPoolAssumption DEF Refuse, TypeOK
<1>2. lastUsed' \in [Slots -> 0 .. clock'] /\ rebuilds' \in 0 .. clock'
  BY <1>1, FieldPoolAssumption DEF Refuse, TypeOK
<1> QED BY <1>1, <1>2 DEF Refuse, KeyedIsLive

\* The inductive invariant of the three safety theorems below.
Live == TypeOK /\ KeyedIsLive /\ NoMoverMisled

LEMMA LiveInit == Init => Live
PROOF BY FieldPoolAssumption DEF Init, Live, TypeOK, KeyedIsLive, NoMoverMisled, Slots

LEMMA LiveNext == Live /\ [Next]_vars => Live'
PROOF
<1> USE FieldPoolAssumption
<1> SUFFICES ASSUME Live, [Next]_vars PROVE Live'
  OBVIOUS
<1>0. TypeOK /\ KeyedIsLive /\ misled = {}
  BY DEF Live, NoMoverMisled
<1>1. ASSUME NEW mask \in Masks, ReplaceBlockedMask(mask) PROVE Live'
  BY <1>0, <1>1 DEF ReplaceBlockedMask, DropKeys, Live, TypeOK, KeyedIsLive, NoMoverMisled
<1>2. ASSUME NEW cell \in Dests, NEW b \in BOOLEAN, SetBlocked(cell, b) PROVE Live'
  BY <1>0, <1>2 DEF SetBlocked, DropKeys, Live, TypeOK, KeyedIsLive, NoMoverMisled
<1>3. ASSUME NEW group \in SUBSET Movers, NEW d \in Dests, OrderGroup(group, d) PROVE Live'
  <2>1. ASSUME NEW s \in Slots, Acquire(d, s),
               orders' = [m \in Movers |-> IF m \in group THEN Granted(d, s) ELSE orders[m]]
        PROVE  Live'
    <3>1. orders' \in [Movers -> Orders \cup {None}]
      BY <1>0, <2>1, AcquireKeepsType DEF TypeOK
    <3> QED BY <1>0, <1>3, <2>1, <3>1, AcquireKeepsType
            DEF Live, TypeOK, NoMoverMisled, OrderGroup
  <2>2. ASSUME Refuse(d), UNCHANGED orders PROVE Live'
    BY <1>0, <1>3, <2>2, RefuseKeepsType DEF Live, TypeOK, NoMoverMisled, OrderGroup
  <2> QED BY <1>3, <2>1, <2>2 DEF OrderGroup
<1>4. ASSUME NEW m \in Movers, NEW d \in Dests, Repath(m, d) PROVE Live'
  <2>1. ASSUME NEW s \in Slots, Acquire(d, s), orders' = [orders EXCEPT ![m] = Granted(d, s)]
        PROVE  Live'
    <3>1. orders' \in [Movers -> Orders \cup {None}]
      BY <1>0, <2>1, AcquireKeepsType DEF TypeOK
    <3> QED BY <1>0, <1>4, <2>1, <3>1, AcquireKeepsType
            DEF Live, TypeOK, NoMoverMisled, Repath
  <2>2. ASSUME Refuse(d), orders' = [orders EXCEPT ![m] = None] PROVE Live'
    BY <1>0, <1>4, <2>2, RefuseKeepsType DEF Live, TypeOK, NoMoverMisled, Repath
  <2> QED BY <1>4, <2>1, <2>2 DEF Repath
<1>5. ASSUME NEW m \in Movers, Walk(m) PROVE Live'
  <2>0. orders[m] \in Orders /\ orders[m].dest \in Dests /\ orders[m].slot \in Slots
    BY <1>0, <1>5 DEF Walk, TypeOK, Orders
  <2>1. CASE IsCurrent(orders[m]) /\ UNCHANGED <<pool, orders>> /\ Sample(m, orders[m].slot)
    <3>1. fields[orders[m].slot] = [dest |-> orders[m].dest, mask |-> blocked]
      BY <1>0, <2>0, <2>1, HitIsRight DEF IsCurrent
    <3>2. misled' = {}
      BY <1>0, <2>1, <3>1 DEF Sample, pool
    <3> QED BY <1>0, <2>1, <3>2 DEF pool, Live, TypeOK, KeyedIsLive, NoMoverMisled
  <2>2. ASSUME NEW s \in Slots, Acquire(orders[m].dest, s), Sample(m, s),
               orders' = [orders EXCEPT ![m] = Granted(orders[m].dest, s)]
        PROVE  Live'
    <3>1. orders' \in [Movers -> Orders \cup {None}]
      BY <1>0, <2>0, <2>2, AcquireKeepsType DEF TypeOK
    <3>2. misled' = {}
      BY <1>0, <2>0, <2>2, AcquireKeepsType DEF Sample
    <3> QED BY <1>0, <2>0, <2>2, <3>1, <3>2, AcquireKeepsType DEF Live, TypeOK, NoMoverMisled
  <2>3. CASE Refuse(orders[m].dest) /\ orders' = [orders EXCEPT ![m] = None] /\ UNCHANGED misled
    BY <1>0, <2>0, <2>3, RefuseKeepsType DEF Live, TypeOK, NoMoverMisled
  <2> QED BY <1>5, <2>1, <2>2, <2>3 DEF Walk
<1>6. ASSUME NEW m \in Movers, EndOrder(m) PROVE Live'
  BY <1>0, <1>6 DEF EndOrder, pool, Live, TypeOK, KeyedIsLive, NoMoverMisled
<1>7. CASE UNCHANGED vars
  BY <1>0, <1>7 DEF vars, pool, Live, TypeOK, KeyedIsLive, NoMoverMisled
<1> QED BY <1>1, <1>2, <1>3, <1>4, <1>5, <1>6, <1>7 DEF Next

THEOREM LiveInvariant == Spec => []Live
PROOF BY LiveInit, LiveNext, PTL DEF Spec

\* The type invariant of the pool and of the orders that hold its handles.
THEOREM TypeCorrect == Spec => []TypeOK
PROOF
<1>1. Live => TypeOK
  BY DEF Live
<1> QED BY <1>1, LiveInvariant, PTL

\* A handle `is_current' accepts leads to a field to the holder's destination
\* over the present mask - at every epoch width, so across any wrap.
THEOREM CurrentFieldsAreRight == Spec => []CurrentFieldIsRight
PROOF
<1>1. Live => CurrentFieldIsRight
  BY HitIsRight DEF Live, CurrentFieldIsRight, IsCurrent, TypeOK, Orders
<1> QED BY <1>1, LiveInvariant, PTL

\* No unit ever samples a field to another cell or over an older mask.
THEOREM NobodyIsMisled == Spec => []NoMoverMisled
PROOF
<1>1. Live => NoMoverMisled
  BY DEF Live
<1> QED BY <1>1, LiveInvariant, PTL
-----------------------------------------------------------------------------
\* Two slots never hold the same destination, so one cell has one live field.
LEMMA OneFieldNext == Live /\ OneFieldPerDestination /\ [Next]_vars => OneFieldPerDestination'
PROOF
<1> USE FieldPoolAssumption
<1> SUFFICES ASSUME Live, OneFieldPerDestination, [Next]_vars PROVE OneFieldPerDestination'
  OBVIOUS
<1>0. TypeOK
  BY DEF Live
<1>1. ASSUME NEW d \in Dests, NEW s \in Slots, Acquire(d, s) PROVE OneFieldPerDestination'
  <2>1. CASE Hit(d, s)
    BY <2>1 DEF Hit, OneFieldPerDestination
  <2>2. CASE Miss(d, s)
    BY <1>0, <2>2 DEF Miss, Cached, OneFieldPerDestination, TypeOK
  <2> QED BY <1>1, <2>1, <2>2 DEF Acquire
<1>2. ASSUME UNCHANGED keys PROVE OneFieldPerDestination'
  BY <1>2 DEF OneFieldPerDestination
<1>3. ASSUME DropKeys PROVE OneFieldPerDestination'
  BY <1>3 DEF DropKeys, OneFieldPerDestination
<1>4. ASSUME NEW m \in Movers, Walk(m) PROVE OneFieldPerDestination'
  <2>1. orders[m].dest \in Dests
    BY <1>0, <1>4 DEF Walk, TypeOK, Orders
  <2> QED BY <2>1, <1>1, <1>2, <1>4 DEF Walk, pool, Refuse
<1>5. CASE UNCHANGED vars
  BY <1>2, <1>5 DEF vars, pool
<1> QED BY <1>1, <1>2, <1>3, <1>4, <1>5
        DEF Next, ReplaceBlockedMask, SetBlocked, OrderGroup, Repath, EndOrder, Refuse, pool

\* Groups sent to one cell share one field: no destination is held twice.
THEOREM OneFieldEach == Spec => []OneFieldPerDestination
PROOF
<1>1. Init => OneFieldPerDestination
  BY FieldPoolAssumption DEF Init, OneFieldPerDestination
<1> QED BY <1>1, OneFieldNext, LiveInvariant, PTL DEF Spec

\* Until the epoch counter wraps, an epoch is the number of the rebuild that
\* stamped it, on every slot and in every handle.
EpochIsBuild ==
  /\ epochClock = rebuilds
  /\ \A s \in Slots : epochs[s] = builds[s]
  /\ \A m \in Movers : orders[m] # None => orders[m].epoch = orders[m].build

LEMMA RebuildsOnlyGrow == TypeOK /\ [Next]_vars => rebuilds <= rebuilds'
PROOF
<1> SUFFICES ASSUME TypeOK, [Next]_vars PROVE rebuilds <= rebuilds'
  OBVIOUS
<1> USE FieldPoolAssumption
<1>0. rebuilds \in Nat
  BY DEF TypeOK
<1>1. ASSUME NEW d, NEW s, Acquire(d, s) PROVE rebuilds <= rebuilds'
  BY <1>0, <1>1 DEF Acquire, Hit, Miss
<1>2. ASSUME UNCHANGED rebuilds PROVE rebuilds <= rebuilds'
  BY <1>0, <1>2
<1>3. ASSUME NEW m \in Movers, Walk(m) PROVE rebuilds <= rebuilds'
  BY <1>1, <1>2, <1>3 DEF Walk, Refuse, pool
<1>4. ASSUME NEW m \in Movers, NEW d \in Dests, Repath(m, d) PROVE rebuilds <= rebuilds'
  BY <1>1, <1>2, <1>4 DEF Repath, Refuse
<1>5. ASSUME NEW group \in SUBSET Movers, NEW d \in Dests, OrderGroup(group, d)
      PROVE  rebuilds <= rebuilds'
  BY <1>1, <1>2, <1>5 DEF OrderGroup, Refuse
<1> QED BY <1>2, <1>3, <1>4, <1>5
        DEF Next, ReplaceBlockedMask, SetBlocked, EndOrder, pool, vars

LEMMA EpochIsBuildNext ==
  Live /\ (Unwrapped => EpochIsBuild) /\ [Next]_vars => (Unwrapped => EpochIsBuild)'
PROOF
<1> USE FieldPoolAssumption
<1> SUFFICES ASSUME Live, Unwrapped => EpochIsBuild, [Next]_vars, Unwrapped'
             PROVE  EpochIsBuild'
  OBVIOUS
<1>0. TypeOK /\ KeyedIsLive
  BY DEF Live
<1>a. rebuilds' < EpochMod
  BY DEF Unwrapped
<1>b. EpochIsBuild
  <2>1. rebuilds <= rebuilds' /\ rebuilds \in Nat
    BY <1>0, RebuildsOnlyGrow DEF TypeOK
  <2>2. rebuilds' \in Nat \/ rebuilds' = rebuilds
    BY <1>0, LiveNext DEF Live, TypeOK
  <2> QED BY <1>a, <2>1, <2>2 DEF Unwrapped
<1>1. ASSUME NEW d \in Dests, NEW s \in Slots, Acquire(d, s)
      PROVE  /\ epochClock' = rebuilds'
             /\ \A t \in Slots : epochs'[t] = builds'[t]
             /\ Granted(d, s) \in Orders
             /\ Granted(d, s).epoch = Granted(d, s).build
  <2>1. ASSUME Hit(d, s)
        PROVE  epochClock' = rebuilds' /\ \A t \in Slots : epochs'[t] = builds'[t]
    BY <1>b, <2>1 DEF Hit, EpochIsBuild
  <2>2. ASSUME Miss(d, s)
        PROVE  epochClock' = rebuilds' /\ \A t \in Slots : epochs'[t] = builds'[t]
    <3>1. rebuilds + 1 < EpochMod /\ rebuilds \in Nat
      BY <1>0, <1>a, <2>2 DEF Miss, TypeOK
    <3>2. (rebuilds + 1) % EpochMod = rebuilds + 1
      BY <3>1, SMT
    <3>3. epochClock' = rebuilds'
      BY <1>b, <2>2, <3>1, <3>2 DEF Miss, NextEpoch, EpochIsBuild
    <3> QED BY <1>0, <1>b, <2>2, <3>3 DEF Miss, EpochIsBuild, TypeOK
  <2>3. epochClock' = rebuilds' /\ \A t \in Slots : epochs'[t] = builds'[t]
    BY <1>1, <2>1, <2>2 DEF Acquire
  <2>4. Granted(d, s) \in Orders
    BY <1>0, <1>1, AcquireKeepsType
  <2> QED BY <2>3, <2>4 DEF Granted
<1>2. ASSUME NEW d \in Dests, NEW s \in Slots, NEW group \in SUBSET Movers, Acquire(d, s),
             orders' = [m \in Movers |-> IF m \in group THEN Granted(d, s) ELSE orders[m]]
      PROVE  EpochIsBuild'
  BY <1>1, <1>2, <1>b DEF EpochIsBuild
<1>3. ASSUME NEW d \in Dests, NEW s \in Slots, NEW m \in Movers, Acquire(d, s),
             orders' = [orders EXCEPT ![m] = Granted(d, s)]
      PROVE  EpochIsBuild'
  BY <1>0, <1>1, <1>3, <1>b DEF EpochIsBuild, TypeOK
<1>4. ASSUME UNCHANGED <<epochClock, rebuilds, epochs, builds>>,
             \/ UNCHANGED orders
             \/ \E m \in Movers : orders' = [orders EXCEPT ![m] = None]
      PROVE  EpochIsBuild'
  BY <1>0, <1>4, <1>b DEF EpochIsBuild, TypeOK
<1>5. ASSUME NEW m \in Movers, Walk(m) PROVE EpochIsBuild'
  <2>1. orders[m].dest \in Dests
    BY <1>0, <1>5 DEF Walk, TypeOK, Orders
  <2> QED BY <2>1, <1>3, <1>4, <1>5 DEF Walk, pool, Refuse
<1>6. ASSUME NEW m \in Movers, NEW d \in Dests, Repath(m, d) PROVE EpochIsBuild'
  BY <1>3, <1>4, <1>6 DEF Repath, Refuse
<1>7. ASSUME NEW group \in SUBSET Movers, NEW d \in Dests, OrderGroup(group, d)
      PROVE  EpochIsBuild'
  BY <1>2, <1>4, <1>7 DEF OrderGroup, Refuse
<1>8. CASE UNCHANGED vars
  BY <1>4, <1>8 DEF vars, pool
<1> QED BY <1>4, <1>5, <1>6, <1>7, <1>8
        DEF Next, ReplaceBlockedMask, SetBlocked, EndOrder, pool

\* A current handle names the very build it was issued for, as long as fewer
\* rebuilds have happened than the epoch counter can tell apart.
THEOREM CurrentIsTheIssuedBuild == Spec => []CurrentIsSameBuild
PROOF
<1>1. Init => (Unwrapped => EpochIsBuild)
  BY FieldPoolAssumption DEF Init, EpochIsBuild
<1>2. Live /\ (Unwrapped => EpochIsBuild) => CurrentIsSameBuild
  BY DEF Live, TypeOK, Orders, EpochIsBuild, CurrentIsSameBuild, IsCurrent
<1>3. Live /\ (Unwrapped => EpochIsBuild) /\ [Next]_vars => (Unwrapped => EpochIsBuild)'
  BY EpochIsBuildNext
<1> QED BY <1>1, <1>2, <1>3, LiveInvariant, PTL DEF Spec

-----------------------------------------------------------------------------
\* A slot that lost its key with the mask is never younger than one that has
\* been given a key since.
KeylessIsOldest ==
  \A s, t \in Slots : keys[s] = None /\ keys[t] # None => lastUsed[s] < lastUsed[t]

LEMMA KeylessIsOldestNext == Live /\ KeylessIsOldest /\ [Next]_vars => KeylessIsOldest'
PROOF
<1> USE FieldPoolAssumption
<1> SUFFICES ASSUME Live, KeylessIsOldest, [Next]_vars PROVE KeylessIsOldest'
  OBVIOUS
<1>0. TypeOK
  BY DEF Live
<1>1. ASSUME NEW d \in Dests, NEW s \in Slots, Acquire(d, s) PROVE KeylessIsOldest'
  <2>1. ASSUME NEW u \in Slots, NEW t \in Slots, keys'[u] = None, keys'[t] # None
        PROVE  lastUsed'[u] < lastUsed'[t]
    <3>1. lastUsed \in [Slots -> 0 .. clock] /\ clock \in Nat
      BY <1>0 DEF TypeOK
    <3>2. CASE Hit(d, s)
      BY <1>0, <2>1, <3>1, <3>2 DEF Hit, KeylessIsOldest, TypeOK, Dests
    <3>3. CASE Miss(d, s)
      BY <1>0, <2>1, <3>1, <3>3 DEF Miss, Buildable, KeylessIsOldest, TypeOK
    <3> QED BY <1>1, <3>2, <3>3 DEF Acquire
  <2> QED BY <2>1 DEF KeylessIsOldest
<1>2. ASSUME UNCHANGED <<keys, lastUsed>> PROVE KeylessIsOldest'
  BY <1>2 DEF KeylessIsOldest
<1>3. ASSUME DropKeys PROVE KeylessIsOldest'
  BY <1>3 DEF DropKeys, KeylessIsOldest
<1>4. ASSUME NEW m \in Movers, Walk(m) PROVE KeylessIsOldest'
  <2>1. orders[m].dest \in Dests
    BY <1>0, <1>4 DEF Walk, TypeOK, Orders
  <2> QED BY <2>1, <1>1, <1>2, <1>4 DEF Walk, pool, Refuse
<1>5. CASE UNCHANGED vars
  BY <1>2, <1>5 DEF vars, pool
<1> QED BY <1>1, <1>2, <1>3, <1>4, <1>5
        DEF Next, ReplaceBlockedMask, SetBlocked, OrderGroup, Repath, EndOrder, Refuse, pool

\* A step that replaces one live key by another found every slot keyed.
LEMMA EvictionStep ==
  Live /\ KeylessIsOldest /\ [Next]_vars =>
    \A s \in Slots : (keys[s] # None /\ keys'[s] \notin {keys[s], None}) =>
      \A t \in Slots : keys[t] # None
PROOF
<1> USE FieldPoolAssumption
<1> SUFFICES ASSUME Live, KeylessIsOldest, [Next]_vars,
                    NEW s \in Slots, keys[s] # None, keys'[s] \notin {keys[s], None},
                    NEW t \in Slots
             PROVE  keys[t] # None
  OBVIOUS
<1>0. TypeOK
  BY DEF Live
<1>1. ASSUME NEW d \in Dests, NEW v \in Slots, Acquire(d, v) PROVE keys[t] # None
  <2>1. Miss(d, v) /\ v = s
    BY <1>0, <1>1 DEF Acquire, Hit, Miss, TypeOK
  <2>2. lastUsed[s] <= lastUsed[t] /\ lastUsed[s] \in Int /\ lastUsed[t] \in Int
    BY <1>0, <2>1 DEF Miss, IsVictim, TypeOK
  <2> QED BY <2>2 DEF KeylessIsOldest
<1>2. ~ UNCHANGED keys /\ ~ DropKeys
  BY DEF DropKeys
<1>3. ASSUME NEW m \in Movers, Walk(m) PROVE keys[t] # None
  <2>1. orders[m].dest \in Dests
    BY <1>0, <1>3 DEF Walk, TypeOK, Orders
  <2> QED BY <2>1, <1>1, <1>2, <1>3 DEF Walk, pool, Refuse
<1> QED BY <1>1, <1>2, <1>3
        DEF Next, ReplaceBlockedMask, SetBlocked, OrderGroup, Repath, EndOrder, Refuse, pool, vars

\* A rebuild never evicts a live field while some slot has none.
THEOREM EvictsOnlyWhenFull == Spec => NoNeedlessEviction
PROOF
<1>1. Init => KeylessIsOldest
  BY FieldPoolAssumption DEF Init, KeylessIsOldest
<1>2. Spec => [](Live /\ KeylessIsOldest)
  BY <1>1, KeylessIsOldestNext, LiveInvariant, PTL DEF Spec
<1> QED BY <1>2, EvictionStep, PTL DEF Spec, NoNeedlessEviction
-----------------------------------------------------------------------------
(* The pool implements the cache                                           *)

\* No two keyed slots were last used by the same call.
AgesDiffer ==
  \A s, t \in Slots : keys[s] # None /\ keys[t] # None /\ s # t => lastUsed[s] # lastUsed[t]

\* What the refinement rests on.
CacheInv == Live /\ OneFieldPerDestination /\ KeylessIsOldest /\ AgesDiffer

LEMMA AgesDifferNext == Live /\ AgesDiffer /\ [Next]_vars => AgesDiffer'
PROOF
<1> USE FieldPoolAssumption
<1> SUFFICES ASSUME Live, AgesDiffer, [Next]_vars PROVE AgesDiffer'
  OBVIOUS
<1>0. TypeOK
  BY DEF Live
<1>1. ASSUME NEW d \in Dests, NEW s \in Slots, Acquire(d, s) PROVE AgesDiffer'
  <2>1. lastUsed \in [Slots -> 0 .. clock] /\ clock \in Nat
    BY <1>0 DEF TypeOK
  <2>2. /\ lastUsed' = [lastUsed EXCEPT ![s] = clock + 1]
        /\ \A t \in Slots : t # s => keys'[t] = keys[t]
    BY <1>0, <1>1 DEF Acquire, Hit, Miss, TypeOK
  <2> QED BY <2>1, <2>2 DEF AgesDiffer
<1>2. ASSUME UNCHANGED <<keys, lastUsed>> PROVE AgesDiffer'
  BY <1>2 DEF AgesDiffer
<1>3. ASSUME DropKeys PROVE AgesDiffer'
  BY <1>3 DEF DropKeys, AgesDiffer
<1>4. ASSUME NEW m \in Movers, Walk(m) PROVE AgesDiffer'
  <2>1. orders[m].dest \in Dests
    BY <1>0, <1>4 DEF Walk, TypeOK, Orders
  <2> QED BY <2>1, <1>1, <1>2, <1>4 DEF Walk, pool, Refuse
<1>5. CASE UNCHANGED vars
  BY <1>2, <1>5 DEF vars, pool
<1> QED BY <1>1, <1>2, <1>3, <1>4, <1>5
        DEF Next, ReplaceBlockedMask, SetBlocked, OrderGroup, Repath, EndOrder, Refuse, pool

\* The destinations held are the keys, and their order is that of the ages.
MappingIs ==
  /\ Held \subseteq Cells
  /\ \A c : c \in Held <=> c # None /\ \E s \in Slots : keys[s] = c
  /\ \A p \in Before : p[1] \in Held /\ p[2] \in Held /\ p = <<p[1], p[2]>>
  /\ \A s, t \in Slots :
       keys[s] # None /\ keys[t] # None =>
         (<<keys[s], keys[t]>> \in Before <=> lastUsed[s] < lastUsed[t])

LEMMA Mapping == TypeOK /\ OneFieldPerDestination => MappingIs
PROOF
<1> SUFFICES ASSUME TypeOK, OneFieldPerDestination PROVE MappingIs
  OBVIOUS
<1>1. Held \subseteq Cells
  BY DEF Held, Keyed, TypeOK
<1>2. \A c : c \in Held <=> c # None /\ \E s \in Slots : keys[s] = c
  BY DEF Held, Keyed
<1>3. ASSUME NEW p \in Before
      PROVE  p[1] \in Held /\ p[2] \in Held /\ p = <<p[1], p[2]>>
  <2>1. PICK q \in Keyed \X Keyed : p = <<keys[q[1]], keys[q[2]]>>
    BY <1>3 DEF Before
  <2> QED BY <2>1 DEF Held
<1>4. ASSUME NEW s \in Slots, NEW t \in Slots, keys[s] # None, keys[t] # None
      PROVE  <<keys[s], keys[t]>> \in Before <=> lastUsed[s] < lastUsed[t]
  <2>1. ASSUME lastUsed[s] < lastUsed[t] PROVE <<keys[s], keys[t]>> \in Before
    <3>1. <<s, t>> \in {q \in Keyed \X Keyed : lastUsed[q[1]] < lastUsed[q[2]]}
      BY <1>4, <2>1 DEF Keyed
    <3> QED BY <3>1 DEF Before
  <2>2. ASSUME <<keys[s], keys[t]>> \in Before PROVE lastUsed[s] < lastUsed[t]
    <3>1. PICK q \in Keyed \X Keyed :
            lastUsed[q[1]] < lastUsed[q[2]] /\ <<keys[s], keys[t]>> = <<keys[q[1]], keys[q[2]]>>
      BY <2>2 DEF Before
    <3>2. q[1] = s /\ q[2] = t
      BY <1>4, <3>1 DEF Keyed, OneFieldPerDestination
    <3> QED BY <3>1, <3>2
  <2> QED BY <2>1, <2>2
<1> QED BY <1>1, <1>2, <1>3, <1>4 DEF MappingIs

\* The keys of the slots other than s.
Rest(s) == {keys[t] : t \in Keyed \ {s}}

\* A slot is used for d: d goes behind all others, whose order stays.
LEMMA UsedIsMostRecent ==
  ASSUME CacheInv, TypeOK', OneFieldPerDestination',
         NEW d \in Cells, NEW s \in Slots, Acquire(d, s)
  PROVE  /\ Held' = {d} \cup Rest(s) /\ d \notin Rest(s)
         /\ Before' = {p \in Before : {p[1], p[2]} \subseteq Rest(s)} \cup (Rest(s) \X {d})
PROOF
<1> USE FieldPoolAssumption
<1>1. TypeOK /\ OneFieldPerDestination /\ d # None
  BY DEF CacheInv, Live
<1>2. lastUsed \in [Slots -> 0 .. clock] /\ clock \in Nat /\ keys \in [Slots -> Cells \cup {None}]
  BY <1>1 DEF TypeOK
<1>3. /\ lastUsed' = [lastUsed EXCEPT ![s] = clock + 1]
      /\ keys' = [keys EXCEPT ![s] = d]
  BY <1>2 DEF Acquire, Hit, Miss
<1>4. \A t \in Slots : t # s => keys[t] # d
  BY <1>1 DEF Acquire, Hit, Miss, Cached, OneFieldPerDestination
<1>5. /\ \A t \in Slots : keys'[t] = IF t = s THEN d ELSE keys[t]
      /\ \A t \in Slots : lastUsed'[t] = IF t = s THEN clock + 1 ELSE lastUsed[t]
      /\ \A t \in Slots : lastUsed[t] \in 0 .. clock
  BY <1>2, <1>3
<1>6. \A c : c \in Rest(s) <=> c # None /\ \E t \in Slots : t # s /\ keys[t] = c
  BY DEF Rest, Keyed
<1>7. d \notin Rest(s)
  BY <1>4, <1>6
<1>8. /\ \A c : c \in Held' <=> c # None /\ \E t \in Slots : keys'[t] = c
      /\ \A p \in Before' : p[1] \in Held' /\ p[2] \in Held' /\ p = <<p[1], p[2]>>
      /\ \A t, u \in Slots :
           keys'[t] # None /\ keys'[u] # None =>
             (<<keys'[t], keys'[u]>> \in Before' <=> lastUsed'[t] < lastUsed'[u])
  <2>1. (TypeOK /\ OneFieldPerDestination => MappingIs)'
    BY Mapping, PTL
  <2> QED BY <2>1 DEF MappingIs
<1>9. /\ \A p \in Before : p[1] \in Held /\ p[2] \in Held /\ p = <<p[1], p[2]>>
      /\ \A t, u \in Slots :
           keys[t] # None /\ keys[u] # None =>
             (<<keys[t], keys[u]>> \in Before <=> lastUsed[t] < lastUsed[u])
  BY <1>1, Mapping DEF MappingIs
<1>10. Held' = {d} \cup Rest(s)
  BY <1>1, <1>5, <1>6, <1>8
<1>11. ASSUME NEW p PROVE p \in Before' <=> p \in {q \in Before : {q[1], q[2]} \subseteq Rest(s)} \/ p \in Rest(s) \X {d}
  <2>1. ASSUME p \in Before'
        PROVE  p \in {q \in Before : {q[1], q[2]} \subseteq Rest(s)} \/ p \in Rest(s) \X {d}
    <3>1. PICK t \in Slots, u \in Slots :
            keys'[t] = p[1] /\ keys'[u] = p[2] /\ keys'[t] # None /\ keys'[u] # None
      BY <1>8, <2>1
    <3>2. p = <<keys'[t], keys'[u]>> /\ lastUsed'[t] < lastUsed'[u]
      BY <1>8, <2>1, <3>1
    <3>3. t # s
      BY <1>2, <1>5, <3>2
    <3>4. keys'[t] = keys[t] /\ keys[t] \in Rest(s) /\ lastUsed'[t] = lastUsed[t]
      BY <1>5, <1>6, <3>1, <3>3
    <3>5. CASE u = s
      BY <1>5, <3>2, <3>4, <3>5
    <3>6. CASE u # s
      <4>1. keys'[u] = keys[u] /\ keys[u] \in Rest(s) /\ lastUsed'[u] = lastUsed[u]
        BY <1>5, <1>6, <3>1, <3>6
      <4>2. <<keys[t], keys[u]>> \in Before
        BY <1>9, <3>1, <3>2, <3>4, <4>1
      <4> QED BY <3>2, <3>4, <4>1, <4>2
    <3> QED BY <3>5, <3>6
  <2>2. ASSUME p \in Before, {p[1], p[2]} \subseteq Rest(s) PROVE p \in Before'
    <3>1. PICK t \in Slots, u \in Slots :
            t # s /\ u # s /\ keys[t] = p[1] /\ keys[u] = p[2] /\ p[1] # None /\ p[2] # None
      BY <1>6, <2>2
    <3>2. p = <<keys[t], keys[u]>> /\ lastUsed[t] < lastUsed[u]
      BY <1>9, <2>2, <3>1
    <3> QED BY <1>5, <1>8, <3>1, <3>2
  <2>3. ASSUME p \in Rest(s) \X {d} PROVE p \in Before'
    <3>1. PICK t \in Slots : t # s /\ keys[t] = p[1] /\ p[1] # None /\ p = <<keys[t], d>>
      BY <1>6, <2>3
    <3>2. lastUsed'[t] < lastUsed'[s] /\ keys'[t] = keys[t] /\ keys'[s] = d
      BY <1>2, <1>5, <3>1
    <3> QED BY <1>1, <1>8, <3>1, <3>2
  <2> QED BY <2>1, <2>2, <2>3
<1> QED BY <1>7, <1>10, <1>11

\* A full pool gives up its oldest key, and a pool that is not full none.
LEMMA GivesUpTheOldest ==
  ASSUME CacheInv, NEW d \in Cells, NEW s \in Slots, Acquire(d, s)
  PROVE  {d} \cup Rest(s)
           = {d} \cup (IF d \in Held \/ Cardinality(Held) < SlotCount THEN Held ELSE Held \ Cache!Oldest)
PROOF
<1> USE FieldPoolAssumption
<1>1. TypeOK /\ OneFieldPerDestination /\ KeylessIsOldest /\ AgesDiffer /\ d # None
  BY DEF CacheInv, Live
<1>2. /\ \A c : c \in Held <=> c # None /\ \E t \in Slots : keys[t] = c
      /\ \A t, u \in Slots :
           keys[t] # None /\ keys[u] # None =>
             (<<keys[t], keys[u]>> \in Before <=> lastUsed[t] < lastUsed[u])
  BY <1>1, Mapping DEF MappingIs
<1>3. \A c : c \in Rest(s) <=> c # None /\ \E t \in Slots : t # s /\ keys[t] = c
  BY DEF Rest, Keyed
<1>4. IsFiniteSet(Slots) /\ Cardinality(Slots) = SlotCount
  <2>1. 0 \in Int /\ SlotCount - 1 \in Int /\ ~ (0 > SlotCount - 1) /\ SlotCount - 1 - 0 + 1 = SlotCount
    OBVIOUS
  <2> QED BY <2>1, FS_Interval DEF Slots
<1>5. IsFiniteSet(Keyed) /\ Keyed \subseteq Slots
  BY <1>4, FS_Subset DEF Keyed
<1>6. Cardinality(Held) = Cardinality(Keyed)
  <2> DEFINE f == [t \in Keyed |-> keys[t]]
  <2>1. f \in Bijection(Keyed, Held)
    <3>1. \A t \in Keyed : f[t] \in Held
      BY <1>5 DEF Held
    <3>2. \A t, u \in Keyed : f[t] = f[u] => t = u
      BY <1>1 DEF Keyed, OneFieldPerDestination
    <3>3. \A c \in Held : \E t \in Keyed : f[t] = c
      BY DEF Held
    <3> QED BY <3>1, <3>2, <3>3 DEF Bijection, Injection, Surjection, IsInjective
  <2>2. ExistsBijection(Keyed, Held)
    BY <2>1 DEF ExistsBijection
  <2> QED BY <1>5, <2>2, FS_Bijection
<1>7. CASE Hit(d, s)
  <2>1. d \in Held
    BY <1>1, <1>2, <1>7 DEF Hit
  <2>2. Held = {d} \cup Rest(s)
    BY <1>1, <1>2, <1>3, <1>7 DEF Hit
  <2> QED BY <2>1, <2>2
<1>8. CASE Miss(d, s) /\ keys[s] = None
  <2>1. \A c : c \in Held <=> c \in Rest(s)
    BY <1>2, <1>3, <1>8
  <2>6. Held = Rest(s)
    BY <2>1
  <2>2. Keyed \subseteq Slots \ {s}
    BY <1>8 DEF Keyed
  <2>3. IsFiniteSet(Slots \ {s}) /\ Cardinality(Slots \ {s}) = SlotCount - 1
    BY <1>4, FS_RemoveElement
  <2>4. Cardinality(Keyed) <= SlotCount - 1 /\ Cardinality(Keyed) \in Nat
    BY <1>5, <2>2, <2>3, FS_Subset, FS_CardinalityType
  <2>5. Cardinality(Held) < SlotCount
    BY <1>6, <2>4
  <2> QED BY <2>5, <2>6
<1>9. CASE Miss(d, s) /\ keys[s] # None
  <2>1. \A t \in Slots : lastUsed[s] <= lastUsed[t] /\ lastUsed[s] \in Int /\ lastUsed[t] \in Int
    BY <1>1, <1>9 DEF Miss, IsVictim, TypeOK
  <2>2. \A t \in Slots : keys[t] # None
    BY <1>1, <1>9, <2>1 DEF KeylessIsOldest
  <2>3. \A t \in Slots : t # s => lastUsed[s] < lastUsed[t]
    BY <1>1, <1>9, <2>1, <2>2 DEF AgesDiffer
  <2>4. Keyed = Slots
    BY <2>2 DEF Keyed
  <2>5. ~ (Cardinality(Held) < SlotCount)
    BY <1>4, <1>6, <2>4
  <2>6. d \notin Held
    BY <1>2, <1>9 DEF Miss, Cached
  <2>7. Cache!Oldest = {keys[s]}
    <3>1. ASSUME NEW c \in Held, c # keys[s] PROVE <<keys[s], c>> \in Before
      <4>1. PICK t \in Slots : keys[t] = c /\ t # s
        BY <1>2, <3>1
      <4> QED BY <1>2, <2>2, <2>3, <4>1
    <3>2. ASSUME NEW e \in Held PROVE <<e, keys[s]>> \notin Before
      <4>1. PICK t \in Slots : keys[t] = e
        BY <1>2, <3>2
      <4>2. ~ (lastUsed[t] < lastUsed[s])
        BY <2>1
      <4> QED BY <1>2, <2>2, <4>1, <4>2
    <3>3. keys[s] \in Held
      BY <1>2, <1>9
    <3>4. ASSUME NEW c PROVE c \in Cache!Oldest <=> c = keys[s]
      BY <3>1, <3>2, <3>3 DEF Cache!Oldest
    <3> QED BY <3>4
  <2>8. Rest(s) = Held \ {keys[s]}
    <3>1. \A t \in Slots : t # s => keys[t] # keys[s]
      BY <1>1, <1>9 DEF OneFieldPerDestination
    <3> QED BY <1>2, <1>3, <3>1
  <2> QED BY <2>5, <2>6, <2>7, <2>8
<1> QED BY <1>7, <1>8, <1>9 DEF Acquire

\* A slot that answers serves its destination to whoever is bound there now.
LEMMA AcquireServes ==
  ASSUME CacheInv, TypeOK', OneFieldPerDestination',
         NEW d \in Dests, NEW s \in Slots, Acquire(d, s), NEW group \in SUBSET Movers,
         Bound' = [m \in Movers |-> IF m \in group THEN d ELSE Bound[m]]
  PROVE  d \in Cells /\ Cache!Serve(group, d)
PROOF
<1>1. d \in Cells
  BY FieldPoolAssumption DEF Acquire, Hit, Miss, Buildable, CacheInv, Live, TypeOK, Dests
<1>2. /\ Held' = {d} \cup Rest(s) /\ d \notin Rest(s)
      /\ Before' = {p \in Before : {p[1], p[2]} \subseteq Rest(s)} \cup (Rest(s) \X {d})
  BY <1>1, UsedIsMostRecent
<1>3. Held' \ {d} = Rest(s)
  BY <1>2
<1>4. Held' = {d} \cup (IF d \in Held \/ Cardinality(Held) < SlotCount THEN Held ELSE Held \ Cache!Oldest)
  BY <1>1, <1>2, GivesUpTheOldest
<1>5. Cache!Cardinality(Held) = Cardinality(Held)
  BY DEF Cache!Cardinality, Cardinality
<1> QED BY <1>1, <1>2, <1>3, <1>4, <1>5 DEF Cache!Serve

\* A mover is bound where its order leads.
LEMMA BoundIs ==
  ASSUME TypeOK, NEW m \in Movers
  PROVE  Bound[m] = IF orders[m] = None THEN None ELSE orders[m].dest
PROOF BY DEF Bound

\* An order that is granted binds its mover to the destination it was asked for.
LEMMA GrantBinds ==
  ASSUME TypeOK, NEW group \in SUBSET Movers, NEW d \in Dests, NEW s \in Slots,
         Granted(d, s) \in Orders,
         orders' = [m \in Movers |-> IF m \in group THEN Granted(d, s) ELSE orders[m]]
  PROVE  Bound' = [m \in Movers |-> IF m \in group THEN d ELSE Bound[m]]
PROOF
<1>1. Granted(d, s).dest = d /\ Granted(d, s) # None
  BY FieldPoolAssumption DEF Granted, Orders, Slots, Dests
<1> QED BY <1>1 DEF Bound

\* What leaves the keys, the ages and the orders alone is not seen.
LEMMA Unseen ==
  ASSUME UNCHANGED <<keys, lastUsed>>
  PROVE  UNCHANGED <<Held, Before>>
PROOF BY DEF Held, Before, Keyed

\* An order ends.
LEMMA EndDrops ==
  ASSUME TypeOK, NEW m \in Movers, orders' = [orders EXCEPT ![m] = None], UNCHANGED <<keys, lastUsed>>
  PROVE  Cache!Drop(m)
PROOF
<1>1. Bound' = [Bound EXCEPT ![m] = None]
  BY DEF Bound, TypeOK
<1> QED BY <1>1, Unseen DEF Cache!Drop

\* The keys are dropped, and the orders stay.
LEMMA DropFlushes ==
  ASSUME DropKeys, UNCHANGED orders
  PROVE  Cache!Flush
PROOF
<1>1. Keyed' = {}
  BY DEF DropKeys, Keyed
<1> QED BY <1>1 DEF Held, Before, Bound, Cache!Flush

LEMMA CacheStep ==
  CacheInv /\ CacheInv' /\ [Next]_vars => Cache!Next \/ UNCHANGED <<Held, Before, Bound>>
PROOF
<1> SUFFICES ASSUME CacheInv, CacheInv', [Next]_vars
             PROVE  Cache!Next \/ UNCHANGED <<Held, Before, Bound>>
  OBVIOUS
<1>0. TypeOK /\ KeyedIsLive /\ TypeOK' /\ OneFieldPerDestination'
  BY DEF CacheInv, Live
<1>1. ASSUME NEW group \in SUBSET Movers, NEW d \in Dests, NEW s \in Slots, Acquire(d, s),
             orders' = [m \in Movers |-> IF m \in group THEN Granted(d, s) ELSE orders[m]]
      PROVE  Cache!Next
  <2>1. Granted(d, s) \in Orders
    BY <1>0, <1>1, AcquireKeepsType
  <2>2. Bound' = [m \in Movers |-> IF m \in group THEN d ELSE Bound[m]]
    BY <1>0, <1>1, <2>1, GrantBinds
  <2>3. d \in Cells /\ Cache!Serve(group, d)
    BY <1>0, <1>1, <2>2, AcquireServes
  <2> QED BY <2>3 DEF Cache!Next
<1>2. ASSUME NEW d \in Dests, NEW m \in Movers, NEW s \in Slots, Acquire(d, s),
             orders' = [orders EXCEPT ![m] = Granted(d, s)]
      PROVE  Cache!Next
  <2>1. orders' = [x \in Movers |-> IF x \in {m} THEN Granted(d, s) ELSE orders[x]]
    BY <1>0, <1>2 DEF TypeOK
  <2> QED BY <1>1, <1>2, <2>1
<1>3. ASSUME NEW d \in Dests, Refuse(d) PROVE UNCHANGED <<keys, lastUsed>>
  BY <1>3 DEF Refuse
<1>4. ASSUME NEW m \in Movers, orders' = [orders EXCEPT ![m] = None], UNCHANGED <<keys, lastUsed>>
      PROVE  Cache!Next
  BY <1>0, <1>4, EndDrops DEF Cache!Next
<1>5. ASSUME UNCHANGED <<keys, lastUsed, orders>> PROVE UNCHANGED <<Held, Before, Bound>>
  BY <1>5, Unseen DEF Bound
<1>6. CASE \E mask \in Masks : ReplaceBlockedMask(mask)
  BY <1>6, DropFlushes DEF ReplaceBlockedMask, Cache!Next
<1>7. CASE \E cell \in Dests, b \in BOOLEAN : SetBlocked(cell, b)
  BY <1>7, DropFlushes DEF SetBlocked, Cache!Next
<1>8. ASSUME NEW group \in SUBSET Movers \ {{}}, NEW d \in Dests, OrderGroup(group, d)
      PROVE  Cache!Next \/ UNCHANGED <<Held, Before, Bound>>
  BY <1>1, <1>3, <1>5, <1>8 DEF OrderGroup
<1>9. ASSUME NEW m \in Movers, NEW d \in Dests, Repath(m, d)
      PROVE  Cache!Next \/ UNCHANGED <<Held, Before, Bound>>
  BY <1>2, <1>3, <1>4, <1>9 DEF Repath
<1>10. ASSUME NEW m \in Movers, Walk(m) PROVE Cache!Next \/ UNCHANGED <<Held, Before, Bound>>
  <2>1. orders[m].dest \in Dests
    BY <1>0, <1>10 DEF Walk, TypeOK, Orders
  <2> QED BY <1>2, <1>3, <1>4, <1>5, <1>10, <2>1 DEF Walk, pool
<1>11. ASSUME NEW m \in Movers, EndOrder(m) PROVE Cache!Next
  BY <1>4, <1>11 DEF EndOrder, pool
<1>12. CASE UNCHANGED vars
  BY <1>5, <1>12 DEF vars, pool
<1> QED BY <1>6, <1>7, <1>8, <1>9, <1>10, <1>11, <1>12 DEF Next

\* The pool implements the abstract cache, for any number of slots: whatever is
\* ordered, refused, walked or dropped, it holds exactly the destinations used
\* last since the mask last changed (field_pool.rs, acquire and set_blocked).
THEOREM PoolIsACache == Spec => KeepsTheMostRecent
PROOF
<1>1. Init => Cache!Init
  BY DEF Init, Cache!Init, Held, Before, Keyed, Bound
<1>2. Init => OneFieldPerDestination /\ KeylessIsOldest /\ AgesDiffer
  BY FieldPoolAssumption DEF Init, OneFieldPerDestination, KeylessIsOldest, AgesDiffer
<1>3. Spec => []CacheInv
  BY <1>2, OneFieldNext, KeylessIsOldestNext, AgesDifferNext, LiveInvariant, PTL DEF Spec, CacheInv
<1> QED BY <1>1, <1>3, CacheStep, PTL DEF Spec, KeepsTheMostRecent, Cache!Spec
=============================================================================
