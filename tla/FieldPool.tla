------------------------------ MODULE FieldPool ------------------------------
(***************************************************************************)
(* The pool of flow fields (crates/mmd-engine/src/nav/field_pool.rs) and   *)
(* the orders that cache handles into it (crates/mmd-engine/src/rts/       *)
(* world.rs).                                                              *)
(*                                                                         *)
(* A slot holds one field, built to a destination cell over the obstacle   *)
(* mask of that moment.  An order caches a FieldRef - a slot and the epoch *)
(* the slot carried - and its unit walks that field many ticks later, when *)
(* the slot may have been rebuilt for somebody else or the mask may have   *)
(* changed.  A field's contents are the pair it was built from.            *)
(***************************************************************************)
EXTENDS Integers, FiniteSets

CONSTANTS
  SlotCount,  \* NAV_FIELD_SLOTS (8 in the code)
  EpochMod,   \* the epochs are EpochMod wide (2^64 in the code)
  Cells,      \* the cells of the grid
  OffGrid,    \* a cell no grid has
  Masks,      \* the obstacle masks the world may present, sets of cells
  Movers,     \* the units that carry orders
  None,       \* no key, no order, a field never built
  MaxClock    \* bound: the calls of `acquire'

ASSUME FieldPoolAssumption ==
  /\ SlotCount \in Nat \ {0}
  /\ EpochMod \in Nat /\ EpochMod > 1
  /\ OffGrid \notin Cells /\ None \notin Cells \cup {OffGrid}
  /\ Masks # {} /\ Masks \subseteq SUBSET Cells
  /\ None \notin [dest : Cells \cup {OffGrid}, slot : Int, epoch : Int, build : Int]
  /\ None \notin [dest : Cells, mask : SUBSET Cells]
  /\ MaxClock \in Nat

VARIABLES
  blocked,    \* FieldPool::blocked
  fields,     \* what each slot's field was built from, None while blank
  keys,       \* FieldPool::keys
  lastUsed,   \* FieldPool::last_used
  epochs,     \* FieldPool::epochs
  epochClock, \* FieldPool::epoch_clock
  clock,      \* FieldPool::clock
  rebuilds,   \* FieldPool::rebuilds
  orders,     \* each mover's order: its destination and the FieldRef it cached
  builds,     \* history: which rebuild last wrote each slot
  misled      \* history: movers that sampled a field other than the one they asked for

pool == <<blocked, fields, keys, lastUsed, epochs, epochClock, clock, rebuilds, builds>>
vars == <<pool, orders, misled>>

Slots == 0 .. SlotCount - 1
Dests == Cells \cup {OffGrid}

\* A FieldRef beside the destination it was asked for; `build' is history, the
\* rebuild whose field the handle was issued for.
Orders == [dest : Dests, slot : Slots, epoch : 1 .. EpochMod - 1, build : 1 .. MaxClock]

\* One type invariant: epoch zero is never in a handle, and never on a keyed slot.
TypeOK ==
  /\ blocked \in SUBSET Cells
  /\ fields \in [Slots -> [dest : Cells, mask : SUBSET Cells] \cup {None}]
  /\ keys \in [Slots -> Cells \cup {None}]
  /\ lastUsed \in [Slots -> 0 .. clock]
  /\ epochs \in [Slots -> 0 .. EpochMod - 1]
  /\ epochClock \in 0 .. EpochMod - 1
  /\ clock \in 0 .. MaxClock
  /\ rebuilds \in 0 .. clock
  /\ builds \in [Slots -> 0 .. rebuilds]
  /\ orders \in [Movers -> Orders \cup {None}]
  /\ misled \subseteq Movers
  /\ \A s \in Slots : keys[s] # None => epochs[s] # 0

Init ==
  /\ blocked \in Masks
  /\ fields = [s \in Slots |-> None]
  /\ keys = [s \in Slots |-> None]
  /\ lastUsed = [s \in Slots |-> 0]
  /\ epochs = [s \in Slots |-> 0]
  /\ epochClock = 0 /\ clock = 0 /\ rebuilds = 0
  /\ builds = [s \in Slots |-> 0]
  /\ orders = [m \in Movers |-> None]
  /\ misled = {}
-----------------------------------------------------------------------------
(* The pool                                                                *)

\* Mutant of NextEpoch: the wrap may issue zero.
NextEpochIssuingZero(e) == (e + 1) % EpochMod

\* wrapping_add, never issuing the reserved zero.
NextEpoch(e) == IF (e + 1) % EpochMod = 0 THEN 1 ELSE (e + 1) % EpochMod

Cached(d) == \E s \in Slots : keys[s] = d

\* FlowField::rebuild_in_place accepts the destination.
Buildable(d) == d \in Cells /\ d \notin blocked

\* The least recently used slot, ties to the lowest index; a slot without a key
\* is not preferred, it only is never younger.
IsVictim(s) ==
  \A t \in Slots : lastUsed[s] < lastUsed[t] \/ (lastUsed[s] = lastUsed[t] /\ s <= t)

\* Mutant of Hit: a hit does not refresh the slot's age.
HitWithoutTouch(d, s) ==
  /\ keys[s] = d
  /\ clock < MaxClock
  /\ clock' = clock + 1
  /\ UNCHANGED <<blocked, fields, keys, lastUsed, epochs, epochClock, rebuilds, builds>>

Hit(d, s) ==
  /\ keys[s] = d
  /\ clock < MaxClock
  /\ clock' = clock + 1
  /\ lastUsed' = [lastUsed EXCEPT ![s] = clock + 1]
  /\ UNCHANGED <<blocked, fields, keys, epochs, epochClock, rebuilds, builds>>

Miss(d, s) ==
  /\ ~Cached(d) /\ Buildable(d) /\ IsVictim(s)
  /\ clock < MaxClock
  /\ clock' = clock + 1
  /\ lastUsed' = [lastUsed EXCEPT ![s] = clock + 1]
  /\ fields' = [fields EXCEPT ![s] = [dest |-> d, mask |-> blocked]]
  /\ keys' = [keys EXCEPT ![s] = d]
  /\ epochClock' = NextEpoch(epochClock)
  /\ epochs' = [epochs EXCEPT ![s] = epochClock']
  /\ rebuilds' = rebuilds + 1
  /\ builds' = [builds EXCEPT ![s] = rebuilds']
  /\ UNCHANGED blocked

\* `acquire' answers with slot s ...
Acquire(d, s) == Hit(d, s) \/ Miss(d, s)

\* ... or refuses: the victim keeps its field, its key and its age.
Refuse(d) ==
  /\ ~Cached(d) /\ ~Buildable(d)
  /\ clock < MaxClock
  /\ clock' = clock + 1
  /\ UNCHANGED <<blocked, fields, keys, lastUsed, epochs, epochClock, rebuilds, builds>>

\* Mutants of IsCurrent: one half of the comparison forgotten.
SameKey(o) == keys[o.slot] = o.dest
SameEpoch(o) == epochs[o.slot] = o.epoch

IsCurrent(o) == keys[o.slot] = o.dest /\ epochs[o.slot] = o.epoch

\* Mutant of DropKeys: the fields of the old mask stay current.
KeepKeys == UNCHANGED keys

DropKeys == keys' = [s \in Slots |-> None]

\* A building finished or fell, and the world hands over its new centre mask.
ReplaceBlockedMask(mask) ==
  /\ blocked' = mask
  /\ DropKeys
  /\ UNCHANGED <<fields, lastUsed, epochs, epochClock, clock, rebuilds, builds, orders, misled>>

SetBlocked(cell, b) ==
  /\ cell \in Cells
  /\ blocked' = IF b THEN blocked \cup {cell} ELSE blocked \ {cell}
  /\ DropKeys
  /\ UNCHANGED <<fields, lastUsed, epochs, epochClock, clock, rebuilds, builds, orders, misled>>
-----------------------------------------------------------------------------
(* The orders that hold handles                                            *)

\* The FieldRef `acquire' has just returned for slot s.
Granted(d, s) == [dest |-> d, slot |-> s, epoch |-> epochs'[s], build |-> builds'[s]]

\* order_group, and the enemy's march: one acquire, its handle shared by the
\* whole group; a refusal changes nobody's order.
OrderGroup(group, d) ==
  /\ \/ \E s \in Slots :
          /\ Acquire(d, s)
          /\ orders' = [m \in Movers |-> IF m \in group THEN Granted(d, s) ELSE orders[m]]
     \/ Refuse(d) /\ UNCHANGED orders
  /\ UNCHANGED misled

\* A follower whose target has walked off, a gatherer turning home: the mover's
\* own order gets a new destination, or ends when there is no field to it.
Repath(m, d) ==
  /\ orders[m] # None
  /\ \/ \E s \in Slots : Acquire(d, s) /\ orders' = [orders EXCEPT ![m] = Granted(d, s)]
     \/ Refuse(d) /\ orders' = [orders EXCEPT ![m] = None]
  /\ UNCHANGED misled

\* The slot's field is the one m's order wants, over today's mask.
Sample(m, s) ==
  misled' = IF fields'[s] = [dest |-> orders[m].dest, mask |-> blocked]
            THEN misled ELSE misled \cup {m}

\* step_one_unit, steps 3 and 4: keep a current handle, re-acquire a stale one
\* or drop the order, then read the slot.
Walk(m) ==
  /\ orders[m] # None
  /\ \/ /\ IsCurrent(orders[m])
        /\ UNCHANGED <<pool, orders>>
        /\ Sample(m, orders[m].slot)
     \/ /\ ~IsCurrent(orders[m])
        /\ \E s \in Slots :
             /\ Acquire(orders[m].dest, s)
             /\ orders' = [orders EXCEPT ![m] = Granted(orders[m].dest, s)]
             /\ Sample(m, s)
     \/ /\ ~IsCurrent(orders[m])
        /\ Refuse(orders[m].dest)
        /\ orders' = [orders EXCEPT ![m] = None]
        /\ UNCHANGED misled

\* Arrival, death, a Stop, or a sampled cell the field cannot be reached from.
EndOrder(m) ==
  /\ orders[m] # None
  /\ orders' = [orders EXCEPT ![m] = None]
  /\ UNCHANGED <<pool, misled>>

Next ==
  \/ \E mask \in Masks : ReplaceBlockedMask(mask)
  \/ \E cell \in Dests, b \in BOOLEAN : SetBlocked(cell, b)
  \/ \E group \in SUBSET Movers \ {{}}, d \in Dests : OrderGroup(group, d)
  \/ \E m \in Movers, d \in Dests : Repath(m, d)
  \/ \E m \in Movers : Walk(m) \/ EndOrder(m)

Spec == Init /\ [][Next]_vars
-----------------------------------------------------------------------------
\* However many other orders and mask changes came between, a handle that
\* `is_current' accepts leads to a field built to the holder's destination over
\* the mask the world has now.
CurrentFieldIsRight ==
  \A m \in Movers : orders[m] # None /\ IsCurrent(orders[m]) =>
    fields[orders[m].slot] = [dest |-> orders[m].dest, mask |-> blocked]

\* Fewer rebuilds than there are epochs, so that no epoch was issued twice.
Unwrapped == rebuilds < EpochMod

\* ... and to the very build the handle was issued for: a field rebuilt to the
\* same cell since then is a different field, and its holder must re-acquire.
\* It holds until the epochs wrap.
CurrentIsSameBuild ==
  Unwrapped =>
    \A m \in Movers : orders[m] # None /\ IsCurrent(orders[m]) =>
    builds[orders[m].slot] = orders[m].build

\* No unit ever samples a field to somewhere else, or one that predates a wall.
NoMoverMisled == misled = {}

\* One destination, one field: two groups sent to a cell share it.
OneFieldPerDestination ==
  \A s, t \in Slots : keys[s] # None /\ keys[s] = keys[t] => s = t

\* A rebuild never evicts a live field while some slot has none.
NoNeedlessEviction ==
  [][\A s \in Slots : (keys[s] # None /\ keys'[s] \notin {keys[s], None}) =>
       \A t \in Slots : keys[t] # None]_vars
-----------------------------------------------------------------------------
(* The cache that the pool implements                                      *)

Keyed == {s \in Slots : keys[s] # None}

Held == {keys[s] : s \in Keyed}

\* The keyed destinations in the order of their slots' ages.
Before == {<<keys[p[1]], keys[p[2]]>> : p \in {q \in Keyed \X Keyed : lastUsed[q[1]] < lastUsed[q[2]]}}

Bound == [m \in Movers |-> IF orders[m] = None THEN None ELSE orders[m].dest]

Cache == INSTANCE FieldCache
  WITH Capacity <- SlotCount, Nowhere <- None, held <- Held, before <- Before, bound <- Bound

\* The pool keeps exactly the SlotCount destinations used last since the mask
\* last changed: `a destination in constant use is never evicted'.
KeepsTheMostRecent == Cache!Spec
=============================================================================
