----------------------------- MODULE FieldCache -----------------------------
(***************************************************************************)
(* What the flow-field pool promises about which destinations it keeps     *)
(* (crates/mmd-engine/src/nav/field_pool.rs, the comments of `acquire' and *)
(* `set_blocked'): the last Capacity distinct destinations used since the  *)
(* obstacle mask last changed, and no others.  Slots, clocks, epochs and   *)
(* handles do not exist at this level.                                     *)
(***************************************************************************)
EXTENDS Naturals, FiniteSets

CONSTANTS Cells, Movers, Nowhere, Capacity

VARIABLES
  held,     \* the destinations held
  before,   \* the pairs of them of which the first was last used before the second
  bound     \* where each mover is bound, or Nowhere

Init == held = {} /\ before = {} /\ bound = [m \in Movers |-> Nowhere]

\* Those held than which none was used less recently.
Oldest == {c \in held : \A e \in held : <<e, c>> \notin before}

\* Sending a group to d makes d the most recent, whether it was held or not; the
\* least recent falls out when d is new and the cache is full.
Serve(group, d) ==
  /\ held' = {d} \cup (IF d \in held \/ Cardinality(held) < Capacity THEN held ELSE held \ Oldest)
  /\ before' = {p \in before : {p[1], p[2]} \subseteq held' \ {d}} \cup ((held' \ {d}) \X {d})
  /\ bound' = [m \in Movers |-> IF m \in group THEN d ELSE bound[m]]

\* The mover stops; what is held stays held.
Drop(m) == bound' = [bound EXCEPT ![m] = Nowhere] /\ UNCHANGED <<held, before>>

\* The mask changed: nothing built before it may be walked again.
Flush == held' = {} /\ before' = {} /\ UNCHANGED bound

Next ==
  \/ Flush
  \/ \E group \in SUBSET Movers, d \in Cells : Serve(group, d)
  \/ \E m \in Movers : Drop(m)

Spec == Init /\ [][Next]_<<held, before, bound>>
=============================================================================
