------------------------------ MODULE GatherPairs ------------------------------
(***************************************************************************)
(* Which unit bodies may stand inside each other, and the movement system  *)
(* that keeps to it (crates/mmd-engine/src/rts/world.rs `movement',        *)
(* collision.rs).                                                          *)
(*                                                                         *)
(* Two workers that both gather pass through each other.  When one of them *)
(* stops, the pair has `Bound' ticks to separate and is then relocated or  *)
(* reported.  A byte for each pair of rows of the store says where it is.  *)
(*                                                                         *)
(* Positions are known by what overlaps: a move changes only the pairs of  *)
(* the bodies it moves, and the gates it passed say which of those may     *)
(* have come to overlap.  Where a body has room is a choice.               *)
(***************************************************************************)
EXTENDS Integers, FiniteSets

CONSTANTS
  Rows,       \* the store's rows are 1 .. Rows
  Bound,      \* GATHER_SEPARATION_TICKS (12 in the code)
  MaxPushed   \* MAX_PUSHED_BODIES (8 in the code)

ASSUME PairsAssumption == Rows \in Nat /\ Bound \in 1 .. 254 /\ MaxPushed \in Nat

Slots == 1 .. Rows
Pairs == {p \in Slots \X Slots : p[1] < p[2]}   \* pair_index: one byte for both orders
Of(r) == {p \in Pairs : r \in {p[1], p[2]}}

Hard == 0
Active == 255   \* GATHER_PAIR_ACTIVE
Exempt(b) == b # Hard
Transition(b) == b \in 1 .. Bound

Never == Bound + 1

VARIABLES
  phase,     \* "orders" is everything but movement
  unit,      \* in each row a unit that gathers, one that does not, or none
  strange,   \* rows whose generation the table has not seen (generations)
  byte,      \* gather_pairs
  merged,    \* the live pairs whose bodies overlap
  snapshot,  \* merged when the pass began (snapshot_pos)
  pairs,     \* pairs the pass has yet to come to
  walkers,   \* units that have yet to propose a step
  pushed,    \* units shoved in this tick
  failed,    \* last_tick_error
  \* history
  since,     \* ticks since the two gathered when the policy was marked, up to Never
  reported,  \* pairs that overlap since their exit failed
  crossed    \* pairs that overlap since the pass moved one into the other

table == <<strange, byte>>
history == <<since, reported, crossed>>
vars == <<phase, unit, table, merged, snapshot, pairs, walkers, pushed, failed, history>>

Live == {r \in Slots : unit[r] # "none"}
LivePairs == {p \in Pairs : {p[1], p[2]} \subseteq Live}
Gatherers(p) == unit[p[1]] = "gathering" /\ unit[p[2]] = "gathering"

Init ==
  /\ phase = "orders"
  /\ unit \in [Slots -> {"none", "busy"}]
  /\ strange = {} /\ byte = [p \in Pairs |-> Hard]
  /\ merged = {} /\ snapshot = {}
  /\ pairs = {} /\ walkers = {} /\ pushed = {} /\ failed = FALSE
  /\ since = [p \in Pairs |-> Never] /\ reported = {} /\ crossed = {}

\* No more than the pairs of M overlap now.
StillOnly(M) == reported' = reported \cap M /\ crossed' = crossed \cap M
-----------------------------------------------------------------------------
(* Between the movements of two ticks                                      *)

\* An order is given, ends or fails.
ChangeOrder(r) ==
  /\ phase = "orders" /\ r \in Live
  /\ \E what \in {"gathering", "busy"} : unit' = [unit EXCEPT ![r] = what]
  /\ UNCHANGED <<phase, table, merged, snapshot, pairs, walkers, pushed, failed, history>>

Despawn(r) ==
  /\ phase = "orders" /\ r \in Live
  /\ unit' = [unit EXCEPT ![r] = "none"]
  /\ merged' = merged \ Of(r) /\ StillOnly(merged')
  /\ UNCHANGED <<phase, table, snapshot, pairs, walkers, pushed, failed, since>>

\* A unit is placed clear of all bodies (nearest_free_body_center).
Spawn(r) ==
  /\ phase = "orders" /\ r \notin Live
  /\ \E what \in {"gathering", "busy"} : unit' = [unit EXCEPT ![r] = what]
  /\ strange' = strange \cup {r}
  /\ since' = [p \in Pairs |-> IF p \in Of(r) THEN Never ELSE since[p]]
  /\ UNCHANGED <<phase, byte, merged, snapshot, pairs, walkers, pushed, failed, reported, crossed>>

\* Bodies under a building that finishes are put clear of all others (finish_site).
Evacuate(R) ==
  /\ phase = "orders" /\ R \subseteq Live
  /\ merged' = {p \in merged : {p[1], p[2]} \cap R = {}} /\ StillOnly(merged')
  /\ UNCHANGED <<phase, unit, table, snapshot, pairs, walkers, pushed, failed, since>>
-----------------------------------------------------------------------------
(* movement: the policy of this tick, and the exits                        *)

\* Mutant of SyncSlots: a recycled row keeps the bytes of its former tenant.
SyncNothing(p) == byte[p]

\* sync_slot, of every live row.
SyncSlots(p) == IF {p[1], p[2]} \cap strange \cap Live # {} THEN Hard ELSE byte[p]

Later(n) == IF n < Never THEN n + 1 ELSE Never

CollectAndMark ==
  /\ phase = "orders" /\ phase' = "pairs"
  /\ LET marked == {p \in LivePairs : Gatherers(p)} IN
       /\ byte' = [p \in Pairs |-> IF p \in marked THEN Active ELSE SyncSlots(p)]
       /\ since' = [p \in Pairs |-> IF p \in marked THEN 0 ELSE Later(since[p])]
  /\ strange' = strange \ Live
  /\ snapshot' = merged /\ pairs' = LivePairs
  /\ pushed' = {} /\ failed' = FALSE
  /\ UNCHANGED <<unit, merged, walkers, reported, crossed>>

\* Whom a step aside of m may come to overlap.  Mutant: whoever is in the way.
AnyoneNear(m) == Of(m) \cap LivePairs

\* Not whom it is hard to, nor whom it is leaving already (sweep_hits_a_hard_body,
\* crowds_another_transition).
Passable(m) == {q \in Of(m) \cap LivePairs : byte[q] = Active}

\* What may overlap once m has stepped aside: its overlaps may end, and new ones
\* begin.  A body that overlaps one it is hard to has no legal step.
StepsAside(m) ==
  IF \E q \in merged \cap Of(m) : ~Exempt(byte[q]) THEN {}
  ELSE {(merged \ Of(m)) \cup S : S \in SUBSET ((merged \cap Of(m)) \cup Passable(m))}

\* try_separation_attempt: one of the two steps aside, or neither can; an
\* earlier pair of the pass may have parted them.
Attempts(p) ==
  IF p \in merged THEN {merged} \cup StepsAside(p[1]) \cup StepsAside(p[2]) ELSE {merged}

\* The attempts made, with the last.
Spent(b) == IF b = Active THEN 1 ELSE b + 1

Leaving(p) == ~Gatherers(p) /\ Exempt(byte[p])

\* The pass is in order of the rows.
Turn(p) ==
  /\ phase = "pairs" /\ p \in pairs
  /\ \A q \in pairs : p[1] < q[1] \/ (p[1] = q[1] /\ p[2] <= q[2])
  /\ pairs' = pairs \ {p}
  /\ UNCHANGED <<phase, unit, strange, snapshot, walkers, pushed, since>>

PassOver(p) == Turn(p) /\ ~Leaving(p) /\ UNCHANGED <<byte, merged, failed, reported, crossed>>

\* Apart when the pass began, the pair is hard, wherever the pass has moved the
\* two since.
HasLeft(p) ==
  /\ Turn(p) /\ Leaving(p) /\ p \notin snapshot
  /\ byte' = [byte EXCEPT ![p] = Hard]
  /\ crossed' = crossed \cup ({p} \cap merged)
  /\ UNCHANGED <<merged, failed, reported>>

\* That no byte is past the bound is part of TypeOK: the code's branch for one
\* is never taken.
Separate(p) ==
  /\ Turn(p) /\ Leaving(p) /\ p \in snapshot
  /\ merged' \in Attempts(p) /\ StillOnly(merged')
  /\ \/ p \notin merged' /\ byte' = [byte EXCEPT ![p] = Hard]
     \/ p \in merged' /\ Spent(byte[p]) < Bound /\ byte' = [byte EXCEPT ![p] = Spent(byte[p])]
  /\ UNCHANGED failed

\* Mutant of Cleared: the exit that was spent is left as it is.
NotCleared(p, m) == [byte EXCEPT ![p] = Bound]

\* clear_settled_transitions, p's own exit included; Active pairs keep their byte.
Cleared(p, m) ==
  [q \in Pairs |-> IF q = p \/ (q \in Of(m) \cap LivePairs /\ Transition(byte[q])) THEN Hard ELSE byte[q]]

\* The last attempt fails, and m finds a place clear of all bodies: its exits
\* are over (relocate_stuck_pair).
Relocate(p, m) ==
  /\ Turn(p) /\ Leaving(p) /\ p \in snapshot /\ m \in {p[1], p[2]}
  /\ Spent(byte[p]) = Bound
  /\ \E M \in Attempts(p) : p \in M /\ merged' = M \ Of(m)
  /\ byte' = Cleared(p, m)
  /\ StillOnly(merged') /\ UNCHANGED failed

\* Neither finds one: the pair is hard where it stands, and the tick reports it.
Strand(p) ==
  /\ Turn(p) /\ Leaving(p) /\ p \in snapshot
  /\ Spent(byte[p]) = Bound
  /\ merged' \in Attempts(p) /\ p \in merged'
  /\ byte' = [byte EXCEPT ![p] = Hard]
  /\ reported' = (reported \cap merged') \cup {p} /\ crossed' = crossed \cap merged'
  /\ failed' = TRUE

\* After an exit that failed nobody walks in this tick.
EndPass ==
  /\ phase = "pairs" /\ pairs = {}
  /\ phase' = IF failed THEN "orders" ELSE "steps"
  /\ walkers' = IF failed THEN {} ELSE Live
  /\ snapshot' = {}   \* rewritten before it is read again
  /\ UNCHANGED <<unit, table, merged, pairs, pushed, failed, history>>
-----------------------------------------------------------------------------
(* movement: the steps                                                     *)

\* No step to take, or none that is legal; an order may end here.
Stand(r) ==
  /\ phase = "steps" /\ r \in walkers /\ walkers' = walkers \ {r}
  /\ unit' \in {unit, [unit EXCEPT ![r] = "busy"]}
  /\ UNCHANGED <<phase, table, merged, snapshot, pairs, pushed, failed, history>>

\* The pairs a step of r and its shoves are about.
Together(r, D) == UNION {Of(m) : m \in D \cup {r}}

\* r takes a step and shoves the bodies of D (try_commit_step, try_push_chain).
\* Whoever one of them is hard to and overlaps is in its way and must be shoved
\* too; where they end, all are clear of whom they are hard to.
Walk(r, D) ==
  /\ phase = "steps" /\ r \in walkers /\ walkers' = walkers \ {r}
  /\ D \subseteq (Live \ pushed) \ {r} /\ Cardinality(D) <= MaxPushed
  /\ \A q \in merged \cap Together(r, D) : ~Exempt(byte[q]) => {q[1], q[2]} \subseteq D \cup {r}
  /\ \E S \in SUBSET {q \in Together(r, D) \cap LivePairs : Exempt(byte[q])} :
       merged' = (merged \ Together(r, D)) \cup S
  /\ pushed' = pushed \cup D /\ StillOnly(merged')
  /\ UNCHANGED <<phase, unit, table, snapshot, pairs, failed, since>>

EndMovement ==
  /\ phase = "steps" /\ walkers = {} /\ phase' = "orders"
  /\ pushed' = {}   \* cleared before it is read again
  /\ UNCHANGED <<unit, table, merged, snapshot, pairs, walkers, failed, history>>

Next ==
  \/ \E r \in Slots : ChangeOrder(r) \/ Despawn(r) \/ Spawn(r) \/ Stand(r)
  \/ \E R \in SUBSET Slots : Evacuate(R) \/ \E r \in Slots : Walk(r, R)
  \/ \E p \in Pairs :
       \/ PassOver(p) \/ HasLeft(p) \/ Separate(p) \/ Strand(p)
       \/ \E m \in Slots : Relocate(p, m)
  \/ CollectAndMark \/ EndPass \/ EndMovement

Spec == Init /\ [][Next]_vars
-----------------------------------------------------------------------------
(* Properties                                                              *)

\* The types of the variables; no byte is at the bound or past it, between two
\* pairs of the pass as between two ticks (step_pair_transition).
TypeOK ==
  /\ phase \in {"orders", "pairs", "steps"}
  /\ unit \in [Slots -> {"gathering", "busy", "none"}] /\ strange \subseteq Slots
  /\ byte \in [Pairs -> 0 .. Bound - 1 \cup {Active}]
  /\ merged \subseteq LivePairs /\ snapshot \subseteq Pairs /\ pairs \subseteq LivePairs
  /\ walkers \subseteq Live /\ pushed \subseteq Live /\ failed \in BOOLEAN
  /\ since \in [Pairs -> 0 .. Never]
  /\ reported \subseteq merged /\ crossed \subseteq merged

\* The attempts that p has had the time for since its exit began.
Due(p) == IF p \in pairs THEN since[p] - 1 ELSE since[p]

\* An exemption is a finite licence that nothing renews and nobody inherits
\* (separate_exiting_pairs, sync_slot): these two units gathered when this tick's
\* policy was marked, or they stopped, one attempt has been spent in each tick
\* since, and fewer than Bound in all.
ExemptionIsEarned ==
  \A p \in LivePairs : {p[1], p[2]} \cap strange = {} =>
    IF since[p] = 0 THEN byte[p] = Active
    ELSE \/ byte[p] = Hard
         \/ byte[p] = Active /\ Due(p) = 0
         \/ byte[p] = Due(p) /\ Due(p) \in 1 .. Bound - 1

\* What is true of the promise that no completed tick leaves two bodies merged
\* but of an exempt pair (movement): they are merged, and hard, only since the
\* tick that reported a failed exit, or since one in which the pass moved a body
\* into another that had also just stopped gathering with it.
MergedIsExplained ==
  phase = "orders" => \A p \in merged : Exempt(byte[p]) \/ p \in reported \cup crossed

\* The promise as it stands (movement), but for the exits that were reported.
NoHardPairIsMerged ==
  phase = "orders" => \A p \in merged : Exempt(byte[p]) \/ p \in reported
=============================================================================
