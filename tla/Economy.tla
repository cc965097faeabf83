------------------------------- MODULE Economy -------------------------------
(***************************************************************************)
(* The player's economy in the RTS world (crates/mmd-engine/src/rts/       *)
(* world.rs, economy.rs, production.rs, build.rs): the stock, the supply,  *)
(* the construction sites and the production queues, over entity slots     *)
(* that are freed and reused under generational ids.                       *)
(*                                                                         *)
(* The player commands between ticks.  A tick runs the systems in a fixed  *)
(* order, one action each: construction, production, gather, enemy AI,     *)
(* combat, supply recount.  They share `live_scratch', the slots that were *)
(* alive when the tick began, which every system that spawns or despawns   *)
(* has to keep true for the systems after it.                              *)
(*                                                                         *)
(* Geometry is left out: whether a worker stands at its site, whether a    *)
(* footprint can be cleared of bodies, whether a produced unit finds a     *)
(* free place and who dies in combat are choices.                          *)
(***************************************************************************)
EXTENDS Integers, FiniteSets, Sequences, FiniteSetsExt

CONSTANTS
  Slots,          \* the rows of the entity store (MAX_ENTITIES in the code)
  None,           \* a dead row, no order, no ghost, no objective
  Resources,      \* crystal and gas
  BuildingKinds, UnitKinds,
  Worker,         \* the unit kind that builds
  Produces,       \* can_produce: the unit kinds of each building kind
  Cost,           \* building_cost and unit_cost
  SupplyCost,     \* supply_cost
  Grant,          \* supply_grant
  BuildTicks,     \* build_ticks
  ProduceTicks,   \* produce_ticks
  QueueCap,       \* PRODUCTION_QUEUE_CAP (5 in the code)
  StallTicks,     \* STALLED_SITE_TICKS (180 in the code)
  MaxSupplyCap,   \* MAX_SUPPLY_CAP (500 in the code)
  MaxStock,       \* the saturation point of a stock (2^32 - 1 in the code)
  Deposits,       \* what the gatherers may bring home in one tick
  StartKind,      \* the kind each row starts with, None for the rows unused
  StartStock,     \* start_crystal, start_gas
  StartCap,       \* the supply cap once the pre-built buildings are granted
  MaxGen          \* bound: how often a row is reused

Kinds == BuildingKinds \cup UnitKinds
Gens  == 0 .. MaxGen
Ids   == [slot : Slots, gen : Gens]
Entities == [kind : Kinds, progress : Nat, target : Nat]

ASSUME EconomyAssumption ==
  /\ IsFiniteSet(Slots) /\ IsFiniteSet(Resources)
  /\ BuildingKinds \cap UnitKinds = {} /\ Worker \in UnitKinds
  /\ None \notin Kinds \cup Ids \cup Entities
  /\ Produces \in [BuildingKinds -> SUBSET UnitKinds]
  /\ Cost \in [Kinds -> [Resources -> Nat]]
  /\ SupplyCost \in [UnitKinds -> Nat]
  /\ Grant \in [BuildingKinds -> Nat]
  /\ BuildTicks \in [BuildingKinds -> Nat \ {0}]
  /\ ProduceTicks \in [UnitKinds -> Nat \ {0}]
  /\ QueueCap \in Nat /\ StallTicks \in Nat \ {0}
  /\ MaxSupplyCap \in Nat /\ MaxStock \in Nat /\ MaxGen \in Nat \ {0}
  /\ Deposits \subseteq [Resources -> Nat]
  /\ StartKind \in [Slots -> Kinds \cup {None}]
  /\ StartStock \in [Resources -> 0 .. MaxStock]
  /\ StartCap \in 0 .. MaxSupplyCap

VARIABLES
  phase,      \* the system that runs next; "commands" between ticks
  ent,        \* EntityStore: each row's kind, progress and progress_target
  gen,        \* EntityStore: each row's generation
  live,       \* RtsWorld::live_scratch
  orders,     \* the site a worker's Build order names; None for any other order
  queue,      \* each row's ProductionQueue entries, oldest first
  progress,   \* each row's ProductionQueue progress: the head's ticks
  stall,      \* RtsWorld::site_stall
  attend,     \* RtsWorld::build_attend: the sites worked on in the last construction
  placement,  \* the build ghost's kind
  stock,      \* RtsWorld::resources
  used, cap,  \* Supply
  objective,  \* enemy_objective, as the building whose approach cell it is
  dirty,      \* enemy_objective_dirty
  orphaned    \* history: the objective's building was cancelled, not destroyed

rows  == <<ent, gen, live, orders, queue, progress, stall, attend>>
purse == <<placement, stock, used, cap>>
enemy == <<objective, dirty, orphaned>>
vars  == <<phase, rows, purse, enemy>>

Phases == {"commands", "construction", "production", "gather", "enemy ai", "combat", "recount"}
-----------------------------------------------------------------------------
(* What a state says                                                       *)

Alive == {s \in Slots : ent[s] # None}
Units == {s \in Alive : ent[s].kind \in UnitKinds}
Buildings == {s \in Alive : ent[s].kind \in BuildingKinds}
Sites == {s \in Buildings : ent[s].target > 0}
Finished == {s \in Buildings : ent[s].target = 0}
Workers == {s \in Units : ent[s].kind = Worker}

\* The id of the entity in row s, and the rows a spawn may take.
IdAt(s) == [slot |-> s, gen |-> gen[s]]
Free == {s \in Slots : ent[s] = None /\ gen[s] < MaxGen}
Names(id, S) == \E s \in S : id = IdAt(s)

\* The sum of a function, as the number of the units it stands for.
Points(c) == UNION {{x} \X (1 .. c[x]) : x \in DOMAIN c}
Total(c) == Cardinality(Points(c))

\* What the entities of S are worth at a price, and the queues of the living buildings.
Worth(S, price) == Total([s \in S |-> price[ent[s].kind]])
Entries == {e \in Buildings \X (1 .. QueueCap) : e[2] \in DOMAIN queue[e[1]]}
QueuesWorth(price) == Total([e \in Entries |-> price[queue[e[1]][e[2]]]])

\* The supply of the living units and what the queues reserve.
UnitSupply(S) == Worth(S, SupplyCost)
ReservedSupply == QueuesWorth(SupplyCost)
CommittedSupply == UnitSupply(Units) + ReservedSupply

Prices(r) == [k \in Kinds |-> Cost[k][r]]
Covers(cost) == \A r \in Resources : stock[r] >= cost[r]
Debited(cost) == [r \in Resources |-> stock[r] - cost[r]]
Credited(amount) == [r \in Resources |-> Min({MaxStock, stock[r] + amount[r]})]
CostOf(S) == [r \in Resources |-> Worth(S, Prices(r))]
GrantOf(S) == Worth(S, Grant)

\* The stock, and what an unfinished site or a queued unit would refund.
Wealth(r) == stock[r] + Worth(Sites, Prices(r)) + QueuesWorth(Prices(r))

\* The rows after those of S are despawned and their side tables cleared.
Despawned(S) == [s \in Slots |-> IF s \in S THEN None ELSE ent[s]]
Regenerated(S) == [s \in Slots |-> IF s \in S THEN gen[s] + 1 ELSE gen[s]]

\* Mutants of Emptied and Zeroed: the row keeps its queue, or its head's ticks.
NotEmptied(S) == queue
NotZeroed(S) == progress
Emptied(S) == [s \in Slots |-> IF s \in S THEN <<>> ELSE queue[s]]
Zeroed(S) == [s \in Slots |-> IF s \in S THEN 0 ELSE progress[s]]

\* Mutant of Unordered: nobody is told.
StillOrdered(S) == orders

\* The orders after those that name a building of S are cleared.
Unordered(S) == [w \in Slots |-> IF Names(orders[w], S) THEN None ELSE orders[w]]

\* `live_scratch' after construction's retain.  Mutant: no retain.
Unretained(S) == live
Retained(S) == live \ S

\* The objective is looked for again when some building finished or fell.
\* Mutant: nobody sets the flag.
NoAlarm(S) == dirty
Alarm(S) == dirty \/ S # {}
-----------------------------------------------------------------------------
RowsTypeOK ==
  /\ phase \in Phases
  /\ ent \in [Slots -> Entities \cup {None}]
  /\ gen \in [Slots -> Gens]
  /\ live \subseteq Slots /\ attend \subseteq Slots
  /\ orders \in [Slots -> Ids \cup {None}]
  /\ stall \in [Slots -> 0 .. StallTicks - 1]
  /\ progress \in [Slots -> Nat]
  /\ placement \in BuildingKinds \cup {None}
  /\ objective \in Ids \cup {None} /\ dirty \in BOOLEAN /\ orphaned \in BOOLEAN

QueuesOK == queue \in [Slots -> Seq(UnitKinds)] /\ \A s \in Slots : Len(queue[s]) <= QueueCap

\* One type invariant for the module: the queues keep to their capacity, the
\* stall counts stop short of StallTicks and no stock goes below zero.
TypeOK ==
  /\ RowsTypeOK /\ QueuesOK
  /\ stock \in [Resources -> 0 .. MaxStock]
  /\ used \in Nat /\ cap \in 0 .. MaxSupplyCap

\* RtsWorld::new: finished buildings and units, no site, every table blank.
Init ==
  /\ phase = "commands"
  /\ ent = [s \in Slots |-> IF StartKind[s] = None THEN None
                            ELSE [kind |-> StartKind[s], progress |-> 0, target |-> 0]]
  /\ gen = [s \in Slots |-> 0]
  /\ live = {}
  /\ orders = [s \in Slots |-> None]
  /\ queue = [s \in Slots |-> <<>>]
  /\ progress = [s \in Slots |-> 0]
  /\ stall = [s \in Slots |-> 0]
  /\ attend = {}
  /\ placement = None
  /\ stock = StartStock
  /\ used = UnitSupply(Units)
  /\ cap = StartCap
  /\ objective = None /\ dirty = TRUE /\ orphaned = FALSE
-----------------------------------------------------------------------------
(* The player's commands                                                   *)

BeginPlacement(k) ==
  /\ phase = "commands"
  /\ Covers(Cost[k])
  /\ placement' = k
  /\ UNCHANGED <<phase, rows, stock, used, cap, enemy>>

CancelPlacement ==
  /\ phase = "commands"
  /\ placement' = None
  /\ UNCHANGED <<phase, rows, stock, used, cap, enemy>>

\* Mutant of FreshStall: the new site inherits the row's count.
StallOfTheRow(s) == stall
FreshStall(s) == [stall EXCEPT ![s] = 0]

\* The site takes row s; order_build may fail for want of a path, and leaves
\* the builder's order as it was.
ConfirmPlacement(w, s) ==
  /\ phase = "commands"
  /\ placement # None
  /\ w \in Workers /\ s \in Free
  /\ Covers(Cost[placement])
  /\ ent' = [ent EXCEPT ![s] = [kind |-> placement, progress |-> 0,
                                target |-> BuildTicks[placement]]]
  /\ stall' = FreshStall(s)
  /\ stock' = Debited(Cost[placement])
  /\ orders' \in {orders, [orders EXCEPT ![w] = IdAt(s)]}
  /\ placement' = None
  /\ UNCHANGED <<phase, gen, live, attend, queue, progress, used, cap, enemy>>

\* cancel_construction: full refund, despawn, blank queue, builders idle.  The
\* enemy's objective is not looked at, nor the row's stall count.
CancelConstruction(s) ==
  /\ phase = "commands"
  /\ s \in Sites
  /\ stock' = Credited(CostOf({s}))
  /\ ent' = Despawned({s}) /\ gen' = Regenerated({s})
  /\ queue' = Emptied({s}) /\ progress' = Zeroed({s})
  /\ orders' = Unordered({s})
  /\ orphaned' = (orphaned \/ objective = IdAt(s))
  /\ UNCHANGED <<phase, live, stall, attend, placement, used, cap, objective, dirty>>

\* order_build_group: every worker of the group is planned, or nobody is.
OrderBuild(group, s) ==
  /\ phase = "commands"
  /\ s \in Sites
  /\ orders' = [w \in Slots |-> IF w \in group THEN IdAt(s) ELSE orders[w]]
  /\ UNCHANGED <<phase, ent, gen, live, queue, progress, stall, attend, purse, enemy>>

\* Move, Gather, Follow, Attack, Stop: whatever replaces a Build order.
OrderElsewhere(w) ==
  /\ phase = "commands"
  /\ orders[w] # None
  /\ orders' = [orders EXCEPT ![w] = None]
  /\ UNCHANGED <<phase, ent, gen, live, queue, progress, stall, attend, purse, enemy>>

\* Supply::fits: the free supply is zero once the cap has fallen below usage.
\* Mutant: one too many.
FitsAndOne(k) == SupplyCost[k] <= (IF used < cap THEN cap - used ELSE 0) + 1
Fits(k) == SupplyCost[k] <= (IF used < cap THEN cap - used ELSE 0)

\* enqueue_unit: supply is reserved and the cost is paid at once.
Enqueue(s, k) ==
  /\ phase = "commands"
  /\ s \in Finished
  /\ k \in Produces[ent[s].kind]
  /\ Len(queue[s]) < QueueCap
  /\ Fits(k)
  /\ Covers(Cost[k])
  /\ stock' = Debited(Cost[k])
  /\ queue' = [queue EXCEPT ![s] = Append(@, k)]
  /\ used' = used + SupplyCost[k]
  /\ UNCHANGED <<phase, ent, gen, live, orders, progress, stall, attend, placement, cap, enemy>>

\* cancel_queued: entry i is refunded; cancelling the head restarts the next.
CancelQueued(s, i) ==
  /\ phase = "commands"
  /\ s \in Buildings /\ i \in DOMAIN queue[s]
  /\ LET k == queue[s][i]
     IN /\ stock' = Credited(Cost[k])
        /\ used' = IF used < SupplyCost[k] THEN 0 ELSE used - SupplyCost[k]
  /\ queue' = [queue EXCEPT ![s] = SubSeq(@, 1, i - 1) \o SubSeq(@, i + 1, Len(@))]
  /\ progress' = [progress EXCEPT ![s] = IF i = 1 THEN 0 ELSE @]
  /\ UNCHANGED <<phase, ent, gen, live, orders, stall, attend, placement, cap, enemy>>
-----------------------------------------------------------------------------
(* The tick                                                                *)

StartTick ==
  /\ phase = "commands" /\ phase' = "construction"
  /\ live' = Alive
  /\ UNCHANGED <<ent, gen, orders, queue, progress, stall, attend, purse, enemy>>

\* The discarded completions of a site, with this tick's.  Mutant: every one
\* counts as the first.
FirstDiscard(s) == 1
Discards(s) == stall[s] + 1

\* ... which is one too many.  Mutant: an off-by-one.
ExhaustedLate(s) == Discards(s) > StallTicks
Exhausted(s) == Discards(s) >= StallTicks

\* `arrived' are the builders that stand at their site, `clear' the sites whose
\* footprint every body can leave.  A site at its last tick that cannot be
\* cleared holds there, and after StallTicks such ticks is cancelled.
Construction(arrived, clear) ==
  LET attended == {s \in Sites \cap live : \E w \in arrived \cap live : orders[w] = IdAt(s)}
      ending == {s \in attended : ent[s].progress + 1 >= ent[s].target}
      finished == ending \cap clear
      held == ending \ clear
      stalled == {s \in held : Exhausted(s)}
      Worked(s) == CASE s \in stalled -> None
                     [] s \in finished -> [ent[s] EXCEPT !.progress = 0, !.target = 0]
                     [] s \in attended \ ending -> [ent[s] EXCEPT !.progress = @ + 1]
                     [] OTHER -> ent[s]
  IN
  /\ phase = "construction" /\ phase' = "production"
  /\ ent' = [s \in Slots |-> Worked(s)]
  /\ stall' = [s \in Slots |-> IF s \in held \ stalled THEN Discards(s)
                               ELSE IF s \in attended THEN 0 ELSE stall[s]]
  /\ cap' = Min({MaxSupplyCap, cap + GrantOf(finished)})
  /\ stock' = Credited(CostOf(stalled))
  /\ gen' = Regenerated(stalled)
  /\ live' = Retained(stalled)
  /\ queue' = Emptied(stalled) /\ progress' = Zeroed(stalled)
  /\ orders' = [w \in Slots |-> IF Names(orders[w], Sites \ (finished \cup stalled))
                                THEN orders[w] ELSE None]
  /\ attend' = attended
  /\ dirty' = Alarm(finished)
  /\ orphaned' = (orphaned \/ Names(objective, stalled))
  /\ UNCHANGED <<placement, used, objective>>

\* The heads' ticks after tick_head, and the buildings whose head is ready.
Need(s) == ProduceTicks[Head(queue[s])]
Producing == {s \in Finished \cap live : queue[s] # <<>>}
Ready == {s \in Producing : progress[s] + 1 >= Need(s)}

\* pop_ready takes the head of the buildings whose unit was placed.  Mutant: of
\* every building whose head is ready.
PoppedWhenReady(served) == [s \in Slots |-> IF s \in Ready THEN Tail(queue[s]) ELSE queue[s]]
Popped(served) == [s \in Slots |-> IF s \in served THEN Tail(queue[s]) ELSE queue[s]]

\* `spot' gives each ready building the row its unit takes, or None when there
\* is no free place or no free row: the paid head then waits.
Production(spot) ==
  LET served == {s \in Ready : spot[s] # None}
      born(t) == {s \in served : spot[s] = t}
  IN
  /\ phase = "production" /\ phase' = "gather"
  /\ \A s, t \in served : spot[s] = spot[t] => s = t
  /\ ent' = [t \in Slots |-> IF born(t) = {} THEN ent[t]
              ELSE [kind |-> Head(queue[CHOOSE s \in born(t) : TRUE]), progress |-> 0, target |-> 0]]
  /\ live' = live \cup {spot[s] : s \in served}
  /\ queue' = Popped(served)
  /\ progress' = [s \in Slots |-> CASE s \in served -> 0
                                    [] s \in Producing \ served -> Min({Need(s), progress[s] + 1})
                                    [] OTHER -> progress[s]]
  /\ UNCHANGED <<gen, orders, stall, attend, purse, enemy>>

\* Bound: the player never comes to own more than MaxStock of anything.
Gather(amount) ==
  /\ phase = "gather" /\ phase' = "enemy ai"
  /\ \A r \in Resources : Wealth(r) + amount[r] <= MaxStock
  /\ stock' = Credited(amount)
  /\ UNCHANGED <<rows, placement, used, cap, enemy>>

\* The objective is looked for again only when `dirty'; which building is the
\* nearest is geometry.
EnemyAI ==
  /\ phase = "enemy ai" /\ phase' = "combat"
  /\ dirty' = FALSE
  /\ IF dirty
     THEN /\ objective' \in IF Buildings = {} THEN {None} ELSE {IdAt(s) : s \in Buildings}
          /\ orphaned' = FALSE
     ELSE UNCHANGED <<objective, orphaned>>
  /\ UNCHANGED <<rows, purse>>

\* revoke_cap, saturating, for the finished buildings of S.  Mutant: sites are
\* revoked what they never granted.
RevokedForSites(S) == Max({0, cap - GrantOf(S \cap Buildings)})
Revoked(S) == Max({0, cap - GrantOf(S \cap Finished)})

\* The rows of `dead' are destroyed: no refund, grants revoked, builders idle.
Combat(dead) ==
  LET fallen == dead \cap Buildings IN
  /\ phase = "combat" /\ phase' = "recount"
  /\ ent' = Despawned(dead) /\ gen' = Regenerated(dead)
  /\ queue' = Emptied(fallen) /\ progress' = Zeroed(fallen)
  /\ orders' = [w \in Slots |-> IF w \in dead THEN None ELSE Unordered(fallen)[w]]
  /\ cap' = Revoked(dead)
  /\ dirty' = Alarm(fallen)
  /\ live' = live \ dead
  /\ UNCHANGED <<stall, attend, placement, stock, used, objective, orphaned>>

\* Mutant of Recount: the reservations of the queues are forgotten.
RecountUnitsOnly ==
  /\ phase = "recount" /\ phase' = "commands"
  /\ used' = UnitSupply(live \cap Units)
  /\ UNCHANGED <<rows, placement, stock, cap, enemy>>

Recount ==
  /\ phase = "recount" /\ phase' = "commands"
  /\ used' = UnitSupply(live \cap Units) + ReservedSupply
  /\ UNCHANGED <<rows, placement, stock, cap, enemy>>

Command ==
  \/ \E k \in BuildingKinds : BeginPlacement(k)
  \/ CancelPlacement
  \/ \E w, s \in Slots : ConfirmPlacement(w, s)
  \/ \E s \in Slots : CancelConstruction(s)
  \/ \E group \in SUBSET Workers, s \in Slots : OrderBuild(group, s)
  \/ \E w \in Slots : OrderElsewhere(w)
  \/ \E s \in Slots, k \in UnitKinds : Enqueue(s, k)
  \/ \E s \in Slots, i \in 1 .. QueueCap : CancelQueued(s, i)

System ==
  \/ StartTick
  \/ \E arrived \in SUBSET Workers, clear \in SUBSET Sites : Construction(arrived, clear)
  \/ \E spot \in [Ready -> Free \cup {None}] : Production(spot)
  \/ \E amount \in Deposits : Gather(amount)
  \/ EnemyAI
  \/ \E dead \in SUBSET Alive : Combat(dead)
  \/ Recount

Next == Command \/ System

Spec == Init /\ [][Next]_vars

\* The run loop ticks for ever, and a tick runs all its systems; nothing obliges
\* the player.
FairSpec == Spec /\ WF_vars(System)
-----------------------------------------------------------------------------
\* `live_scratch' names exactly the living rows whenever a system reads it (the
\* store's accessors panic on a dead one), though construction, production and
\* combat all spawn or despawn inside the tick that collected it.
ScratchExact == phase # "commands" => live = Alive

\* Between ticks `used' is what the living units and the live queues cost,
\* whatever was cancelled, produced, destroyed or recycled.
SupplyExact == phase = "commands" => used = CommittedSupply

\* The cap is a real bound: nothing raises `used' past it, although cap and
\* usage change in different systems and a unit appears long after it was paid.
CapHolds == [][used' > used => used' <= cap']_vars

\* What the buildings of the start grant, and the cap beyond that.
StartGrant ==
  Total([s \in {t \in Slots : StartKind[t] \in BuildingKinds} |-> Grant[StartKind[s]]])
Base == StartCap - StartGrant

\* Where neither the clamp at MaxSupplyCap nor the saturation at zero can bite,
\* the cap is what the start gave and the finished buildings grant today: each
\* building grants when it finishes and revokes when it falls, once, and a site
\* that is cancelled or destroyed does neither.
CapBacked ==
  (\E most \in 0 .. MaxSupplyCap :
     /\ \A k \in BuildingKinds : Grant[k] <= most
     /\ 0 <= Base /\ Base + Cardinality(Slots) * most <= MaxSupplyCap)
  => cap = Base + GrantOf(Finished)

\* Commands only move the player's wealth between the stock, the sites and the
\* queues: no cancel refunds more or less than was paid, no recycled row brings
\* somebody else's queue back to life.  In a tick only gathering adds to it.
NothingConjured ==
  [][\A r \in Resources :
       /\ phase = "commands" => Wealth(r)' = Wealth(r)
       /\ phase # "gather" => Wealth(r)' <= Wealth(r)]_vars

\* Every Build order, at every point of the tick, is a living worker's and
\* names a live unfinished site: finishing, cancelling and destroying a site
\* all reach every builder in the same call.
BuildOrdersLive ==
  \A w \in Slots : orders[w] # None => w \in Workers /\ Names(orders[w], Sites)

\* Only a site one tick short of its target has failed to finish, and never
\* StallTicks times: the count is not inherited from a row's former site.
StallOnlyAtTheEnd ==
  \A s \in Sites : stall[s] > 0 => ent[s].progress = ent[s].target - 1

\* A ready unit either appears or stays queued: production neither loses what
\* was paid for nor produces it twice.
ProductionKeepsWhatWasPaid ==
  [][phase = "production" => CommittedSupply' = CommittedSupply]_vars

\* Whoever takes over a row starts with no Build order, no queue and no ticks.
NothingInherited ==
  [][\A s \in Slots : ent[s] = None /\ ent'[s] # None =>
       queue'[s] = <<>> /\ progress'[s] = 0 /\ (ent'[s].kind \in UnitKinds => orders'[s] = None)]_vars

\* No site is attended for ever: it runs out of ticks to serve and then of
\* completions to discard, however its builders come and go.
SitesSettle ==
  \A s \in Slots, g \in Gens :
    <>[]~(phase = "production" /\ s \in Sites \cap attend /\ gen[s] = g)

\* The enemy does not go on marching at a building it has destroyed.
ObjectiveFollowsDeaths ==
  phase = "combat" /\ objective # None =>
    Names(objective, Buildings) \/ orphaned
=============================================================================
