-------------------------------- MODULE Battle --------------------------------
(***************************************************************************)
(* Gathering, enemy waves and combat in the RTS world (crates/mmd-engine/  *)
(* src/rts/world.rs, entity.rs, combat.rs): the player's workers haul from *)
(* the nodes to the drop-offs while scheduled waves spawn into the same    *)
(* bounded store and the two sides shoot at each other.                    *)
(*                                                                         *)
(* A tick runs the systems in order; gather and combat take one entity a   *)
(* step, in any order, of which that of `live_scratch' is one (that it     *)
(* holds the live rows is ScratchExact of Economy).  Who is in reach or    *)
(* nearest and what the planners find free are choices.  The books of      *)
(* sites and queues are Economy's.                                         *)
(***************************************************************************)
EXTENDS Integers, FiniteSets, Sequences

CONSTANTS
  Rows,       \* the store's rows are 1 .. Rows (MAX_ENTITIES in the code)
  None,       \* a dead row
  StartKind,  \* what each row holds at the start
  Waves,      \* at_tick and count of every wave, in order of at_tick
  Seam,       \* what a node starts with
  Capacity,   \* WORKER_CARRY_CAPACITY (8 in the code)
  MineTicks,  \* GATHER_TICKS (60 in the code)
  Hits,       \* the shots each kind survives but for the last
  Cooldown,   \* cooldown_ticks
  LastTick,   \* bound: later ticks are alike, all waves being due
  MaxGen      \* bound: how often a row is reused

Player == {"worker", "soldier", "turret", "hq", "site"}   \* a site is an HQ's
Armed == {"soldier", "turret", "ghoul"}
DropOffs == {"hq", "site"}   \* is_drop_off asks for the kind, not for a finished building
Kinds == Player \cup {"ghoul", "node"}

Slots == 1 .. Rows
Ids == [row : Slots, gen : 0 .. MaxGen]

ASSUME BattleAssumption ==
  /\ {Rows, Seam, LastTick} \subseteq Nat /\ MaxGen \in Nat \ {0}
  /\ {Capacity, MineTicks, Cooldown} \subseteq Nat \ {0}
  /\ None \notin Kinds /\ StartKind \in [Slots -> Kinds \cup {None}]
  /\ Hits \in [Player \cup {"ghoul"} -> Nat \ {0}]
  /\ Waves \in Seq([at : 0 .. LastTick, count : Nat \ {0}])
  /\ \A i, j \in DOMAIN Waves : i < j => Waves[i].at <= Waves[j].at

VARIABLES
  phase, tick,
  kind, gen, hp, cooldown, amount, carry,   \* EntityStore's columns
  order,                                    \* OrderTable
  todo,            \* whom the running system has yet to come to
  cursor, pending, \* enemy_wave_cursor, enemy_wave_pending
  spawned, kills,  \* enemies_spawned, kills
  stock            \* resources, of the one kind

store == <<kind, gen, hp, cooldown, amount, carry>>
waves == <<cursor, pending, spawned>>
vars == <<phase, tick, store, order, todo, waves, kills, stock>>

Phases == {"commands", "waves", "construction", "production", "gather", "combat"}

Idle == [name |-> "idle"]    \* or AttackMove: fires at whoever is near
Walk == [name |-> "walk"]    \* Move, Follow and Build: does not fire
ToNode(n) == [name |-> "to node", node |-> n]
Mining(n, left) == [name |-> "mining", node |-> n, left |-> left]
Returning(n, d) == [name |-> "returning", node |-> n, home |-> d]
Attack(t) == [name |-> "attack", target |-> t]

Alive == {r \in Slots : kind[r] # None}
Of(K) == {r \in Alive : kind[r] \in K}
IdAt(r) == [row |-> r, gen |-> gen[r]]
Holds(id, K) == kind[id.row] \in K /\ gen[id.row] = id.gen
Enemies == Of({"ghoul"})
Free == {r \in Slots : kind[r] = None /\ gen[r] < MaxGen}
Gathering(o) == o.name \in {"to node", "mining", "returning"}

Init ==
  /\ phase = "commands" /\ tick = 0
  /\ kind = StartKind /\ gen = [r \in Slots |-> 0]
  /\ hp = [r \in Slots |-> IF kind[r] \in DOMAIN Hits THEN Hits[kind[r]] ELSE 0]
  /\ cooldown = [r \in Slots |-> 0] /\ carry = [r \in Slots |-> 0]
  /\ amount = [r \in Slots |-> IF kind[r] = "node" THEN Seam ELSE 0]
  /\ order = [r \in Slots |-> Idle]
  /\ todo = {}
  /\ cursor = 1 /\ pending = 0 /\ spawned = Cardinality(Enemies) /\ kills = 0
  /\ stock = 0
-----------------------------------------------------------------------------
(* The store                                                               *)

\* EntityStore::spawn, with every column of the row overwritten.
Spawn(r, k) ==
  /\ kind' = [kind EXCEPT ![r] = k] /\ hp' = [hp EXCEPT ![r] = Hits[k]]
  /\ cooldown' = [cooldown EXCEPT ![r] = 0]
  /\ amount' = [amount EXCEPT ![r] = 0] /\ carry' = [carry EXCEPT ![r] = 0]
  /\ UNCHANGED gen

Despawn(r) == kind' = [kind EXCEPT ![r] = None] /\ gen' = [gen EXCEPT ![r] = @ + 1]

\* Mutant of Bereft: the haulers go on.
BereftOnly(r) == [order EXCEPT ![r] = Idle]

\* The orders once the entity of row r is dead: whoever hauls to it stops.
Bereft(r) ==
  [s \in Slots |->
    IF s = r \/ (order[s].name = "returning" /\ order[s].home = IdAt(r)) THEN Idle ELSE order[s]]

Goto(p, S) == phase' = p /\ todo' = S
Done(r) == todo' = todo \ {r} /\ UNCHANGED phase
-----------------------------------------------------------------------------
(* Commands, between ticks                                                 *)

Obey(r, o) ==
  /\ phase = "commands"
  /\ order' = [order EXCEPT ![r] = o]
  /\ UNCHANGED <<phase, tick, store, todo, waves, kills, stock>>

\* order_group on a node: an empty one takes no worker.
OrderGather(r, n) == kind[r] = "worker" /\ amount[n] > 0 /\ Obey(r, ToNode(IdAt(n)))

OrderAttack(r, t) == kind[r] = "soldier" /\ kind[t] = "ghoul" /\ Obey(r, Attack(IdAt(t)))

OrderWalk(r) == kind[r] \in {"worker", "soldier"} /\ Obey(r, Walk)

CmdStop(r) == kind[r] \in {"worker", "soldier"} /\ Obey(r, Idle)

ConfirmPlacement(r) ==
  /\ phase = "commands" /\ r \in Free
  /\ Spawn(r, "site")
  /\ UNCHANGED <<phase, tick, order, todo, waves, kills, stock>>

\* cancel_construction tells the builders, and not the haulers.
CancelConstruction(r) ==
  /\ phase = "commands" /\ kind[r] = "site"
  /\ Despawn(r)
  /\ UNCHANGED <<phase, tick, hp, cooldown, amount, carry, order, todo, waves, kills, stock>>

BeginTick ==
  /\ phase = "commands" /\ Goto("waves", {})
  /\ tick' = IF tick < LastTick THEN tick + 1 ELSE tick
  /\ UNCHANGED <<store, order, waves, kills, stock>>
-----------------------------------------------------------------------------
(* enemy_wave_system                                                       *)

Due == cursor <= Len(Waves) /\ Waves[cursor].at <= tick

\* What the current wave still owes: all of it, unless it has begun.
Owed == IF pending = 0 THEN Waves[cursor].count ELSE pending

SpawnGhoul(r) ==
  /\ phase = "waves" /\ Due /\ r \in Free
  /\ Spawn(r, "ghoul")
  /\ spawned' = spawned + 1
  /\ pending' = Owed - 1
  /\ cursor' = IF Owed = 1 THEN cursor + 1 ELSE cursor
  /\ UNCHANGED <<phase, tick, order, todo, kills, stock>>

\* Mutant of Deferred: a wave that is deferred starts anew.
DeferredAnew == IF Due THEN Waves[cursor].count ELSE pending

Deferred == IF Due THEN Owed ELSE pending

\* No free centre on the map, no free row, or nothing due: the rest waits.
DeferWaves ==
  /\ phase = "waves" /\ Goto("construction", {})
  /\ pending' = Deferred
  /\ UNCHANGED <<tick, store, order, cursor, spawned, kills, stock>>

\* Sites finish, or are cancelled for having stalled.
Construction ==
  /\ phase = "construction"
  /\ \E done \in SUBSET Of({"site"}) : \E stalled \in SUBSET (Of({"site"}) \ done) :
       /\ kind' = [r \in Slots |-> IF r \in done THEN "hq" ELSE IF r \in stalled THEN None ELSE kind[r]]
       /\ gen' = [r \in Slots |-> IF r \in stalled THEN gen[r] + 1 ELSE gen[r]]
       /\ Goto("production", Of({"hq"}) \cup done)
  /\ UNCHANGED <<tick, hp, cooldown, amount, carry, order, waves, kills, stock>>

\* A finished building delivers a unit, which may be rallied, to a node too.
Deliver(b, r, k) ==
  /\ phase = "production" /\ b \in todo /\ r \in Free
  /\ Spawn(r, k) /\ Done(b)
  /\ \/ UNCHANGED order
     \/ order' = [order EXCEPT ![r] = Walk]
     \/ /\ k = "worker"
        /\ \E n \in Of({"node"}) : amount[n] > 0 /\ order' = [order EXCEPT ![r] = ToNode(IdAt(n))]
  /\ UNCHANGED <<tick, waves, kills, stock>>

\* The other queues are not ready, or their head finds no place.
EndProduction ==
  /\ phase = "production" /\ Goto("gather", Alive)
  /\ UNCHANGED <<tick, store, order, waves, kills, stock>>
-----------------------------------------------------------------------------
(* gather                                                                  *)

Gatherer(r) == phase = "gather" /\ r \in todo /\ Gathering(order[r])

Step(r, o) ==
  /\ order' = [order EXCEPT ![r] = o] /\ Done(r)
  /\ UNCHANGED <<tick, kind, gen, hp, cooldown, waves, kills>>

\* The worker is not there yet.
KeepGoing(r) ==
  /\ Gatherer(r)
  /\ \/ order[r].name = "to node" /\ amount[order[r].node.row] > 0
     \/ order[r].name = "returning" /\ Holds(order[r].home, DropOffs)
  /\ Step(r, order[r]) /\ UNCHANGED <<amount, carry, stock>>

Arrive(r) ==
  /\ Gatherer(r)
  /\ order[r].name = "to node" /\ amount[order[r].node.row] > 0
  /\ Step(r, Mining(order[r].node, MineTicks)) /\ UNCHANGED <<amount, carry, stock>>

GiveUp(r) ==
  /\ Gatherer(r)
  /\ \/ order[r].name = "to node" /\ amount[order[r].node.row] = 0
     \/ order[r].name = "mining" /\ order[r].left = 1 /\ amount[order[r].node.row] = 0
     \/ order[r].name = "returning" /\ ~Holds(order[r].home, DropOffs)
  /\ Step(r, Idle) /\ UNCHANGED <<amount, carry, stock>>

Mine(r) ==
  /\ Gatherer(r)
  /\ order[r].name = "mining" /\ order[r].left > 1
  /\ Step(r, Mining(order[r].node, order[r].left - 1)) /\ UNCHANGED <<amount, carry, stock>>

\* Mutant of Take: a full load, whatever is left.
TakeFull(n) == Capacity

Take(n) == IF amount[n] < Capacity THEN amount[n] ELSE Capacity

\* The load replaces what the worker may still have been carrying.  Without a
\* drop-off, or a field to it, the worker stops and keeps it.
Load(r) ==
  LET n == order[r].node.row IN
  /\ Gatherer(r) /\ order[r].name = "mining" /\ order[r].left = 1 /\ amount[n] > 0
  /\ \/ \E d \in Of(DropOffs) : Step(r, Returning(order[r].node, IdAt(d)))
     \/ Step(r, Idle)
  /\ amount' = [amount EXCEPT ![n] = @ - Take(n)]
  /\ carry' = [carry EXCEPT ![r] = Take(n)]
  /\ UNCHANGED stock

\* Mutant of Emptied: the worker keeps what it has banked.
NotEmptied(r) == carry

Emptied(r) == [carry EXCEPT ![r] = 0]

Bank(r) ==
  /\ Gatherer(r)
  /\ order[r].name = "returning" /\ Holds(order[r].home, DropOffs)
  /\ stock' = stock + carry[r] /\ carry' = Emptied(r)
  /\ \/ amount[order[r].node.row] > 0 /\ Step(r, ToNode(order[r].node))
     \/ Step(r, Idle)
  /\ UNCHANGED amount

EndGather ==
  /\ phase = "gather" /\ Goto("combat", Alive)
  /\ \A r \in todo : ~Gathering(order[r])
  /\ UNCHANGED <<tick, store, order, waves, kills, stock>>
-----------------------------------------------------------------------------
(* combat, and movement behind it                                          *)

Hostile(r, t) == IF kind[r] = "ghoul" THEN kind[t] \in Player ELSE kind[t] = "ghoul"

Stale(o) == o.name = "attack" /\ ~Holds(o.target, {"ghoul"})
Settled(o) == IF Stale(o) THEN Idle ELSE o

\* Whom r may shoot: the one it was told to, or anyone near.
Targets(r) ==
  LET o == Settled(order[r]) IN
  CASE o.name = "attack" -> {o.target.row}
    [] o = Idle -> {t \in Alive : Hostile(r, t)}
    [] OTHER -> {}

\* Those shot earlier in the pass, and the unarmed, are passed over.
Shooter(r) == phase = "combat" /\ r \in todo /\ kind[r] \in Armed
Cooled(r) == IF cooldown[r] = 0 THEN 0 ELSE cooldown[r] - 1

\* Nobody in range, or the weapon is not ready.
HoldFire(r) ==
  /\ Shooter(r) /\ Done(r)
  /\ order' = [order EXCEPT ![r] = Settled(@)] /\ cooldown' = [cooldown EXCEPT ![r] = Cooled(r)]
  /\ UNCHANGED <<tick, kind, gen, hp, amount, carry, waves, kills, stock>>

\* apply_damage, shot by r, which goes on with the order o.
ApplyDamage(r, t, o) ==
  IF hp[t] > 1
  THEN /\ hp' = [hp EXCEPT ![t] = @ - 1] /\ order' = [order EXCEPT ![r] = o]
       /\ UNCHANGED <<kind, gen, kills>>
  ELSE /\ Despawn(t) /\ UNCHANGED hp
       /\ order' = [Bereft(t) EXCEPT ![r] = o]
       /\ kills' = IF kind[t] = "ghoul" THEN kills + 1 ELSE kills

Fire(r, t) ==
  /\ Shooter(r) /\ Cooled(r) = 0 /\ t \in Targets(r) /\ Done(r)
  /\ ApplyDamage(r, t, Settled(order[r]))
  /\ cooldown' = [cooldown EXCEPT ![r] = Cooldown]
  /\ UNCHANGED <<tick, amount, carry, waves, stock>>

\* A walk may end, for its end is reached or no longer can be.
Movement ==
  /\ phase = "combat" /\ Goto("commands", {})
  /\ \A r \in todo : kind[r] \notin Armed
  /\ LET walking == {r \in Alive : order[r].name \in {"walk", "to node", "returning", "attack"}} IN
     \E S \in SUBSET walking : order' = [r \in Slots |-> IF r \in S THEN Idle ELSE order[r]]
  /\ UNCHANGED <<tick, store, waves, kills, stock>>

Next ==
  \/ \E r \in Slots :
       \/ OrderWalk(r) \/ CmdStop(r) \/ ConfirmPlacement(r) \/ CancelConstruction(r)
       \/ SpawnGhoul(r)
       \/ KeepGoing(r) \/ Arrive(r) \/ GiveUp(r) \/ Mine(r) \/ Load(r) \/ Bank(r)
       \/ HoldFire(r)
       \/ \E t \in Slots : OrderGather(r, t) \/ OrderAttack(r, t) \/ Fire(r, t)
       \/ \E b \in Slots, k \in {"worker", "soldier"} : Deliver(b, r, k)
  \/ BeginTick \/ DeferWaves \/ Construction \/ EndProduction \/ EndGather \/ Movement

Spec == Init /\ [][Next]_vars
-----------------------------------------------------------------------------
(* Properties                                                              *)

Orders ==
  {Idle, Walk} \cup {ToNode(n) : n \in Ids} \cup {Attack(t) : t \in Ids}
    \cup {Mining(n, left) : n \in Ids, left \in 1 .. MineTicks}
    \cup {Returning(n, d) : n \in Ids, d \in Ids}

\* The types of the variables; no node is ever mined below zero, whoever else
\* was mining it (gather, Mining).
TypeOK ==
  /\ phase \in Phases /\ tick \in 0 .. LastTick
  /\ kind \in [Slots -> Kinds \cup {None}] /\ gen \in [Slots -> 0 .. MaxGen]
  /\ hp \in [Slots -> Nat] /\ cooldown \in [Slots -> 0 .. Cooldown]
  /\ amount \in [Slots -> 0 .. Seam] /\ carry \in [Slots -> 0 .. Capacity]
  /\ order \in [Slots -> Orders]
  /\ todo \subseteq Slots
  /\ cursor \in 1 .. Len(Waves) + 1 /\ {pending, spawned, kills, stock} \subseteq Nat

\* The members of the waves that have come: all those of the waves before the
\* cursor, and of its own wave all but what it still owes.
Sent ==
  (UNION {{i} \X (1 .. Waves[i].count) : i \in 1 .. cursor - 1})
    \cup (IF pending = 0 THEN {} ELSE {cursor} \X (1 .. Waves[cursor].count - pending))

\* As many Ghouls have come as the schedule has let go, none before its tick.
ScheduleKept ==
  /\ spawned = Cardinality({r \in Slots : StartKind[r] = "ghoul"}) + Cardinality(Sent)
  /\ \A i \in 1 .. Len(Waves) :
       i < cursor \/ (i = cursor /\ pending > 0) => Waves[i].at <= tick

GhoulsCounted == spawned = Cardinality(Enemies) + kills

\* Every Ghoul is accounted for (enemy_wave_system): a wave met by a full
\* store neither loses nor doubles its members, none comes before its tick,
\* and each is alive or was counted as a kill.
EnemyBooks == ScheduleKept /\ GhoulsCounted

\* No order outlives what it serves (apply_death): a row freed in the store has
\* none left for its next tenant, and when combat is over no worker hauls to a
\* building that is gone.
NoOrderOutlivesItsSubject ==
  /\ \A r \in Slots : kind[r] = None => order[r] = Idle
  /\ phase = "combat" =>
       \A r \in Alive : order[r].name = "returning" => Holds(order[r].home, DropOffs)

\* What f counts on the rows of S, as the set of the units counted.
Sum(f, S) == Cardinality(UNION {{r} \X (1 .. f[r]) : r \in S})

Total == stock + Sum(amount, Alive) + Sum(carry, Alive)

\* Those who die in a step, and whoever takes up a load in it.
Dying == {r \in Alive : kind'[r] = None}
Loading == IF amount' # amount THEN todo \ todo' ELSE {}

\* Nothing is mined or banked twice, and cargo is lost in two ways only: its
\* carrier dies, or loads anew before it has delivered (gather, set_carry).
CargoAccounted == [][Total' = Total - Sum(carry, Dying \cup Loading)]_vars
=============================================================================
