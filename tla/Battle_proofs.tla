----------------------------- MODULE Battle_proofs -----------------------------
(***************************************************************************)
(* Whatever the map, the waves and the size of the store: no order         *)
(* outlives what it serves, and every Ghoul that came is alive or counted. *)
(***************************************************************************)
EXTENDS Battle, FiniteSetTheorems, SequenceTheorems, TLAPS

\* TypeOK in three parts, most actions touching but one of them.
StoreTypes ==
  /\ kind \in [Slots -> Kinds \cup {None}] /\ gen \in [Slots -> 0 .. MaxGen]
  /\ hp \in [Slots -> Nat] /\ cooldown \in [Slots -> 0 .. Cooldown]
  /\ amount \in [Slots -> 0 .. Seam] /\ carry \in [Slots -> 0 .. Capacity]

WaveTypes == cursor \in 1 .. Len(Waves) + 1 /\ pending \in Nat /\ spawned \in Nat

OtherTypes ==
  /\ phase \in Phases /\ tick \in 0 .. LastTick /\ todo \subseteq Slots
  /\ kills \in Nat /\ stock \in Nat

\* Only a row that will never be used again has reached the bound.
RowsInBound == \A r \in Slots : kind[r] # None => gen[r] < MaxGen

\* Only workers and soldiers have orders, and only soldiers attack.
Bearers ==
  \A r \in Slots :
    /\ order[r] # Idle => kind[r] \in {"worker", "soldier"}
    /\ order[r].name = "attack" => kind[r] = "soldier"

HomeStands(r) == order[r].name = "returning" => Holds(order[r].home, DropOffs)

\* Gather comes to every hauler, and of those it has come to none has lost its
\* drop-off.
HaulsInvariant ==
  /\ phase = "gather" => \A r \in Alive \ todo : HomeStands(r)
  /\ phase = "combat" => \A r \in Alive : HomeStands(r)

\* The store and the orders, which hold whatever the phase.
Rooted ==
  /\ StoreTypes /\ RowsInBound
  /\ order \in [Slots -> Orders] /\ Bearers

OrdersInv == WaveTypes /\ OtherTypes /\ Rooted /\ HaulsInvariant

LEMMA TypeParts == TypeOK <=> StoreTypes /\ WaveTypes /\ OtherTypes /\ order \in [Slots -> Orders]
BY DEF TypeOK, StoreTypes, WaveTypes, OtherTypes

\* The bounds are numbers, and a generation below its bound has a next one.
LEMMA Bounds ==
  /\ MaxGen \in Nat /\ Cooldown \in Nat /\ Cooldown \in 0 .. Cooldown
  /\ \A g \in 0 .. MaxGen : g < MaxGen => g + 1 \in 0 .. MaxGen
<1>1. MaxGen \in Nat /\ Cooldown \in Nat
  BY BattleAssumption
<1> QED BY <1>1

LEMMA OrderShapes ==
  /\ Idle \in Orders /\ Walk \in Orders
  /\ \A n \in Ids : ToNode(n) \in Orders /\ Attack(n) \in Orders
  /\ \A n \in Ids, left \in 1 .. MineTicks : Mining(n, left) \in Orders
  /\ \A n, d \in Ids : Returning(n, d) \in Orders
BY DEF Orders

\* What the parts of an order are, by the shape it has.
LEMMA OrderParts ==
  ASSUME NEW o \in Orders
  PROVE  /\ o.name \in {"to node", "mining", "returning"} => o.node \in Ids
         /\ o.name = "mining" => o.left \in 1 .. MineTicks
         /\ o.name = "returning" => o.home \in Ids
         /\ o.name = "attack" => o.target \in Ids
<1>1. \/ o = Idle \/ o = Walk
      \/ \E n \in Ids : o = ToNode(n)
      \/ \E n \in Ids : o = Attack(n)
      \/ \E n \in Ids, left \in 1 .. MineTicks : o = Mining(n, left)
      \/ \E n \in Ids, d \in Ids : o = Returning(n, d)
  BY DEF Orders
<1>2. Idle.name = "idle" /\ Walk.name = "walk"
  BY DEF Idle, Walk
<1>3. ASSUME NEW n \in Ids, o = ToNode(n)
      PROVE  o.name = "to node" /\ o.node \in Ids
  BY <1>3 DEF ToNode
<1>4. ASSUME NEW n \in Ids, o = Attack(n)
      PROVE  o.name = "attack" /\ o.target \in Ids
  BY <1>4 DEF Attack
<1>5. ASSUME NEW n \in Ids, NEW left \in 1 .. MineTicks, o = Mining(n, left)
      PROVE  o.name = "mining" /\ o.node \in Ids /\ o.left \in 1 .. MineTicks
  BY <1>5 DEF Mining
<1>6. ASSUME NEW n \in Ids, NEW d \in Ids, o = Returning(n, d)
      PROVE  o.name = "returning" /\ o.node \in Ids /\ o.home \in Ids
  BY <1>6 DEF Returning
<1> QED BY <1>1, <1>2, <1>3, <1>4, <1>5, <1>6

LEMMA NamesOfOrders ==
  /\ Idle.name = "idle" /\ Walk.name = "walk"
  /\ \A n : ToNode(n).name = "to node" /\ Attack(n).name = "attack"
  /\ \A n, x : /\ Mining(n, x).name = "mining"
               /\ Returning(n, x).name = "returning" /\ Returning(n, x).home = x
BY DEF Idle, Walk, ToNode, Attack, Mining, Returning

LEMMA IdOfRow ==
  ASSUME StoreTypes, NEW r \in Slots
  PROVE  /\ IdAt(r) \in Ids
         /\ IdAt(r).row = r /\ IdAt(r).gen = gen[r]
         /\ \A id \in Ids : id.row = r /\ id.gen = gen[r] => id = IdAt(r)
BY DEF StoreTypes, IdAt, Ids

LEMMA SlotsAreFinite == IsFiniteSet(Slots)
BY FS_Interval, BattleAssumption DEF Slots

LEMMA EnemiesAreFinite == IsFiniteSet(Enemies) /\ Cardinality(Enemies) \in Nat
<1>1. Enemies \subseteq Slots
  BY DEF Enemies, Of, Alive
<1> QED BY <1>1, SlotsAreFinite, FS_Subset, FS_CardinalityType

LEMMA RootedInit == Init => OrdersInv
<1> SUFFICES ASSUME Init PROVE OrdersInv
  OBVIOUS
<1>1. StoreTypes
  BY BattleAssumption DEF Init, StoreTypes
<1>2. WaveTypes
  <2>1. Len(Waves) \in Nat
    BY BattleAssumption
  <2> QED BY <2>1, EnemiesAreFinite DEF Init, WaveTypes
<1>3. order \in [Slots -> Orders] /\ Bearers
  BY OrderShapes, NamesOfOrders DEF Init, Bearers
<1>4. RowsInBound
  BY BattleAssumption DEF RowsInBound, Init
<1>5. OtherTypes
  BY BattleAssumption DEF OtherTypes, Init, Phases
<1> QED BY <1>1, <1>2, <1>3, <1>4, <1>5 DEF OrdersInv, Rooted, HaulsInvariant, Init
-----------------------------------------------------------------------------
(* Commands and the systems before gather                                  *)

LEMMA SpawnKeeps ==
  ASSUME Rooted, NEW r \in Free, NEW k \in Player \cup {"ghoul"}, Spawn(r, k)
  PROVE  /\ StoreTypes' /\ RowsInBound'
         /\ kind'[r] = k /\ kind[r] = None /\ order[r] = Idle
         /\ \A s \in Slots : s # r => kind'[s] = kind[s]
<1>1. r \in Slots /\ kind[r] = None /\ gen[r] < MaxGen
  BY DEF Free
<1>2. Hits[k] \in Nat
  BY BattleAssumption
<1>3. StoreTypes'
  BY <1>1, <1>2, BattleAssumption DEF Rooted, StoreTypes, Spawn, Kinds
<1>4. kind'[r] = k /\ \A s \in Slots : s # r => kind'[s] = kind[s]
  BY <1>1 DEF Rooted, StoreTypes, Spawn
<1>5. RowsInBound'
  BY <1>1, <1>4 DEF Rooted, RowsInBound, Spawn
<1>6. order[r] = Idle
  BY <1>1, BattleAssumption DEF Rooted, Bearers, Kinds, Player
<1> QED BY <1>1, <1>3, <1>4, <1>5, <1>6

LEMMA ObeyKeeps ==
  ASSUME OrdersInv, NEW r \in Slots, NEW o \in Orders, Obey(r, o),
         kind[r] \in {"worker", "soldier"}, o.name = "attack" => kind[r] = "soldier"
  PROVE  OrdersInv'
<1>1. StoreTypes' /\ RowsInBound' /\ WaveTypes' /\ OtherTypes'
  BY DEF OrdersInv, Rooted, Obey, store, waves, StoreTypes, RowsInBound, WaveTypes, OtherTypes
<1>2. order' \in [Slots -> Orders] /\ Bearers'
  BY DEF OrdersInv, Rooted, Obey, store, Bearers
<1>3. HaulsInvariant'
  BY DEF HaulsInvariant, Obey
<1> QED BY <1>1, <1>2, <1>3 DEF OrdersInv, Rooted

LEMMA CommandsKeep ==
  ASSUME OrdersInv, NEW r \in Slots, NEW t \in Slots,
         \/ OrderWalk(r) \/ CmdStop(r) \/ OrderGather(r, t) \/ OrderAttack(r, t)
  PROVE  OrdersInv'
<1>1. IdAt(t) \in Ids
  BY IdOfRow DEF OrdersInv, Rooted
<1>2. CASE OrderWalk(r)
  BY <1>2, ObeyKeeps, OrderShapes, NamesOfOrders DEF OrderWalk
<1>3. CASE CmdStop(r)
  BY <1>3, ObeyKeeps, OrderShapes, NamesOfOrders DEF CmdStop
<1>4. CASE OrderGather(r, t)
  BY <1>1, <1>4, ObeyKeeps, OrderShapes, NamesOfOrders DEF OrderGather
<1>5. CASE OrderAttack(r, t)
  BY <1>1, <1>5, ObeyKeeps, OrderShapes, NamesOfOrders DEF OrderAttack
<1> QED BY <1>2, <1>3, <1>4, <1>5

LEMMA ConfirmKeeps ==
  ASSUME OrdersInv, NEW r \in Slots, ConfirmPlacement(r)
  PROVE  OrdersInv'
<1>1. Rooted /\ r \in Free /\ "site" \in Player \cup {"ghoul"} /\ Spawn(r, "site")
  BY DEF OrdersInv, ConfirmPlacement, Player
<1>2. /\ StoreTypes' /\ RowsInBound' /\ order[r] = Idle
      /\ \A s \in Slots : s # r => kind'[s] = kind[s]
  BY <1>1, SpawnKeeps
<1>3. WaveTypes' /\ OtherTypes'
  BY DEF OrdersInv, ConfirmPlacement, waves, WaveTypes, OtherTypes
<1>4. order' \in [Slots -> Orders] /\ Bearers'
  BY <1>1, <1>2, NamesOfOrders DEF Rooted, ConfirmPlacement, Bearers
<1>5. HaulsInvariant'
  BY DEF HaulsInvariant, ConfirmPlacement
<1> QED BY <1>2, <1>3, <1>4, <1>5 DEF OrdersInv, Rooted

LEMMA CancelKeeps ==
  ASSUME OrdersInv, NEW r \in Slots, CancelConstruction(r)
  PROVE  OrdersInv'
<1>1. gen[r] < MaxGen
  BY BattleAssumption DEF OrdersInv, Rooted, RowsInBound, CancelConstruction, Kinds, Player
<1>2. StoreTypes'
  <2>1. gen[r] + 1 \in 0 .. MaxGen
    BY <1>1, Bounds DEF OrdersInv, Rooted, StoreTypes
  <2>2. StoreTypes
    BY DEF OrdersInv, Rooted
  <2> QED BY <2>1, <2>2 DEF StoreTypes, CancelConstruction, Despawn
<1>3. RowsInBound'
  BY DEF OrdersInv, Rooted, StoreTypes, RowsInBound, CancelConstruction, Despawn
<1>4. order' \in [Slots -> Orders] /\ Bearers'
  BY NamesOfOrders DEF OrdersInv, Rooted, StoreTypes, Bearers, CancelConstruction, Despawn
<1>5. WaveTypes' /\ OtherTypes'
  BY DEF OrdersInv, CancelConstruction, waves, WaveTypes, OtherTypes
<1>6. HaulsInvariant'
  BY DEF HaulsInvariant, CancelConstruction
<1> QED BY <1>2, <1>3, <1>4, <1>5, <1>6 DEF OrdersInv, Rooted

LEMMA BeginTickKeeps == ASSUME OrdersInv, BeginTick PROVE OrdersInv'
<1>1. Rooted' /\ WaveTypes'
  BY DEF OrdersInv, Rooted, BeginTick, store, waves, StoreTypes, RowsInBound, Bearers, WaveTypes
<1>2. OtherTypes'
  BY BattleAssumption DEF OrdersInv, BeginTick, Goto, OtherTypes, Phases
<1>3. HaulsInvariant'
  BY DEF HaulsInvariant, BeginTick, Goto
<1> QED BY <1>1, <1>2, <1>3 DEF OrdersInv

\* A wave that is due owes at least one Ghoul.
LEMMA OwedIsPositive ==
  ASSUME WaveTypes, Due
  PROVE  Owed \in Nat \ {0} /\ cursor + 1 \in 1 .. Len(Waves) + 1
<1>1. Len(Waves) \in Nat
  BY BattleAssumption
<1>2. cursor \in 1 .. Len(Waves)
  BY <1>1 DEF WaveTypes, Due
<1>3. Waves[cursor].count \in Nat \ {0}
  <2> DEFINE Wave == [at : 0 .. LastTick, count : Nat \ {0}]
  <2>1. Waves \in Seq(Wave)
    BY BattleAssumption
  <2>2. Waves[cursor] \in Wave
    <3> HIDE DEF Wave
    <3> QED BY <1>2, <2>1, ElementOfSeq
  <2> QED BY <2>2
<1> QED BY <1>1, <1>2, <1>3 DEF WaveTypes, Owed

LEMMA SpawnGhoulKeeps ==
  ASSUME OrdersInv, NEW r \in Slots, SpawnGhoul(r)
  PROVE  OrdersInv'
<1>1. Rooted /\ r \in Free /\ Spawn(r, "ghoul")
  BY DEF OrdersInv, SpawnGhoul
<1>2. /\ StoreTypes' /\ RowsInBound' /\ order[r] = Idle
      /\ \A s \in Slots : s # r => kind'[s] = kind[s]
  BY <1>1, SpawnKeeps
<1>3. WaveTypes'
  BY OwedIsPositive DEF OrdersInv, SpawnGhoul, WaveTypes
<1>4. OtherTypes'
  BY DEF OrdersInv, SpawnGhoul, OtherTypes
<1>5. order' \in [Slots -> Orders] /\ Bearers'
  BY <1>1, <1>2, NamesOfOrders DEF Rooted, SpawnGhoul, Bearers
<1>6. HaulsInvariant'
  BY DEF HaulsInvariant, SpawnGhoul
<1> QED BY <1>2, <1>3, <1>4, <1>5, <1>6 DEF OrdersInv, Rooted

LEMMA DeferKeeps == ASSUME OrdersInv, DeferWaves PROVE OrdersInv'
<1>1. Rooted'
  BY DEF OrdersInv, Rooted, DeferWaves, store, StoreTypes, RowsInBound, Bearers
<1>2. WaveTypes'
  BY OwedIsPositive DEF OrdersInv, DeferWaves, Deferred, WaveTypes
<1>3. OtherTypes'
  BY DEF OrdersInv, DeferWaves, Goto, OtherTypes, Phases
<1>4. HaulsInvariant'
  BY DEF HaulsInvariant, DeferWaves, Goto
<1> QED BY <1>1, <1>2, <1>3, <1>4 DEF OrdersInv

LEMMA ConstructionKeeps == ASSUME OrdersInv, Construction PROVE OrdersInv'
<1>1. PICK done \in SUBSET Of({"site"}), stalled \in SUBSET Of({"site"}) :
        /\ done \cap stalled = {}
        /\ kind' = [r \in Slots |-> IF r \in done THEN "hq" ELSE IF r \in stalled THEN None ELSE kind[r]]
        /\ gen' = [r \in Slots |-> IF r \in stalled THEN gen[r] + 1 ELSE gen[r]]
        /\ Goto("production", Of({"hq"}) \cup done)
  BY DEF Construction
<1>2. \A r \in done \cup stalled : r \in Slots /\ kind[r] = "site" /\ kind[r] # None
  BY DEF Of, Alive
<1>3. StoreTypes'
  <2>1. \A r \in stalled : gen[r] + 1 \in 0 .. MaxGen
    BY <1>2, BattleAssumption DEF OrdersInv, Rooted, StoreTypes, RowsInBound
  <2>2. gen' \in [Slots -> 0 .. MaxGen]
    BY <1>1, <2>1 DEF OrdersInv, Rooted, StoreTypes
  <2>3. kind' \in [Slots -> Kinds \cup {None}]
    BY <1>1 DEF OrdersInv, Rooted, StoreTypes, Kinds, Player
  <2> QED BY <2>2, <2>3 DEF OrdersInv, Rooted, StoreTypes, Construction
<1>4. RowsInBound'
  BY <1>1, <1>2 DEF OrdersInv, Rooted, RowsInBound
<1>5. order' \in [Slots -> Orders] /\ Bearers'
  BY <1>1, <1>2, NamesOfOrders DEF OrdersInv, Rooted, Bearers, Construction
<1>6. WaveTypes' /\ OtherTypes'
  BY <1>1, <1>2 DEF OrdersInv, Construction, Goto, waves, WaveTypes, OtherTypes, Phases, Of, Alive
<1>7. HaulsInvariant'
  BY <1>1 DEF HaulsInvariant, Goto
<1> QED BY <1>3, <1>4, <1>5, <1>6, <1>7 DEF OrdersInv, Rooted

LEMMA DeliverKeeps ==
  ASSUME OrdersInv, NEW b \in Slots, NEW r \in Slots, NEW k \in {"worker", "soldier"},
         Deliver(b, r, k)
  PROVE  OrdersInv'
<1>1. Rooted /\ r \in Free /\ k \in Player \cup {"ghoul"} /\ Spawn(r, k)
  BY DEF OrdersInv, Deliver, Player
<1>2. /\ StoreTypes' /\ RowsInBound' /\ kind'[r] = k /\ order[r] = Idle
      /\ \A s \in Slots : s # r => kind'[s] = kind[s]
  BY <1>1, SpawnKeeps
<1>3. PICK o \in {Idle, Walk} \cup {ToNode(IdAt(n)) : n \in Of({"node"})} :
        order' = [order EXCEPT ![r] = o]
  <2>1. order = [order EXCEPT ![r] = Idle]
    BY <1>2 DEF OrdersInv, Rooted
  <2> QED BY <2>1 DEF Deliver
<1>4. o \in Orders /\ o.name # "attack"
  <2>1. \A n \in Of({"node"}) : IdAt(n) \in Ids
    BY IdOfRow DEF OrdersInv, Rooted, Of, Alive
  <2> QED BY <2>1, OrderShapes, NamesOfOrders
<1>5. order' \in [Slots -> Orders] /\ Bearers'
  BY <1>2, <1>3, <1>4 DEF OrdersInv, Rooted, Bearers
<1>6. WaveTypes' /\ OtherTypes'
  BY DEF OrdersInv, Deliver, Done, waves, WaveTypes, OtherTypes
<1>7. HaulsInvariant'
  BY DEF HaulsInvariant, Deliver, Done
<1> QED BY <1>2, <1>5, <1>6, <1>7 DEF OrdersInv, Rooted

LEMMA EndProductionKeeps == ASSUME OrdersInv, EndProduction PROVE OrdersInv'
<1>1. Rooted' /\ WaveTypes'
  BY DEF OrdersInv, Rooted, EndProduction, store, waves, StoreTypes, RowsInBound, Bearers, WaveTypes
<1>2. OtherTypes'
  BY DEF OrdersInv, EndProduction, Goto, OtherTypes, Phases, Alive
<1>3. HaulsInvariant'
  BY DEF HaulsInvariant, EndProduction, Goto, store, Alive
<1> QED BY <1>1, <1>2, <1>3 DEF OrdersInv
-----------------------------------------------------------------------------
(* Gather                                                                  *)

\* One gatherer's step, whichever it is.
LEMMA GatherKeeps ==
  ASSUME OrdersInv, NEW r \in Slots, NEW o \in Orders, Gatherer(r), Step(r, o),
         o.name # "attack", o.name = "returning" => Holds(o.home, DropOffs),
         amount' \in [Slots -> 0 .. Seam], carry' \in [Slots -> 0 .. Capacity], stock' \in Nat
  PROVE  OrdersInv'
<1>1. kind' = kind /\ gen' = gen /\ order' = [order EXCEPT ![r] = o] /\ todo' = todo \ {r} /\ phase' = phase
  BY DEF Step, Done
<1>2. order[r] # Idle
  BY NamesOfOrders DEF Gatherer, Gathering
<1>3. StoreTypes' /\ RowsInBound'
  BY DEF OrdersInv, Rooted, Step, StoreTypes, RowsInBound
<1>4. order' \in [Slots -> Orders] /\ Bearers'
  BY <1>1, <1>2 DEF OrdersInv, Rooted, Bearers
<1>5. WaveTypes' /\ OtherTypes'
  BY DEF OrdersInv, Step, Done, waves, WaveTypes, OtherTypes
<1>6. HaulsInvariant'
  <2>1. \A s \in Slots : order'[s] = IF s = r THEN o ELSE order[s]
    BY <1>1 DEF OrdersInv, Rooted
  <2>2. \A s \in Alive \ todo' : (HomeStands(s))'
    BY <1>1, <2>1 DEF OrdersInv, HaulsInvariant, HomeStands, Holds, Alive, Gatherer
  <2>3. phase' = "gather" /\ Alive' = Alive
    BY <1>1 DEF Gatherer, Alive
  <2> QED BY <2>2, <2>3 DEF HaulsInvariant
<1> QED BY <1>3, <1>4, <1>5, <1>6 DEF OrdersInv, Rooted

\* What a gatherer's order gives away.
LEMMA GathererParts ==
  ASSUME OrdersInv, NEW r \in Slots, Gatherer(r)
  PROVE  /\ order[r] \in Orders /\ order[r].name \in {"to node", "mining", "returning"}
         /\ order[r].node \in Ids /\ order[r].node.row \in Slots
         /\ order[r].name = "mining" => order[r].left \in 1 .. MineTicks
<1>1. order[r] \in Orders /\ order[r].name \in {"to node", "mining", "returning"}
  BY DEF OrdersInv, Rooted, Gatherer, Gathering
<1>2. order[r].node \in Ids /\ (order[r].name = "mining" => order[r].left \in 1 .. MineTicks)
  BY <1>1, OrderParts
<1> QED BY <1>1, <1>2 DEF Ids

LEMMA TakeType ==
  ASSUME StoreTypes, NEW n \in Slots
  PROVE  Take(n) \in 0 .. Capacity /\ amount[n] - Take(n) \in 0 .. Seam
<1>1. Capacity \in Nat /\ Seam \in Nat /\ amount[n] \in 0 .. Seam
  BY BattleAssumption DEF StoreTypes
<1> QED BY <1>1 DEF Take

LEMMA GatherActionsKeep ==
  ASSUME OrdersInv, NEW r \in Slots,
         \/ KeepGoing(r) \/ Arrive(r) \/ GiveUp(r) \/ Mine(r) \/ Load(r) \/ Bank(r)
  PROVE  OrdersInv'
<1> DEFINE n == order[r].node
<1>0. /\ amount \in [Slots -> 0 .. Seam] /\ carry \in [Slots -> 0 .. Capacity] /\ stock \in Nat
      /\ StoreTypes /\ Gatherer(r)
  BY DEF OrdersInv, Rooted, StoreTypes, OtherTypes, KeepGoing, Arrive, GiveUp, Mine, Load, Bank
<1>1. /\ order[r] \in Orders /\ order[r].name \in {"to node", "mining", "returning"}
      /\ n \in Ids /\ n.row \in Slots
      /\ order[r].name = "mining" => order[r].left \in 1 .. MineTicks
  BY <1>0, GathererParts
<1>2. CASE KeepGoing(r)
  BY <1>0, <1>1, <1>2, GatherKeeps DEF KeepGoing
<1>3. CASE Arrive(r)
  <2>1. MineTicks \in 1 .. MineTicks
    BY BattleAssumption
  <2>2. Mining(n, MineTicks) \in Orders /\ Mining(n, MineTicks).name = "mining"
    BY <1>1, <2>1, OrderShapes, NamesOfOrders
  <2> QED BY <1>0, <1>3, <2>2, GatherKeeps DEF Arrive
<1>4. CASE GiveUp(r)
  <2>1. Idle \in Orders /\ Idle.name = "idle"
    BY OrderShapes, NamesOfOrders
  <2> QED BY <1>0, <1>4, <2>1, GatherKeeps DEF GiveUp
<1>5. CASE Mine(r)
  <2>1. order[r].left - 1 \in 1 .. MineTicks
    BY <1>1, <1>5, BattleAssumption DEF Mine
  <2>2. Mining(n, order[r].left - 1) \in Orders /\ Mining(n, order[r].left - 1).name = "mining"
    BY <1>1, <2>1, OrderShapes, NamesOfOrders
  <2> QED BY <1>0, <1>5, <2>2, GatherKeeps DEF Mine
<1>6. CASE Load(r)
  <2>1. amount' \in [Slots -> 0 .. Seam] /\ carry' \in [Slots -> 0 .. Capacity] /\ stock' \in Nat
    <3>1. Take(n.row) \in 0 .. Capacity /\ amount[n.row] - Take(n.row) \in 0 .. Seam
      BY <1>0, <1>1, TakeType
    <3>2. /\ amount' = [amount EXCEPT ![n.row] = amount[n.row] - Take(n.row)]
          /\ carry' = [carry EXCEPT ![r] = Take(n.row)] /\ stock' = stock
      BY <1>6 DEF Load
    <3> QED BY <1>0, <3>1, <3>2
  <2>2. CASE \E d \in Of(DropOffs) : Step(r, Returning(n, IdAt(d)))
    <3>1. PICK d \in Of(DropOffs) : Step(r, Returning(n, IdAt(d)))
      BY <2>2
    <3>2. d \in Slots /\ kind[d] \in DropOffs
      BY DEF Of, Alive
    <3>3. IdAt(d) \in Ids /\ Holds(IdAt(d), DropOffs)
      BY <1>0, <3>2, IdOfRow DEF Holds
    <3>4. /\ Returning(n, IdAt(d)) \in Orders /\ Returning(n, IdAt(d)).name = "returning"
          /\ Returning(n, IdAt(d)).home = IdAt(d)
      BY <1>1, <3>3, OrderShapes, NamesOfOrders
    <3> QED BY <1>0, <2>1, <3>1, <3>3, <3>4, GatherKeeps
  <2>3. CASE Step(r, Idle)
    BY <1>0, <2>1, <2>3, OrderShapes, NamesOfOrders, GatherKeeps
  <2> QED BY <1>6, <2>2, <2>3 DEF Load
<1>7. CASE Bank(r)
  <2>1. amount' \in [Slots -> 0 .. Seam] /\ carry' \in [Slots -> 0 .. Capacity] /\ stock' \in Nat
    <3>1. stock' = stock + carry[r] /\ carry' = [carry EXCEPT ![r] = 0] /\ amount' = amount
      BY <1>7 DEF Bank, Emptied
    <3>2. carry[r] \in Nat /\ 0 \in 0 .. Capacity
      BY <1>0, BattleAssumption
    <3> QED BY <1>0, <3>1, <3>2
  <2>2. CASE Step(r, ToNode(n))
    <3>1. ToNode(n) \in Orders /\ ToNode(n).name = "to node"
      BY <1>1, OrderShapes, NamesOfOrders
    <3> QED BY <1>0, <2>1, <2>2, <3>1, GatherKeeps
  <2>3. CASE Step(r, Idle)
    BY <1>0, <2>1, <2>3, OrderShapes, NamesOfOrders, GatherKeeps
  <2> QED BY <1>7, <2>2, <2>3 DEF Bank
<1> QED BY <1>2, <1>3, <1>4, <1>5, <1>6, <1>7

LEMMA EndGatherKeeps == ASSUME OrdersInv, EndGather PROVE OrdersInv'
<1>1. Rooted' /\ WaveTypes'
  BY DEF OrdersInv, Rooted, EndGather, store, waves, StoreTypes, RowsInBound, Bearers, WaveTypes
<1>2. OtherTypes'
  BY DEF OrdersInv, EndGather, Goto, OtherTypes, Phases, Alive
<1>3. \A r \in Alive : HomeStands(r)
  BY DEF OrdersInv, HaulsInvariant, EndGather, Gathering, HomeStands
<1>4. HaulsInvariant'
  BY <1>3 DEF HaulsInvariant, HomeStands, Holds, EndGather, Goto, store, Alive
<1> QED BY <1>1, <1>2, <1>4 DEF OrdersInv
-----------------------------------------------------------------------------
(* Combat and movement                                                     *)

\* An attacker whose target is gone is told to stop; nothing else changes.
LEMMA SettledParts ==
  ASSUME OrdersInv, NEW r \in Slots
  PROVE  /\ Settled(order[r]) \in Orders
         /\ Settled(order[r]) \in {order[r], Idle}
         /\ Settled(order[r]).name = "attack" =>
              /\ order[r].name = "attack" /\ Settled(order[r]) = order[r]
              /\ Holds(order[r].target, {"ghoul"})
<1>1. order[r] \in Orders
  BY DEF OrdersInv, Rooted
<1> QED BY <1>1, OrderShapes, NamesOfOrders DEF Settled, Stale

LEMMA CooledType ==
  ASSUME StoreTypes, NEW r \in Slots
  PROVE  Cooled(r) \in 0 .. Cooldown
<1>1. Cooldown \in Nat /\ cooldown[r] \in 0 .. Cooldown
  BY BattleAssumption DEF StoreTypes
<1> QED BY <1>1 DEF Cooled

LEMMA HoldFireKeeps ==
  ASSUME OrdersInv, NEW r \in Slots, HoldFire(r)
  PROVE  OrdersInv'
<1> DEFINE o == Settled(order[r])
<1>1. o \in Orders /\ o \in {order[r], Idle}
  BY SettledParts
<1>2. order' = [order EXCEPT ![r] = o] /\ kind' = kind /\ gen' = gen /\ phase' = phase
  BY DEF HoldFire, Done
<1>3. \A s \in Slots : order'[s] = order[s] \/ order'[s] = Idle
  BY <1>1, <1>2 DEF OrdersInv, Rooted
<1>4. StoreTypes' /\ RowsInBound'
  BY CooledType DEF OrdersInv, Rooted, StoreTypes, RowsInBound, HoldFire
<1>5. order' \in [Slots -> Orders] /\ Bearers'
  BY <1>1, <1>2, <1>3, NamesOfOrders DEF OrdersInv, Rooted, Bearers
<1>6. WaveTypes' /\ OtherTypes'
  BY DEF OrdersInv, HoldFire, Done, waves, WaveTypes, OtherTypes
<1>7. HaulsInvariant'
  BY <1>2, <1>3, NamesOfOrders
  DEF OrdersInv, HaulsInvariant, HomeStands, Holds, Alive, HoldFire, Shooter
<1> QED BY <1>4, <1>5, <1>6, <1>7 DEF OrdersInv, Rooted

\* Nobody shoots itself, and whoever shoots does not haul.
LEMMA TargetParts ==
  ASSUME OrdersInv, NEW r \in Slots, NEW t \in Slots, Fire(r, t)
  PROVE  /\ t # r /\ kind[r] # None /\ kind[t] \in Player \cup {"ghoul"} /\ kind[t] # None
         /\ Settled(order[r]) = Idle \/ Settled(order[r]).name = "attack"
<1> DEFINE o == Settled(order[r])
<1>1. kind[r] \in Armed /\ phase = "combat" /\ t \in Targets(r)
  BY DEF Fire, Shooter
<1>2. None \notin Kinds
  BY BattleAssumption
<1>3. CASE o.name = "attack"
  <2>1. Holds(order[r].target, {"ghoul"}) /\ o = order[r] /\ order[r].name = "attack"
    BY <1>3, SettledParts
  <2>2. Targets(r) = {o.target.row}
    BY <1>3, NamesOfOrders DEF Targets
  <2>3. kind[t] = "ghoul" /\ kind[r] = "soldier"
    BY <1>1, <2>1, <2>2 DEF Holds, OrdersInv, Rooted, Bearers
  <2> QED BY <1>2, <1>3, <2>3 DEF Kinds, Player
<1>4. CASE o = Idle
  <2>1. Targets(r) = {s \in Alive : Hostile(r, s)}
    BY <1>4, NamesOfOrders DEF Targets
  <2>2. Hostile(r, t)
    BY <1>1, <2>1
  <2> QED BY <1>1, <1>2, <1>4, <2>2 DEF Hostile, Kinds, Player, Armed
<1>5. CASE o.name # "attack" /\ o # Idle
  BY <1>1, <1>5 DEF Targets
<1> QED BY <1>3, <1>4, <1>5

\* A hit that does not kill.
LEMMA WoundKeeps ==
  ASSUME OrdersInv, NEW r \in Slots, NEW t \in Slots, Fire(r, t), hp[t] > 1
  PROVE  OrdersInv'
<1> DEFINE o == Settled(order[r])
<1>1. o \in Orders /\ o \in {order[r], Idle}
  BY SettledParts
<1>2. /\ order' = [order EXCEPT ![r] = o] /\ kind' = kind /\ gen' = gen /\ phase' = phase
      /\ hp' = [hp EXCEPT ![t] = hp[t] - 1] /\ kills' = kills
  BY DEF Fire, ApplyDamage, Done
<1>3. \A s \in Slots : order'[s] = order[s] \/ order'[s] = Idle
  BY <1>1, <1>2 DEF OrdersInv, Rooted
<1>4. StoreTypes' /\ RowsInBound'
  <2>1. hp[t] - 1 \in Nat /\ Cooldown \in 0 .. Cooldown
    BY Bounds DEF OrdersInv, Rooted, StoreTypes
  <2> QED BY <1>2, <2>1 DEF OrdersInv, Rooted, StoreTypes, RowsInBound, Fire
<1>5. order' \in [Slots -> Orders] /\ Bearers'
  BY <1>1, <1>2, <1>3, NamesOfOrders DEF OrdersInv, Rooted, Bearers
<1>6. WaveTypes' /\ OtherTypes'
  BY <1>2 DEF OrdersInv, Fire, Done, waves, WaveTypes, OtherTypes
<1>7. HaulsInvariant'
  BY <1>2, <1>3, NamesOfOrders
  DEF OrdersInv, HaulsInvariant, HomeStands, Holds, Alive, Fire, Shooter
<1> QED BY <1>4, <1>5, <1>6, <1>7 DEF OrdersInv, Rooted

\* A hit that kills: the victim's order goes, and those of its haulers.
LEMMA KillKeeps ==
  ASSUME OrdersInv, NEW r \in Slots, NEW t \in Slots, Fire(r, t), ~ (hp[t] > 1)
  PROVE  OrdersInv'
<1> DEFINE o == Settled(order[r])
<1>1. /\ o \in Orders /\ o.name # "returning" /\ o \in {order[r], Idle}
      /\ t # r /\ kind[r] # None /\ kind[t] # None
  BY SettledParts, TargetParts, NamesOfOrders
<1>2. /\ order' = [Bereft(t) EXCEPT ![r] = o] /\ phase' = phase /\ phase = "combat"
      /\ kind' = [kind EXCEPT ![t] = None] /\ gen' = [gen EXCEPT ![t] = gen[t] + 1]
      /\ hp' = hp /\ (kills' = kills + 1 \/ kills' = kills)
  BY DEF Fire, ApplyDamage, Despawn, Done, Shooter
<1>3. \A s \in Slots :
        order'[s] = IF s = r THEN o
                    ELSE IF s = t \/ (order[s].name = "returning" /\ order[s].home = IdAt(t))
                         THEN Idle ELSE order[s]
  BY <1>2 DEF Bereft
<1>4. \A s \in Slots : kind'[s] = (IF s = t THEN None ELSE kind[s])
                   /\ gen'[s] = (IF s = t THEN gen[s] + 1 ELSE gen[s])
  BY <1>2 DEF OrdersInv, Rooted, StoreTypes
<1>5. StoreTypes'
  <2>1. gen[t] + 1 \in 0 .. MaxGen /\ Cooldown \in 0 .. Cooldown
    <3>1. gen[t] \in 0 .. MaxGen /\ gen[t] < MaxGen
      BY <1>1 DEF OrdersInv, Rooted, StoreTypes, RowsInBound
    <3> QED BY <3>1, Bounds
  <2> QED BY <1>2, <2>1 DEF OrdersInv, Rooted, StoreTypes, Fire
<1>6. RowsInBound'
  BY <1>4 DEF OrdersInv, Rooted, RowsInBound
<1>7. order' \in [Slots -> Orders]
  BY <1>1, <1>2, OrderShapes DEF OrdersInv, Rooted, Bereft
<1>8. Bearers'
  BY <1>1, <1>3, <1>4, NamesOfOrders DEF OrdersInv, Rooted, Bearers
<1>9. WaveTypes' /\ OtherTypes'
  BY <1>2 DEF OrdersInv, Fire, Done, waves, WaveTypes, OtherTypes
<1>10. HaulsInvariant'
  <2>1. ASSUME NEW s \in Slots, s # t, kind[s] # None, order'[s].name = "returning"
        PROVE  Holds(order[s].home, DropOffs)'
    <3>1. s # r /\ order'[s] = order[s] /\ order[s].home # IdAt(t) /\ order[s].name = "returning"
      BY <1>1, <1>3, <2>1, NamesOfOrders
    <3>2. order[s].home \in Ids
      BY <3>1, OrderParts DEF OrdersInv, Rooted
    <3>3. Holds(order[s].home, DropOffs)
      BY <1>2, <2>1, <3>1 DEF OrdersInv, HaulsInvariant, HomeStands, Alive
    <3>4. order[s].home.row \in Slots /\ order[s].home.row # t
      BY <3>1, <3>2, <3>3, IdOfRow DEF OrdersInv, Rooted, Holds, Ids
    <3> QED BY <1>4, <3>1, <3>3, <3>4 DEF Holds
  <2> QED BY <1>2, <1>4, <2>1 DEF HaulsInvariant, HomeStands, Alive
<1> QED BY <1>5, <1>6, <1>7, <1>8, <1>9, <1>10 DEF OrdersInv, Rooted

LEMMA MovementKeeps == ASSUME OrdersInv, Movement PROVE OrdersInv'
<1>1. PICK S \in SUBSET Alive : order' = [r \in Slots |-> IF r \in S THEN Idle ELSE order[r]]
  BY DEF Movement
<1>2. StoreTypes' /\ RowsInBound' /\ WaveTypes'
  BY DEF OrdersInv, Rooted, Movement, store, waves, StoreTypes, RowsInBound, WaveTypes
<1>3. order' \in [Slots -> Orders] /\ Bearers'
  BY <1>1, OrderShapes, NamesOfOrders DEF OrdersInv, Rooted, Bearers, Movement, store
<1>4. OtherTypes'
  BY DEF OrdersInv, Movement, Goto, OtherTypes, Phases
<1>5. HaulsInvariant'
  BY DEF HaulsInvariant, Movement, Goto
<1> QED BY <1>2, <1>3, <1>4, <1>5 DEF OrdersInv, Rooted
-----------------------------------------------------------------------------
LEMMA OrdersNext == OrdersInv /\ [Next]_vars => OrdersInv'
<1> SUFFICES ASSUME OrdersInv, [Next]_vars PROVE OrdersInv'
  OBVIOUS
<1>1. ASSUME NEW r \in Slots,
             \/ ConfirmPlacement(r) \/ CancelConstruction(r) \/ SpawnGhoul(r) \/ HoldFire(r)
             \/ OrderWalk(r) \/ CmdStop(r)
      PROVE  OrdersInv'
  BY <1>1, ConfirmKeeps, CancelKeeps, SpawnGhoulKeeps, HoldFireKeeps, CommandsKeep
<1>2. ASSUME NEW r \in Slots,
             KeepGoing(r) \/ Arrive(r) \/ GiveUp(r) \/ Mine(r) \/ Load(r) \/ Bank(r)
      PROVE  OrdersInv'
  BY <1>2, GatherActionsKeep
<1>3. ASSUME NEW r \in Slots, NEW t \in Slots, OrderGather(r, t) \/ OrderAttack(r, t)
      PROVE  OrdersInv'
  BY <1>3, CommandsKeep
<1>4. ASSUME NEW r \in Slots, NEW t \in Slots, Fire(r, t) PROVE OrdersInv'
  BY <1>4, WoundKeeps, KillKeeps
<1>5. ASSUME NEW r \in Slots, NEW b \in Slots, NEW k \in {"worker", "soldier"}, Deliver(b, r, k)
      PROVE  OrdersInv'
  BY <1>5, DeliverKeeps
<1>6. CASE BeginTick \/ DeferWaves \/ Construction \/ EndProduction \/ EndGather \/ Movement
  BY <1>6, BeginTickKeeps, DeferKeeps, ConstructionKeeps, EndProductionKeeps, EndGatherKeeps, MovementKeeps
<1>7. CASE UNCHANGED vars
  <2>1. StoreTypes' /\ RowsInBound'
    BY <1>7 DEF OrdersInv, Rooted, StoreTypes, RowsInBound, vars, store
  <2>2. order' \in [Slots -> Orders] /\ Bearers'
    BY <1>7 DEF OrdersInv, Rooted, Bearers, vars, store
  <2>3. WaveTypes' /\ OtherTypes'
    BY <1>7 DEF OrdersInv, WaveTypes, OtherTypes, vars, waves
  <2>4. HaulsInvariant'
    BY <1>7 DEF OrdersInv, HaulsInvariant, HomeStands, Holds, Alive, vars, store
  <2> QED BY <2>1, <2>2, <2>3, <2>4 DEF OrdersInv, Rooted
<1> QED BY <1>1, <1>2, <1>3, <1>4, <1>5, <1>6, <1>7 DEF Next

LEMMA OrdersAlways == Spec => []OrdersInv
BY RootedInit, OrdersNext, PTL DEF Spec

\* Every variable keeps its type, and no node is ever mined below zero
\* (world.rs, gather).
THEOREM TypeCorrect == Spec => []TypeOK
<1>1. OrdersInv => TypeOK
  BY TypeParts DEF OrdersInv, Rooted
<1> QED BY <1>1, OrdersAlways, PTL

\* A freed row leaves no order to its next tenant, and after combat no worker
\* hauls to a building that is gone (world.rs, apply_death).
THEOREM OrdersDieWithTheirSubject == Spec => []NoOrderOutlivesItsSubject
<1>1. OrdersInv => NoOrderOutlivesItsSubject
  BY BattleAssumption
  DEF OrdersInv, Rooted, Bearers, HaulsInvariant, HomeStands, NoOrderOutlivesItsSubject, Kinds, Player
<1> QED BY <1>1, OrdersAlways, PTL
-----------------------------------------------------------------------------
(* The Ghouls                                                              *)

\* A row that is not a Ghoul's, before and after, does not change the count.
LEMMA SameEnemies ==
  ASSUME OrdersInv, GhoulsCounted, spawned' = spawned, kills' = kills,
         \A s \in Slots : kind[s] = "ghoul" <=> kind'[s] = "ghoul"
  PROVE  GhoulsCounted'
<1>1. \A s \in Slots : kind[s] = "ghoul" <=> s \in Enemies
  BY BattleAssumption DEF Enemies, Of, Alive, Kinds
<1>2. \A s \in Slots : kind'[s] = "ghoul" <=> s \in Enemies'
  BY BattleAssumption DEF Enemies, Of, Alive, Kinds
<1>3. Enemies' = Enemies
  BY <1>1, <1>2 DEF Enemies, Of, Alive
<1> QED BY <1>3 DEF GhoulsCounted

LEMMA GhoulComes ==
  ASSUME OrdersInv, GhoulsCounted, NEW r \in Slots, SpawnGhoul(r)
  PROVE  GhoulsCounted'
<1>1. Rooted /\ r \in Free /\ Spawn(r, "ghoul") /\ kills' = kills /\ spawned' = spawned + 1
  BY DEF OrdersInv, SpawnGhoul
<1>2. /\ kind[r] = None /\ kind'[r] = "ghoul" /\ None # "ghoul"
      /\ \A s \in Slots : s # r => kind'[s] = kind[s]
  BY <1>1, SpawnKeeps, BattleAssumption DEF Kinds
<1>3. r \notin Enemies /\ Enemies' = Enemies \cup {r}
  BY <1>2 DEF Enemies, Of, Alive
<1>4. Cardinality(Enemies') = Cardinality(Enemies) + 1 /\ Cardinality(Enemies) \in Nat
  BY <1>3, EnemiesAreFinite, FS_AddElement
<1>5. kills \in Nat
  BY DEF OrdersInv, OtherTypes
<1> QED BY <1>1, <1>4, <1>5 DEF GhoulsCounted

LEMMA GhoulDies ==
  ASSUME OrdersInv, GhoulsCounted, NEW r \in Slots, NEW t \in Slots,
         Fire(r, t), ~ (hp[t] > 1), kind[t] = "ghoul"
  PROVE  GhoulsCounted'
<1>1. kind' = [kind EXCEPT ![t] = None] /\ kills' = kills + 1 /\ spawned' = spawned
  BY DEF Fire, ApplyDamage, Despawn, waves
<1>2. \A s \in Slots : kind'[s] = IF s = t THEN None ELSE kind[s]
  BY <1>1 DEF OrdersInv, Rooted, StoreTypes
<1>3. t \in Enemies /\ Enemies' = Enemies \ {t}
  BY <1>2, BattleAssumption DEF Enemies, Of, Alive, Kinds
<1>4. Cardinality(Enemies') = Cardinality(Enemies) - 1 /\ Cardinality(Enemies) \in Nat
  BY <1>3, EnemiesAreFinite, FS_RemoveElement
<1>5. kills \in Nat
  BY DEF OrdersInv, OtherTypes
<1> QED BY <1>1, <1>4, <1>5 DEF GhoulsCounted

LEMMA GhoulsNext ==
  ASSUME OrdersInv, GhoulsCounted, [Next]_vars
  PROVE  GhoulsCounted'
<1>1. ASSUME NEW r \in Slots, SpawnGhoul(r) PROVE GhoulsCounted'
  BY <1>1, GhoulComes
<1>2. ASSUME NEW r \in Slots, NEW t \in Slots, Fire(r, t) PROVE GhoulsCounted'
  <2>1. CASE hp[t] > 1
    BY <1>2, <2>1, SameEnemies DEF Fire, ApplyDamage, waves
  <2>2. CASE ~ (hp[t] > 1) /\ kind[t] = "ghoul"
    BY <1>2, <2>2, GhoulDies
  <2>3. CASE ~ (hp[t] > 1) /\ kind[t] # "ghoul"
    <3>1. kind' = [kind EXCEPT ![t] = None] /\ kills' = kills /\ spawned' = spawned
      BY <1>2, <2>3 DEF Fire, ApplyDamage, Despawn, waves
    <3>2. \A s \in Slots : kind[s] = "ghoul" <=> kind'[s] = "ghoul"
      BY <2>3, <3>1, BattleAssumption DEF OrdersInv, Rooted, StoreTypes, Kinds
    <3> QED BY <3>1, <3>2, SameEnemies
  <2> QED BY <2>1, <2>2, <2>3
<1>3. ASSUME NEW r \in Slots, NEW k \in {"site", "worker", "soldier"}, r \in Free, Spawn(r, k),
             spawned' = spawned, kills' = kills
      PROVE  GhoulsCounted'
  <2>1. k \in Player \cup {"ghoul"} /\ Rooted /\ k # "ghoul" /\ None # "ghoul"
    BY BattleAssumption DEF Player, OrdersInv, Kinds
  <2>2. kind'[r] = k /\ kind[r] = None /\ \A s \in Slots : s # r => kind'[s] = kind[s]
    BY <1>3, <2>1, SpawnKeeps
  <2> QED BY <1>3, <2>1, <2>2, SameEnemies
<1>4. ASSUME NEW r \in Slots, ConfirmPlacement(r) PROVE GhoulsCounted'
  BY <1>3, <1>4 DEF ConfirmPlacement, waves
<1>5. ASSUME NEW r \in Slots, NEW b \in Slots, NEW k \in {"worker", "soldier"}, Deliver(b, r, k)
      PROVE  GhoulsCounted'
  BY <1>3, <1>5 DEF Deliver, waves
<1>6. ASSUME NEW r \in Slots, CancelConstruction(r) PROVE GhoulsCounted'
  <2>1. /\ kind' = [kind EXCEPT ![r] = None] /\ kind[r] = "site" /\ spawned' = spawned /\ kills' = kills
    BY <1>6 DEF CancelConstruction, Despawn, waves
  <2>2. \A s \in Slots : kind[s] = "ghoul" <=> kind'[s] = "ghoul"
    BY <2>1, BattleAssumption DEF OrdersInv, Rooted, StoreTypes, Kinds
  <2> QED BY <2>1, <2>2, SameEnemies
<1>7. CASE Construction
  <2>1. PICK done \in SUBSET Of({"site"}), stalled \in SUBSET Of({"site"}) :
          kind' = [r \in Slots |-> IF r \in done THEN "hq" ELSE IF r \in stalled THEN None ELSE kind[r]]
    BY <1>7 DEF Construction
  <2>2. \A s \in Slots : kind[s] = "ghoul" <=> kind'[s] = "ghoul"
    BY <2>1, BattleAssumption DEF Of, Kinds
  <2> QED BY <1>7, <2>2, SameEnemies DEF Construction, waves
<1>8. ASSUME NEW r \in Slots, NEW o, Obey(r, o) PROVE GhoulsCounted'
  BY <1>8, SameEnemies DEF Obey, store, waves
<1>9. ASSUME NEW r \in Slots, NEW o, Step(r, o) PROVE GhoulsCounted'
  BY <1>9, SameEnemies DEF Step, waves
<1>10. ASSUME NEW r \in Slots, NEW t \in Slots,
              OrderGather(r, t) \/ OrderAttack(r, t) \/ OrderWalk(r) \/ CmdStop(r)
       PROVE  GhoulsCounted'
  BY <1>8, <1>10 DEF OrderGather, OrderAttack, OrderWalk, CmdStop
<1>11. ASSUME NEW r \in Slots,
              KeepGoing(r) \/ Arrive(r) \/ GiveUp(r) \/ Mine(r) \/ Load(r) \/ Bank(r)
       PROVE  GhoulsCounted'
  BY <1>9, <1>11 DEF KeepGoing, Arrive, GiveUp, Mine, Load, Bank
<1>12. ASSUME NEW r \in Slots, HoldFire(r) PROVE GhoulsCounted'
  BY <1>12, SameEnemies DEF HoldFire, waves
<1>13. CASE BeginTick \/ DeferWaves \/ EndProduction \/ EndGather \/ Movement
  BY <1>13, SameEnemies DEF BeginTick, DeferWaves, EndProduction, EndGather, Movement, store, waves
<1>14. CASE UNCHANGED vars
  BY <1>14, SameEnemies DEF vars, store, waves
<1> QED BY <1>1, <1>2, <1>4, <1>5, <1>6, <1>7, <1>10, <1>11, <1>12, <1>13, <1>14 DEF Next

\* Every Ghoul that has come is alive or was counted as a kill, whoever killed
\* it and however often a full store deferred the rest of its wave (world.rs,
\* enemy_wave_system and apply_death).
THEOREM GhoulsAreCounted == Spec => []GhoulsCounted
<1>1. Init => GhoulsCounted
  <2> SUFFICES ASSUME Init PROVE GhoulsCounted
    OBVIOUS
  <2>1. Cardinality(Enemies) \in Nat
    BY EnemiesAreFinite
  <2> QED BY <2>1 DEF Init, GhoulsCounted
<1>2. OrdersInv /\ GhoulsCounted /\ [Next]_vars => GhoulsCounted'
  BY GhoulsNext
<1> QED BY <1>1, <1>2, OrdersAlways, PTL DEF Spec
-----------------------------------------------------------------------------
(* The waves                                                               *)

\* A wave that has begun is on the schedule and owes no more than it has, and
\* what has come so far is a finite set.
WavesInv ==
  /\ ScheduleKept /\ IsFiniteSet(Sent)
  /\ pending > 0 => cursor \in 1 .. Len(Waves) /\ pending <= Waves[cursor].count

\* Every wave has members, and falls within the bound of the tick.
LEMMA WaveParts ==
  /\ Len(Waves) \in Nat
  /\ \A i \in 1 .. Len(Waves) : Waves[i].count \in Nat \ {0} /\ Waves[i].at \in 0 .. LastTick
<1> DEFINE Wave == [at : 0 .. LastTick, count : Nat \ {0}]
<1>1. Waves \in Seq(Wave) /\ Len(Waves) \in Nat
  BY BattleAssumption
<1>2. ASSUME NEW i \in 1 .. Len(Waves)
      PROVE  Waves[i].count \in Nat \ {0} /\ Waves[i].at \in 0 .. LastTick
  <2>1. Waves[i] \in Wave
    <3> HIDE DEF Wave
    <3> QED BY <1>1, ElementOfSeq
  <2> QED BY <2>1
<1> QED BY <1>1, <1>2

\* One member more.
LEMMA NextMember ==
  \A c : \A n \in Nat : {c} \X (1 .. n + 1) = ({c} \X (1 .. n)) \cup {<<c, n + 1>>}
<1> TAKE c
<1> TAKE n \in Nat
<1>1. 1 .. n + 1 = (1 .. n) \cup {n + 1}
  OBVIOUS
<1>2. ASSUME NEW m PROVE m \in {c} \X (1 .. n + 1) <=> m \in ({c} \X (1 .. n)) \cup {<<c, n + 1>>}
  <2>1. m \in {c} \X (1 .. n + 1) <=> \E k \in 1 .. n + 1 : m = <<c, k>>
    OBVIOUS
  <2>2. m \in {c} \X (1 .. n) <=> \E k \in 1 .. n : m = <<c, k>>
    OBVIOUS
  <2> QED BY <1>1, <2>1, <2>2
<1> QED BY <1>2

\* A Ghoul that comes is the next member of the wave at the cursor.
LEMMA WaveComes ==
  ASSUME OrdersInv, WavesInv, NEW r \in Slots, SpawnGhoul(r)
  PROVE  WavesInv'
<1> DEFINE next == <<cursor, Waves[cursor].count - Owed + 1>>
<1>1. /\ Due /\ spawned' = spawned + 1 /\ pending' = Owed - 1 /\ tick' = tick
      /\ cursor' = IF Owed = 1 THEN cursor + 1 ELSE cursor
  BY DEF SpawnGhoul
<1>2. /\ cursor \in 1 .. Len(Waves) /\ pending \in Nat /\ Len(Waves) \in Nat /\ spawned \in Nat
      /\ Waves[cursor].count \in Nat \ {0} /\ Waves[cursor].at <= tick
  BY <1>1, WaveParts DEF OrdersInv, WaveTypes, Due
<1>3. Owed \in 1 .. Waves[cursor].count
  BY <1>2 DEF Owed, WavesInv
<1> DEFINE come == IF pending = 0 THEN 0 ELSE Waves[cursor].count - pending
           earlier == (UNION {{i} \X (1 .. Waves[i].count) : i \in 1 .. cursor - 1})
<1>4. /\ come \in Nat /\ come + 1 = Waves[cursor].count - Owed + 1 /\ come + 1 <= Waves[cursor].count
      /\ next = <<cursor, come + 1>>
  BY <1>2, <1>3 DEF Owed
<1>5. Sent = earlier \cup ({cursor} \X (1 .. come))
  <2>1. 1 .. 0 = {}
    OBVIOUS
  <2> QED BY <2>1 DEF Sent
<1>6. next \notin Sent
  <2>1. ASSUME next \in earlier PROVE FALSE
    <3>1. PICK i \in 1 .. cursor - 1 : next \in {i} \X (1 .. Waves[i].count)
      BY <2>1
    <3>2. next[1] = i /\ next[1] = cursor
      BY <3>1
    <3> QED BY <1>2, <3>2
  <2>2. ASSUME next \in {cursor} \X (1 .. come) PROVE FALSE
    BY <1>4, <2>2
  <2> QED BY <1>5, <2>1, <2>2
<1>7. {cursor} \X (1 .. come + 1) = ({cursor} \X (1 .. come)) \cup {next}
  <2>1. come \in Nat /\ next = <<cursor, come + 1>>
    BY <1>4
  <2> HIDE DEF come, next
  <2>2. {cursor} \X (1 .. come + 1) = ({cursor} \X (1 .. come)) \cup {<<cursor, come + 1>>}
    BY <2>1, NextMember
  <2> QED BY <2>1, <2>2
<1>8. Sent' = Sent \cup {next}
  <2>1. CASE Owed = 1
    <3>1. Sent' = UNION {{i} \X (1 .. Waves[i].count) : i \in 1 .. cursor}
      BY <1>1, <1>2, <2>1 DEF Sent
    <3>2. come + 1 = Waves[cursor].count
      BY <1>2, <1>4, <2>1
    <3>3. 1 .. cursor = (1 .. cursor - 1) \cup {cursor}
      BY <1>2
    <3>4. Sent' = earlier \cup ({cursor} \X (1 .. Waves[cursor].count))
      BY <3>1, <3>3
    <3> HIDE DEF earlier, come, next
    <3> QED BY <1>5, <1>7, <3>2, <3>4
  <2>2. CASE Owed # 1
    <3>1. Sent' = earlier \cup ({cursor} \X (1 .. Waves[cursor].count - (Owed - 1)))
      BY <1>1, <1>2, <1>3, <2>2 DEF Sent
    <3>2. Waves[cursor].count - (Owed - 1) = come + 1
      BY <1>2, <1>3, <1>4
    <3> HIDE DEF earlier, come, next
    <3> QED BY <1>5, <1>7, <3>1, <3>2
  <2> QED BY <2>1, <2>2
<1>9. IsFiniteSet(Sent') /\ Cardinality(Sent') = Cardinality(Sent) + 1 /\ Cardinality(Sent) \in Nat
  <2> HIDE DEF next
  <2> QED BY <1>8, <1>6, FS_AddElement, FS_CardinalityType DEF WavesInv
<1>10. spawned' = Cardinality({s \in Slots : StartKind[s] = "ghoul"}) + Cardinality(Sent')
  <2>1. Cardinality({s \in Slots : StartKind[s] = "ghoul"}) \in Nat
    BY SlotsAreFinite, FS_Subset, FS_CardinalityType
  <2> QED BY <1>1, <1>9, <2>1 DEF WavesInv, ScheduleKept
<1>11. ASSUME NEW i \in 1 .. Len(Waves), i < cursor' \/ (i = cursor' /\ pending' > 0)
      PROVE  Waves[i].at <= tick'
  BY <1>1, <1>2, <1>3, <1>11 DEF WavesInv, ScheduleKept
<1>12. pending' > 0 => cursor' \in 1 .. Len(Waves) /\ pending' <= Waves[cursor'].count
  BY <1>1, <1>2, <1>3
<1> QED BY <1>9, <1>10, <1>11, <1>12 DEF WavesInv, ScheduleKept

\* A wave that is deferred owes what it owed, and one met for the first time
\* all of itself.
LEMMA WaveWaits ==
  ASSUME OrdersInv, WavesInv, DeferWaves
  PROVE  WavesInv'
<1>1. spawned' = spawned /\ cursor' = cursor /\ tick' = tick /\ pending' = Deferred
  BY DEF DeferWaves
<1>2. pending \in Nat /\ cursor \in 1 .. Len(Waves) + 1 /\ Len(Waves) \in Nat
  BY WaveParts DEF OrdersInv, WaveTypes
<1>3. CASE pending' = pending
  BY <1>1, <1>3 DEF WavesInv, ScheduleKept, Sent
<1>4. CASE pending' # pending
  <2>1. /\ pending = 0 /\ Due /\ cursor \in 1 .. Len(Waves) /\ Waves[cursor].at <= tick
        /\ pending' = Waves[cursor].count
    BY <1>1, <1>2, <1>4 DEF Deferred, Owed, Due
  <2>2. Waves[cursor].count \in Nat \ {0}
    BY <2>1, WaveParts
  <2>3. {cursor} \X (1 .. Waves[cursor].count - pending') = {}
    BY <2>1, <2>2
  <2>4. Sent' = Sent
    BY <1>1, <2>1, <2>2, <2>3 DEF Sent
  <2>5. ASSUME NEW i \in 1 .. Len(Waves), i < cursor' \/ (i = cursor' /\ pending' > 0)
        PROVE  Waves[i].at <= tick'
    BY <1>1, <2>1, <2>5 DEF WavesInv, ScheduleKept
  <2> QED BY <1>1, <2>1, <2>2, <2>4, <2>5 DEF WavesInv, ScheduleKept
<1> QED BY <1>3, <1>4

\* A step that leaves the waves alone and does not turn the clock back.
LEMMA WavesUntouched ==
  ASSUME WavesInv, UNCHANGED waves, tick' = tick
  PROVE  WavesInv'
BY DEF WavesInv, ScheduleKept, Sent, waves

\* A tick begins, and what was due still is.
LEMMA WavesAge ==
  ASSUME OrdersInv, WavesInv, BeginTick
  PROVE  WavesInv'
<1>1. UNCHANGED waves /\ tick \in Nat /\ tick' \in Nat /\ tick <= tick'
  BY BattleAssumption DEF BeginTick, OrdersInv, OtherTypes
<1>2. ASSUME NEW i \in 1 .. Len(Waves), i < cursor \/ (i = cursor /\ pending > 0)
      PROVE  Waves[i].at <= tick'
  <2>1. Waves[i].at <= tick /\ Waves[i].at \in 0 .. LastTick
    BY <1>2, WaveParts DEF WavesInv, ScheduleKept
  <2>2. LastTick \in Nat
    BY BattleAssumption
  <2> QED BY <1>1, <2>1, <2>2
<1> QED BY <1>1, <1>2 DEF WavesInv, ScheduleKept, Sent, waves

LEMMA WavesNext ==
  ASSUME OrdersInv, WavesInv, [Next]_vars
  PROVE  WavesInv'
<1>1. ASSUME NEW r \in Slots, SpawnGhoul(r) PROVE WavesInv'
  BY <1>1, WaveComes
<1>2. CASE DeferWaves
  BY <1>2, WaveWaits
<1>3. CASE BeginTick
  BY <1>3, WavesAge
<1>4. CASE UNCHANGED waves /\ tick' = tick
  BY <1>4, WavesUntouched
<1>5. ASSUME NEW r \in Slots, NEW o, Obey(r, o) \/ Step(r, o) PROVE WavesInv'
  BY <1>4, <1>5 DEF Obey, Step
<1>6. ASSUME NEW r \in Slots, NEW t \in Slots,
             \/ OrderGather(r, t) \/ OrderAttack(r, t) \/ OrderWalk(r) \/ CmdStop(r)
             \/ KeepGoing(r) \/ Arrive(r) \/ GiveUp(r) \/ Mine(r) \/ Load(r) \/ Bank(r)
      PROVE  WavesInv'
  BY <1>5, <1>6
  DEF OrderGather, OrderAttack, OrderWalk, CmdStop, KeepGoing, Arrive, GiveUp, Mine, Load, Bank
<1>7. ASSUME NEW r \in Slots, NEW t \in Slots, NEW k,
             \/ ConfirmPlacement(r) \/ CancelConstruction(r) \/ Deliver(t, r, k)
             \/ HoldFire(r) \/ Fire(r, t)
      PROVE  WavesInv'
  BY <1>4, <1>7 DEF ConfirmPlacement, CancelConstruction, Deliver, HoldFire, Fire
<1>8. CASE Construction \/ EndProduction \/ EndGather \/ Movement
  BY <1>4, <1>8 DEF Construction, EndProduction, EndGather, Movement
<1>9. CASE UNCHANGED vars
  BY <1>4, <1>9 DEF vars
<1> QED BY <1>1, <1>2, <1>3, <1>6, <1>7, <1>8, <1>9 DEF Next

LEMMA WavesInit == Init => WavesInv
<1> SUFFICES ASSUME Init PROVE WavesInv
  OBVIOUS
<1>1. Sent = {} /\ cursor = 1 /\ pending = 0
  BY DEF Init, Sent
<1>2. Cardinality(Sent) = 0 /\ IsFiniteSet(Sent)
  BY <1>1, FS_EmptySet
<1>3. Enemies = {r \in Slots : StartKind[r] = "ghoul"}
  BY BattleAssumption DEF Init, Enemies, Of, Alive, Kinds
<1>4. Cardinality(Enemies) \in Nat /\ spawned = Cardinality(Enemies)
  BY EnemiesAreFinite DEF Init
<1>5. \A i \in 1 .. Len(Waves) : ~ (i < cursor \/ (i = cursor /\ pending > 0))
  BY <1>1, WaveParts
<1> QED BY <1>1, <1>2, <1>3, <1>4, <1>5 DEF WavesInv, ScheduleKept

\* A wave met by a full store or a crowded map neither loses nor doubles its
\* members and sends none before its tick, and every Ghoul that came is alive
\* or was counted as a kill (world.rs, enemy_wave_system and apply_death).
THEOREM EnemyBooksBalance == Spec => []EnemyBooks
<1>1. Init => WavesInv
  BY WavesInit
<1>2. OrdersInv /\ WavesInv /\ [Next]_vars => WavesInv'
  BY WavesNext
<1>3. WavesInv => ScheduleKept
  BY DEF WavesInv
<1>4. EnemyBooks <=> ScheduleKept /\ GhoulsCounted
  BY DEF EnemyBooks
<1> QED BY <1>1, <1>2, <1>3, <1>4, OrdersAlways, GhoulsAreCounted, PTL DEF Spec
-----------------------------------------------------------------------------
(* The cargo                                                               *)

\* A function that counts on the rows, below some bound.
Counts(f) == \E most \in Nat : \A r \in Slots : f[r] \in 0 .. most

Counted(f, S) == UNION {{r} \X (1 .. f[r]) : r \in S}

\* What is counted is a finite set of units, and its number a natural.
LEMMA SumType ==
  \A f, S : Counts(f) /\ S \subseteq Slots =>
    IsFiniteSet(Counted(f, S)) /\ Sum(f, S) = Cardinality(Counted(f, S)) /\ Sum(f, S) \in Nat
<1> TAKE f, S
<1> HAVE Counts(f) /\ S \subseteq Slots
<1>1. PICK most \in Nat : \A r \in Slots : f[r] \in 0 .. most
  BY DEF Counts
<1>2. IsFiniteSet(1 .. most) /\ IsFiniteSet(Slots \X (1 .. most))
  <2>1. 1 \in Int /\ most \in Int
    OBVIOUS
  <2>2. IsFiniteSet(1 .. most)
    BY <2>1, FS_Interval
  <2> QED BY <2>2, FS_Product, SlotsAreFinite
<1>3. Counted(f, S) \subseteq Slots \X (1 .. most)
  <2>1. ASSUME NEW r \in S PROVE {r} \X (1 .. f[r]) \subseteq Slots \X (1 .. most)
    <3>1. f[r] \in 0 .. most /\ r \in Slots
      BY <1>1, <2>1
    <3>2. 1 .. f[r] \subseteq 1 .. most
      BY <3>1
    <3> QED BY <3>1, <3>2
  <2> QED BY <2>1 DEF Counted
<1>4. IsFiniteSet(Counted(f, S))
  BY <1>2, <1>3, FS_Subset
<1> QED BY <1>4, FS_CardinalityType DEF Counted, Sum

\* Only the counts on the rows of S matter.
LEMMA SumSame ==
  \A f, g, S : (\A r \in S : f[r] = g[r]) => Sum(f, S) = Sum(g, S)
<1> TAKE f, g, S
<1> HAVE \A r \in S : f[r] = g[r]
<1>1. {{r} \X (1 .. f[r]) : r \in S} = {{r} \X (1 .. g[r]) : r \in S}
  OBVIOUS
<1> QED BY <1>1 DEF Sum

\* Nothing counted is nothing.
LEMMA SumNone ==
  \A f, S : (\A r \in S : f[r] = 0) => Sum(f, S) = 0
<1> TAKE f, S
<1> HAVE \A r \in S : f[r] = 0
<1>1. \A r \in S : {r} \X (1 .. f[r]) = {}
  OBVIOUS
<1>2. UNION {{r} \X (1 .. f[r]) : r \in S} = {}
  BY <1>1
<1> QED BY <1>2, FS_EmptySet DEF Sum

\* One row counts what it counts.
LEMMA SumOfOne ==
  \A f : \A r \in Slots : Counts(f) => Sum(f, {r}) = f[r] /\ f[r] \in Nat
<1> TAKE f
<1> TAKE r \in Slots
<1> HAVE Counts(f)
<1> DEFINE n == f[r]
<1>1. n \in Nat
  BY DEF Counts
<1>2. IsFiniteSet(1 .. n) /\ Cardinality(1 .. n) = n
  <2> HIDE DEF n
  <2>1. 1 \in Int /\ n \in Int
    BY <1>1
  <2>2. IsFiniteSet(1 .. n) /\ Cardinality(1 .. n) = IF 1 > n THEN 0 ELSE n - 1 + 1
    BY <2>1, FS_Interval
  <2> QED BY <1>1, <2>2
<1>3. IsFiniteSet({r}) /\ Cardinality({r}) = 1
  BY FS_Singleton
<1>4. Cardinality({r} \X (1 .. n)) = Cardinality({r}) * Cardinality(1 .. n)
  BY <1>2, <1>3, FS_Product
<1>5. Cardinality({r}) * Cardinality(1 .. n) = n
  BY <1>1, <1>2, <1>3
<1>6. UNION {{s} \X (1 .. f[s]) : s \in {r}} = {r} \X (1 .. n)
  OBVIOUS
<1> QED BY <1>1, <1>4, <1>5, <1>6 DEF Sum

\* Two sets of rows count together what they count apart.
LEMMA SumOfParts ==
  \A f, A, B :
    Counts(f) /\ A \subseteq Slots /\ B \subseteq Slots /\ A \cap B = {}
    => Sum(f, A \cup B) = Sum(f, A) + Sum(f, B)
<1> TAKE f, A, B
<1> HAVE Counts(f) /\ A \subseteq Slots /\ B \subseteq Slots /\ A \cap B = {}
<1>1. Counted(f, A \cup B) = Counted(f, A) \cup Counted(f, B)
  BY DEF Counted
<1>2. Counted(f, A) \cap Counted(f, B) = {}
  <2>1. ASSUME NEW u \in Counted(f, A), u \in Counted(f, B) PROVE FALSE
    <3>1. PICK a \in A : u \in {a} \X (1 .. f[a])
      BY <2>1 DEF Counted
    <3>2. PICK b \in B : u \in {b} \X (1 .. f[b])
      BY <2>1 DEF Counted
    <3>3. u[1] = a /\ u[1] = b
      BY <3>1, <3>2
    <3> QED BY <3>3
  <2> QED BY <2>1
<1>3. /\ IsFiniteSet(Counted(f, A)) /\ IsFiniteSet(Counted(f, B))
      /\ Sum(f, A) = Cardinality(Counted(f, A)) /\ Sum(f, A) \in Nat
      /\ Sum(f, B) = Cardinality(Counted(f, B)) /\ Sum(f, B) \in Nat
      /\ Sum(f, A \cup B) = Cardinality(Counted(f, A \cup B))
  <2>1. A \cup B \subseteq Slots
    OBVIOUS
  <2> QED BY <2>1, SumType
<1>4. Cardinality(Counted(f, A) \cup Counted(f, B))
      = Cardinality(Counted(f, A)) + Cardinality(Counted(f, B)) - Cardinality(Counted(f, A) \cap Counted(f, B))
  BY <1>3, FS_Union
<1>5. Cardinality(Counted(f, A) \cap Counted(f, B)) = 0
  BY <1>2, FS_EmptySet
<1>6. Sum(f, A \cup B) = Cardinality(Counted(f, A) \cup Counted(f, B))
  BY <1>1, <1>3
<1>7. Sum(f, A \cup B) = Sum(f, A) + Sum(f, B) - 0
  BY <1>3, <1>4, <1>5, <1>6
<1> QED BY <1>3, <1>7

\* On the rows of S, f and g differ at r if at all.
OnlyAt(f, g, S, r) == r \in S /\ \A s \in S \ {r} : g[s] = f[s]

\* One row changes its count: the sum changes by as much.
LEMMA SumChanges ==
  \A f, g, S, r :
    Counts(f) /\ Counts(g) /\ S \subseteq Slots /\ OnlyAt(f, g, S, r)
    => /\ Sum(f, S) \in Nat /\ Sum(g, S) \in Nat /\ f[r] \in Nat /\ g[r] \in Nat
       /\ Sum(g, S) = Sum(f, S) - f[r] + g[r]
<1> TAKE f, g, S, r
<1> HAVE Counts(f) /\ Counts(g) /\ S \subseteq Slots /\ OnlyAt(f, g, S, r)
<1> USE DEF OnlyAt
<1> DEFINE B == S \ {r}
<1>1. r \in Slots /\ {r} \subseteq Slots /\ B \subseteq Slots /\ {r} \cap B = {} /\ {r} \cup B = S
  OBVIOUS
<1>2. Sum(g, B) = Sum(f, B)
  BY SumSame
<1> HIDE DEF B
<1>3. Sum(f, {r}) = f[r] /\ f[r] \in Nat /\ Sum(g, {r}) = g[r] /\ g[r] \in Nat
  BY <1>1, SumOfOne
<1>4. Sum(f, {r} \cup B) = Sum(f, {r}) + Sum(f, B) /\ Sum(g, {r} \cup B) = Sum(g, {r}) + Sum(g, B)
  BY <1>1, SumOfParts
<1>5. Sum(f, B) \in Nat
  BY <1>1, SumType
<1>6. Sum(f, S) = f[r] + Sum(f, B) /\ Sum(g, S) = g[r] + Sum(f, B)
  BY <1>1, <1>2, <1>3, <1>4
<1> QED BY <1>3, <1>5, <1>6

-----------------------------------------------------------------------------
\* Only nodes have anything to mine: a row that was a node's would be reused
\* with its rest, were it not so.
Ores == \A r \in Slots : amount[r] # 0 => kind[r] = "node"

LEMMA OresNext == OrdersInv /\ Ores /\ [Next]_vars => Ores'
<1> SUFFICES ASSUME OrdersInv, Ores, [Next]_vars PROVE Ores'
  OBVIOUS
<1>0. StoreTypes /\ Rooted
  BY DEF OrdersInv, Rooted
<1>1. ASSUME NEW r \in Slots, NEW k, r \in Free, Spawn(r, k) PROVE Ores'
  BY <1>0, <1>1 DEF Spawn, Ores, StoreTypes
<1>2. ASSUME amount' = amount, \A s \in Slots : kind[s] = "node" => kind'[s] = "node" PROVE Ores'
  BY <1>2 DEF Ores
<1>3. ASSUME NEW t \in Slots, kind[t] # "node", Despawn(t), amount' = amount PROVE Ores'
  BY <1>0, <1>3 DEF Ores, Despawn, StoreTypes
<1>4. ASSUME NEW r \in Slots,
             ConfirmPlacement(r) \/ SpawnGhoul(r) \/ \E b \in Slots, k \in {"worker", "soldier"} : Deliver(b, r, k)
      PROVE  Ores'
  BY <1>1, <1>4 DEF ConfirmPlacement, SpawnGhoul, Deliver
<1>5. ASSUME NEW r \in Slots, CancelConstruction(r) PROVE Ores'
  BY <1>3, <1>5 DEF CancelConstruction
<1>6. ASSUME NEW r \in Slots, NEW t \in Slots, Fire(r, t) PROVE Ores'
  <2>1. kind[t] # "node"
    BY <1>6, TargetParts DEF Player
  <2> QED BY <1>2, <1>3, <1>6, <2>1 DEF Fire, ApplyDamage
<1>7. CASE Construction
  <2>1. PICK done \in SUBSET Of({"site"}), stalled \in SUBSET Of({"site"}) :
          kind' = [r \in Slots |-> IF r \in done THEN "hq" ELSE IF r \in stalled THEN None ELSE kind[r]]
    BY <1>7 DEF Construction
  <2> QED BY <1>2, <1>7, <2>1 DEF Construction, Of
<1>8. ASSUME NEW r \in Slots, Load(r) PROVE Ores'
  <2>1. /\ amount' = [amount EXCEPT ![order[r].node.row] = @ - Take(order[r].node.row)]
        /\ amount[order[r].node.row] > 0 /\ Gatherer(r) /\ kind' = kind
    BY <1>8 DEF Load, Step
  <2>2. order[r].node.row \in Slots
    BY <2>1, GathererParts
  <2>3. amount[order[r].node.row] # 0
    BY <1>0, <2>1, <2>2 DEF StoreTypes
  <2> QED BY <1>0, <2>1, <2>2, <2>3 DEF Ores, StoreTypes
<1>9. ASSUME NEW r \in Slots, NEW o, Obey(r, o) PROVE Ores'
  BY <1>2, <1>9 DEF Obey, store
<1>10. ASSUME NEW r \in Slots, NEW o, Step(r, o), amount' = amount PROVE Ores'
  BY <1>2, <1>10 DEF Step
<1>11. ASSUME NEW r \in Slots, NEW t \in Slots,
              OrderGather(r, t) \/ OrderAttack(r, t) \/ OrderWalk(r) \/ CmdStop(r)
       PROVE  Ores'
  BY <1>9, <1>11 DEF OrderGather, OrderAttack, OrderWalk, CmdStop
<1>12. ASSUME NEW r \in Slots, KeepGoing(r) \/ Arrive(r) \/ GiveUp(r) \/ Mine(r) \/ Bank(r)
       PROVE  Ores'
  BY <1>10, <1>12 DEF KeepGoing, Arrive, GiveUp, Mine, Bank
<1>13. ASSUME NEW r \in Slots, HoldFire(r) PROVE Ores'
  BY <1>2, <1>13 DEF HoldFire
<1>14. CASE BeginTick \/ DeferWaves \/ EndProduction \/ EndGather \/ Movement
  BY <1>2, <1>14 DEF BeginTick, DeferWaves, EndProduction, EndGather, Movement, store
<1>15. CASE UNCHANGED vars
  BY <1>2, <1>15 DEF vars, store
<1> QED BY <1>4, <1>5, <1>6, <1>7, <1>8, <1>11, <1>12, <1>13, <1>14, <1>15 DEF Next

\* What a step may do to the total.
Accounted == Total' = Total - Sum(carry, Dying \cup Loading)

\* The amounts and the cargo are counts, now and after the step.
LEMMA CargoCounts == StoreTypes => Counts(amount) /\ Counts(carry) /\ Alive \subseteq Slots
<1> SUFFICES ASSUME StoreTypes PROVE Counts(amount) /\ Counts(carry)
  BY DEF Alive
<1>1. Seam \in Nat /\ Capacity \in Nat
  BY BattleAssumption
<1> QED BY <1>1 DEF StoreTypes, Counts

\* A death takes its cargo with it, and no ore.
LEMMA DeathsAccount ==
  ASSUME OrdersInv, Ores, Alive' \subseteq Alive, UNCHANGED <<amount, carry, stock>>,
         \A r \in Alive : kind[r] = "node" => kind'[r] # None
  PROVE  Accounted
<1>1. Counts(amount) /\ Counts(carry) /\ Alive \subseteq Slots /\ stock \in Nat
  BY CargoCounts DEF OrdersInv, Rooted, OtherTypes
<1>2. Loading = {} /\ Dying \cup Loading = Dying
  BY DEF Loading
<1>3. /\ Dying \subseteq Slots /\ Alive' \subseteq Slots
      /\ Dying \cap Alive' = {} /\ Alive = Dying \cup Alive'
  BY <1>1 DEF Dying, Alive
<1>4. \A r \in Dying : amount[r] = 0
  BY <1>1 DEF Dying, Ores
<1>5. Sum(amount, Dying) = 0
  BY <1>4, SumNone
<1>6. Sum(amount, Alive) = Sum(amount, Dying) + Sum(amount, Alive')
  BY <1>1, <1>3, SumOfParts
<1>7. Sum(carry, Alive) = Sum(carry, Dying) + Sum(carry, Alive')
  BY <1>1, <1>3, SumOfParts
<1>8. Sum(amount, Alive') \in Nat /\ Sum(carry, Alive') \in Nat /\ Sum(carry, Dying) \in Nat
  BY <1>1, <1>3, SumType
<1>9. Total' = stock + Sum(amount, Alive') + Sum(carry, Alive')
  BY DEF Total, Sum
<1> QED BY <1>1, <1>2, <1>5, <1>6, <1>7, <1>8, <1>9 DEF Accounted, Total

\* Who is new brings nothing.
LEMMA BirthsAccount ==
  ASSUME OrdersInv, Ores, NEW r \in Free, NEW k \in Player \cup {"ghoul"}, Spawn(r, k), stock' = stock
  PROVE  Accounted
<1>0. /\ StoreTypes /\ StoreTypes' /\ r \in Slots /\ kind[r] = None /\ kind'[r] = k /\ k # None
      /\ \A s \in Slots : s # r => kind'[s] = kind[s]
  BY SpawnKeeps, BattleAssumption DEF OrdersInv, Rooted, Free, Kinds
<1>1. /\ Counts(amount) /\ Counts(carry) /\ Alive \subseteq Slots /\ stock \in Nat
  BY <1>0, CargoCounts DEF OrdersInv, OtherTypes
<1>2. Counts(amount') /\ Counts(carry')
  <2>1. (StoreTypes => Counts(amount) /\ Counts(carry) /\ Alive \subseteq Slots)'
    BY CargoCounts, PTL
  <2> QED BY <1>0, <2>1 DEF Counts
<1>3. amount' = amount /\ carry' = [carry EXCEPT ![r] = 0]
  <2>1. amount[r] = 0
    BY <1>0, BattleAssumption DEF Ores, Kinds
  <2> QED BY <1>0, <2>1 DEF Spawn, StoreTypes
<1>4. Dying \cup Loading = {}
  BY <1>0, <1>3 DEF Dying, Loading, Alive
<1>5. Sum(carry, Dying \cup Loading) = 0
  BY <1>4, SumNone
<1>6. Alive' = {r} \cup Alive /\ {r} \cap Alive = {} /\ {r} \subseteq Slots
  BY <1>0 DEF Alive
<1>7. Sum(amount', {r} \cup Alive) = Sum(amount', {r}) + Sum(amount', Alive)
  BY <1>1, <1>2, <1>6, SumOfParts
<1>8. Sum(carry', {r} \cup Alive) = Sum(carry', {r}) + Sum(carry', Alive)
  BY <1>1, <1>2, <1>6, SumOfParts
<1>9. amount'[r] = 0 /\ carry'[r] = 0 /\ \A s \in Alive : amount'[s] = amount[s] /\ carry'[s] = carry[s]
  BY <1>0, <1>3, <1>6, BattleAssumption DEF Ores, Kinds, StoreTypes, Alive
<1>10. Sum(amount', {r}) = 0 /\ Sum(carry', {r}) = 0
  BY <1>9, SumNone
<1>11. Sum(amount', Alive) = Sum(amount, Alive) /\ Sum(carry', Alive) = Sum(carry, Alive)
  BY <1>9, SumSame
<1>12. Sum(amount, Alive) \in Nat /\ Sum(carry, Alive) \in Nat
  BY <1>1, SumType
<1>13. Total' = stock' + Sum(amount', Alive') + Sum(carry', Alive')
  BY DEF Total, Sum
<1> QED BY <1>1, <1>5, <1>6, <1>7, <1>8, <1>10, <1>11, <1>12, <1>13 DEF Accounted, Total

\* A load is what the node loses; what its carrier still had is lost.
LEMMA LoadAccounts ==
  ASSUME OrdersInv, Ores, NEW r \in Slots, Load(r), OrdersInv'
  PROVE  Accounted
<1> DEFINE n == order[r].node.row
           load == Take(n)
<1>1. /\ amount' = [amount EXCEPT ![n] = amount[n] - load] /\ carry' = [carry EXCEPT ![r] = load]
      /\ stock' = stock /\ kind' = kind /\ amount[n] > 0 /\ Gatherer(r) /\ todo' = todo \ {r}
  BY DEF Load, Step, Done
<1>2. n \in Slots /\ r \in todo
  BY <1>1, GathererParts DEF Gatherer
<1>3. /\ StoreTypes /\ StoreTypes' /\ stock \in Nat /\ Alive \subseteq Slots /\ Alive' = Alive
      /\ Counts(amount) /\ Counts(carry)
  BY <1>1, CargoCounts DEF OrdersInv, Rooted, OtherTypes, Alive
<1>4. Counts(amount') /\ Counts(carry')
  <2>1. (StoreTypes => Counts(amount) /\ Counts(carry) /\ Alive \subseteq Slots)'
    BY CargoCounts, PTL
  <2> QED BY <1>3, <2>1 DEF Counts
<1>5. load \in Nat /\ load # 0 /\ amount[n] \in Nat
  BY <1>1, <1>2, <1>3, BattleAssumption DEF Take, StoreTypes
<1>6. n \in Alive
  <2>1. kind[n] = "node"
    BY <1>1, <1>2, <1>5 DEF Ores
  <2> QED BY <1>2, <2>1, BattleAssumption DEF Alive, Kinds
<1>7. r \in Alive
  <2>1. order[r] # Idle
    BY <1>1, NamesOfOrders DEF Gatherer, Gathering
  <2>2. kind[r] \in {"worker", "soldier"}
    BY <2>1 DEF OrdersInv, Rooted, Bearers
  <2> QED BY <2>2, BattleAssumption DEF Alive, Kinds, Player
<1> HIDE DEF load, n
<1>8. /\ \A s \in Slots : amount'[s] = IF s = n THEN amount[n] - load ELSE amount[s]
      /\ \A s \in Slots : carry'[s] = IF s = r THEN load ELSE carry[s]
  BY <1>1, <1>3 DEF StoreTypes
<1>9. Loading = {r} /\ Dying = {}
  <2>1. amount'[n] # amount[n]
    BY <1>2, <1>5, <1>8
  <2>2. todo \ todo' = {r}
    BY <1>1, <1>2
  <2>3. Dying = {}
    BY <1>1 DEF Dying, Alive
  <2> QED BY <2>1, <2>2, <2>3 DEF Loading
<1>10. Sum(carry, Dying \cup Loading) = carry[r] /\ carry[r] \in Nat
  <2>1. Dying \cup Loading = {r}
    BY <1>9
  <2> QED BY <1>3, <2>1, SumOfOne
<1>11. /\ Sum(amount', Alive) = Sum(amount, Alive) - amount[n] + amount'[n]
       /\ Sum(amount, Alive) \in Nat
  <2>1. OnlyAt(amount, amount', Alive, n)
    BY <1>3, <1>6, <1>8 DEF OnlyAt
  <2> QED BY <1>3, <1>4, <2>1, SumChanges
<1>12. /\ Sum(carry', Alive) = Sum(carry, Alive) - carry[r] + carry'[r]
       /\ Sum(carry, Alive) \in Nat
  <2>1. OnlyAt(carry, carry', Alive, r)
    BY <1>3, <1>7, <1>8 DEF OnlyAt
  <2> QED BY <1>3, <1>4, <2>1, SumChanges
<1>13. amount'[n] = amount[n] - load /\ carry'[r] = load
  BY <1>2, <1>8
<1>14. Total' = stock' + Sum(amount', Alive') + Sum(carry', Alive')
  BY DEF Total, Sum
<1> QED BY <1>1, <1>3, <1>5, <1>10, <1>11, <1>12, <1>13, <1>14 DEF Accounted, Total

\* What is banked is what was carried.
LEMMA BankAccounts ==
  ASSUME OrdersInv, Ores, NEW r \in Slots, Bank(r), OrdersInv'
  PROVE  Accounted
<1>1. /\ amount' = amount /\ carry' = [carry EXCEPT ![r] = 0] /\ stock' = stock + carry[r]
      /\ kind' = kind /\ Gatherer(r)
  BY DEF Bank, Emptied, Step
<1>2. /\ StoreTypes /\ StoreTypes' /\ stock \in Nat /\ Alive \subseteq Slots /\ Alive' = Alive
      /\ Counts(amount) /\ Counts(carry)
  BY <1>1, CargoCounts DEF OrdersInv, Rooted, OtherTypes, Alive
<1>3. Counts(carry')
  <2>1. (StoreTypes => Counts(amount) /\ Counts(carry) /\ Alive \subseteq Slots)'
    BY CargoCounts, PTL
  <2> QED BY <1>2, <2>1 DEF Counts
<1>4. r \in Alive
  <2>1. order[r] # Idle
    BY <1>1, NamesOfOrders DEF Gatherer, Gathering
  <2>2. kind[r] \in {"worker", "soldier"}
    BY <2>1 DEF OrdersInv, Rooted, Bearers
  <2> QED BY <2>2, BattleAssumption DEF Alive, Kinds, Player
<1>5. Dying \cup Loading = {}
  BY <1>1 DEF Dying, Loading, Alive
<1>6. Sum(carry, Dying \cup Loading) = 0
  BY <1>5, SumNone
<1>7. \A s \in Slots : carry'[s] = IF s = r THEN 0 ELSE carry[s]
  BY <1>1, <1>2 DEF StoreTypes
<1>8. /\ Sum(carry', Alive) = Sum(carry, Alive) - carry[r] + carry'[r]
      /\ Sum(carry, Alive) \in Nat /\ carry[r] \in Nat
  <2>1. OnlyAt(carry, carry', Alive, r)
    BY <1>2, <1>4, <1>7 DEF OnlyAt
  <2> QED BY <1>2, <1>3, <2>1, SumChanges
<1>9. Sum(amount, Alive) \in Nat
  BY <1>2, SumType
<1>10. Total' = stock' + Sum(amount', Alive') + Sum(carry', Alive')
  BY DEF Total, Sum
<1> QED BY <1>1, <1>2, <1>6, <1>7, <1>8, <1>9, <1>10 DEF Accounted, Total

LEMMA CargoNext == OrdersInv /\ OrdersInv' /\ Ores /\ [Next]_vars => Accounted
<1> SUFFICES ASSUME OrdersInv, OrdersInv', Ores, [Next]_vars PROVE Accounted
  OBVIOUS
<1>0. StoreTypes /\ Rooted
  BY DEF OrdersInv, Rooted
<1>1. ASSUME kind' = kind, UNCHANGED <<amount, carry, stock>> PROVE Accounted
  <2>1. Alive' = Alive /\ \A r \in Alive : kind'[r] # None
    BY <1>1 DEF Alive
  <2> QED BY <1>1, <2>1, DeathsAccount
<1>2. ASSUME NEW t \in Slots, kind[t] # "node", Despawn(t), UNCHANGED <<amount, carry, stock>>
      PROVE  Accounted
  <2>1. \A s \in Slots : kind'[s] = IF s = t THEN None ELSE kind[s]
    BY <1>0, <1>2 DEF Despawn, StoreTypes
  <2>2. Alive' \subseteq Alive /\ \A r \in Alive : kind[r] = "node" => kind'[r] # None
    BY <1>2, <2>1 DEF Alive
  <2> QED BY <1>2, <2>2, DeathsAccount
<1>3. ASSUME NEW r \in Slots, ConfirmPlacement(r) PROVE Accounted
  BY <1>3, BirthsAccount DEF ConfirmPlacement, Player
<1>4. ASSUME NEW r \in Slots, SpawnGhoul(r) PROVE Accounted
  BY <1>4, BirthsAccount DEF SpawnGhoul
<1>5. ASSUME NEW r \in Slots, NEW b \in Slots, NEW k \in {"worker", "soldier"}, Deliver(b, r, k)
      PROVE  Accounted
  BY <1>5, BirthsAccount DEF Deliver, Player
<1>6. ASSUME NEW r \in Slots, CancelConstruction(r) PROVE Accounted
  BY <1>2, <1>6 DEF CancelConstruction
<1>7. ASSUME NEW r \in Slots, NEW t \in Slots, Fire(r, t) PROVE Accounted
  <2>1. kind[t] # "node"
    BY <1>7, TargetParts DEF Player
  <2> QED BY <1>1, <1>2, <1>7, <2>1 DEF Fire, ApplyDamage
<1>8. CASE Construction
  <2>1. PICK done \in SUBSET Of({"site"}), stalled \in SUBSET Of({"site"}) :
          kind' = [r \in Slots |-> IF r \in done THEN "hq" ELSE IF r \in stalled THEN None ELSE kind[r]]
    BY <1>8 DEF Construction
  <2>2. Alive' \subseteq Alive /\ \A r \in Alive : kind[r] = "node" => kind'[r] # None
    BY <2>1 DEF Of, Alive
  <2>3. UNCHANGED <<amount, carry, stock>>
    BY <1>8 DEF Construction
  <2> QED BY <2>2, <2>3, DeathsAccount
<1>9. ASSUME NEW r \in Slots, Load(r) PROVE Accounted
  BY <1>9, LoadAccounts
<1>10. ASSUME NEW r \in Slots, Bank(r) PROVE Accounted
  BY <1>10, BankAccounts
<1>11. ASSUME NEW r \in Slots, NEW o, Obey(r, o) PROVE Accounted
  BY <1>1, <1>11 DEF Obey, store
<1>12. ASSUME NEW r \in Slots, NEW t \in Slots,
              OrderGather(r, t) \/ OrderAttack(r, t) \/ OrderWalk(r) \/ CmdStop(r)
       PROVE  Accounted
  BY <1>11, <1>12 DEF OrderGather, OrderAttack, OrderWalk, CmdStop
<1>13. ASSUME NEW r \in Slots, KeepGoing(r) \/ Arrive(r) \/ GiveUp(r) \/ Mine(r)
       PROVE  Accounted
  BY <1>1, <1>13 DEF KeepGoing, Arrive, GiveUp, Mine, Step
<1>14. ASSUME NEW r \in Slots, HoldFire(r) PROVE Accounted
  BY <1>1, <1>14 DEF HoldFire
<1>15. CASE BeginTick \/ DeferWaves \/ EndProduction \/ EndGather \/ Movement
  BY <1>1, <1>15 DEF BeginTick, DeferWaves, EndProduction, EndGather, Movement, store
<1>16. CASE UNCHANGED vars
  BY <1>1, <1>16 DEF vars, store
<1> QED BY <1>3, <1>4, <1>5, <1>6, <1>7, <1>8, <1>9, <1>10, <1>12, <1>13, <1>14, <1>15, <1>16 DEF Next

\* Nothing is mined or banked twice, and cargo is lost only with its carrier or
\* under a new load, whoever dies and whatever is built meanwhile (world.rs,
\* gather, apply_death and construction).
THEOREM CargoIsAccounted == Spec => CargoAccounted
<1>1. Init => Ores
  BY DEF Init, Ores
<1>2. Spec => [](OrdersInv /\ Ores)
  BY <1>1, OresNext, OrdersAlways, PTL DEF Spec
<1>3. Spec => [][Accounted]_vars
  BY <1>2, CargoNext, PTL DEF Spec
<1> QED BY <1>3, PTL DEF CargoAccounted, Accounted
=============================================================================
