# TLA+ models of millions-must-die

This directory holds TLA+ specifications of the engine and tools in this
repository, the TLC configurations that check them on small instances, and
TLAPS proofs of the properties that can be proved for every instance.
`PROJECT.json` lists the components, the runs, the mutants each property is
tested against, the source lines each definition stands for, the hazards and
the theorems.

## 1. The system

The repository is a deterministic RTS engine (`crates/mmd-engine`), an
application around it (`src/`), a lab controller that provisions and gates
test machines (`tools/mmd-lab`) and asset generators (`xtask`).

| Component | State it keeps | Operations | Interacts with | Hard behaviour |
|---|---|---|---|---|
| Separation worker pool `sim/pool.rs` | job cell, two barriers, epoch, report counter, poison, shutdown and in-use flags | `run`, `drop`, the worker loop | the ticking thread; clones of a `Simulation` share it | threads, panics, drop at any time |
| Flow-field pool `nav/field_pool.rs` | eight fields, keys, ages, epochs, the mask | `acquire`, `is_current`, `replace_blocked_mask`, `set_blocked` | every order caches handles into it | stale handles, eviction, epoch wrap |
| Flow field `nav/flow_field.rs` | costs and vectors | `rebuild_in_place` | the pool | a pure algorithm |
| Player economy `rts/{economy,production,build}.rs`, `rts/world.rs` | stock, supply, sites, queues, stall counts, ghost, enemy objective | the player's commands; the construction, production, gather, combat and recount systems | all systems share `live_scratch` and the entity rows | recycled rows, books that must balance across systems |
| Entity store `rts/entity.rs` | rows, generations, free list | `spawn`, `despawn`, lookups | everything | stale ids |
| Orders `rts/orders.rs`, `world.rs` | one order per row | `order_*`, `cmd_*`, the movement step | fields, sites, nodes, targets | an order outlives what it names |
| Gathering `world.rs` | phases of a round trip, cargo, node amounts | `gather` | stock, drop-offs | nodes and drop-offs vanish |
| Combat and waves `rts/combat.rs`, `world.rs` | hp, cooldowns, wave cursor and backlog | `combat`, `apply_damage`, `enemy_wave_system` | economy, store | deferral on a full store |
| Movement and gather-pair exits `world.rs`, `rts/collision.rs` | positions, pair markers | `movement`, `step_pair_transition` | static masks | mostly geometry |
| Static masks, formations, selection, HUD, minimap, pack | derived tables | rebuilds, picks | world, application | mostly pure functions |
| Horde simulation `sim/*` | agents, grid | `tick` | worker pool | floating point |
| Benchmark `bench/*` | frames in flight, statistics | fence queue, runner | renderer | a bounded queue |
| Settings store `src/rts_settings.rs` | three files | `load`, `save` | session | crash between renames |
| Session, window, audio `src/rts_*.rs` | settings, window mode, claims, voices, hashes | run loop, transactions, focus | store, world, SDL | rollback that fails |
| Lab recovery `tools/mmd-lab/src/*_recovery.rs` | phase, digests, identities, quarantine | `apply` | controllers | events in any order |
| Lab gates, archive, release; renderer; scenario loader; generators | documents, GPU objects, files | checks and I/O | - | out of scope for a state model |

What makes each correct: the pool never races on its cell, never loses a
panic, always comes back; a handle the field pool accepts leads where its
holder wants; the economy's books balance and nothing of a row's former
tenant survives; a settings file is never lost; no order
outlives what it serves and no enemy is lost in a deferral; an exemption from
collision ends; the window, the mixer and the disk are as the settings say
whatever fails; a machine never becomes ready, and nothing is merged, without
its evidence.

## 2. Modules

### The engine

* `SeparationPool` - `SeparationPool::{new, run, drop}` and `worker`. Every
  thread has a program counter; an action is one atomic access, one barrier
  arrival or one chunk. A barrier is the set of parked threads, emptied by the
  last arrival (`Arrive`, external: `std::sync::Barrier`). A chunk completes or
  panics. `Callers` are the clones of a `Simulation` that share the pool's
  `Arc`. The stale load the worker's comment worries about is kept:
  `SeeShutdown` does not require the epoch to be unmoved. `broken` and `result`
  are history: whose chunk panicked, and how `run` ended.
* `FieldPool` - the slots with keys, ages and epochs, and the orders that cache
  handles. `Hit`, `Miss` and `Refuse` are the three ways through `acquire`;
  `OrderGroup`, `Repath`, `Walk`, `EndOrder` are its callers in `world.rs`. A
  field's contents are the pair (destination, mask) it was built from.
  `builds` and `misled` are history. `FieldCache` is the abstract promise: the
  last `Capacity` destinations used since the mask changed, and that whoever is
  sent somewhere makes that destination the most recent. The refinement mapping
  (`Cache`, with `Held`, `Before`, `Bound`) stands at the end of `FieldPool`: the
  destinations with a key, their order by the ages of their slots, and where each
  mover is bound.
* `Economy` - the player's commands and one tick as seven actions in the code's
  order: `StartTick` (collect `live_scratch`), `Construction`, `Production`,
  `Gather`, `EnemyAI`, `Combat`, `Recount`. Each is the whole system: the
  passes of `construction`, its drain of stalled sites and its clearing of
  orders are one action. `ent`, `gen` are the rows of the entity store; an id is
  a row and its generation. Geometry is a choice: which builders have arrived,
  which footprints can be cleared, which row a unit takes or that it finds
  none, who dies. What gathering deposits is a choice too. `orphaned` is
  history. `MCEconomy` holds the instance's tables.
* `Battle` - the half of the tick that `Economy` leaves to choice: every phase
  of a gatherer's round trip, the enemy's waves with their cursor and backlog,
  and combat, over one bounded store. `gather` and `combat` take one entity a
  step, in *any* order: the code's order, that of `live_scratch`, is one of
  them (and that it holds the living rows is `ScratchExact`). Choices: who is
  in reach, which drop-off or enemy is nearest, what the planners find free.
  Simplified: a shot takes one hit point; all sites are HQ sites; a turret is
  a soldier that takes no orders; there is one resource. Left out: receipts,
  loss counters and `first_combat_tick`. Where both modules describe the same
  code (`Despawned` and `Despawn`, `Construction`), each keeps what its own
  properties are about; the rows and ids are the same in both.
* `GatherPairs` - the one byte a pair of rows has, which says whether their
  bodies may overlap. `CollectAndMark` is the head of `movement`: syncing
  recycled rows, collecting bodies, marking the pairs that gather. Then the
  pass visits the pairs in order of the rows, each with one of `PassOver`,
  `HasLeft`, `Separate`, `Relocate` and `Strand`; then everybody walks (`Walk`
  with the bodies it shoves, `Stand`). There are no coordinates: `merged` is
  the set of pairs that overlap, and a move may change only the pairs of the
  bodies it moves, only as the gates it passes allow - so a walk never ends
  inside a body that is hard to it, and a separation step may overlap those
  whose byte is `Active`. Which body goes first and whether there is room are
  choices. Between two ticks units change orders, die, are spawned and are
  evacuated. The repair pass of the test build is left out: this is the
  shipping build. `since`, `reported` and `crossed` are history.

### The application

* `SettingsStore` - `load` and `save`, one system call per step, for one or several
  instances of the game. A directory maps the three names to inodes; content
  that was written and not synced may be lost with the power; every call of a
  save may fail; a game may be killed anywhere. A setting is a value: valid,
  malformed (`Bad`) or cut short (`Torn`). `mem` is what the session runs
  with: `commit_setting_change` publishes a value once its save has returned
  `Ok`. `SettingsFile` is what all of this promises a single game: a register
  whose writes take effect at one instant, with reports that are true.
* `LiveSettings` - one settings change of a running game: the window's calls
  one by one (each mode has its list, and a native call that fails may or may
  not have acted), then the mixer, then the save, then publication; and what
  is undone, in reverse, when one of them fails. The store appears here by its
  promise, the register.
* `Session` - the event loop around it: batches of events, the pause menu and
  the settings page with presses, a numeric field and a slider, focus, the two
  staged changes and when they are drained, the frame, the hashes, the sink's
  failure and every way a run ends. It extends `LiveSettings`, whose
  transaction takes its steps while the loop waits for it. Assumed of the
  window system: keys are released before the focus goes, and buttons and keys
  go down only in a window that has it.

### The lab

* `Recovery` - one host and the events its external controller reports, in any
  order, with what the protocol does to each: move on, refuse, quarantine. The
  three protocols (Ubuntu, Windows, macOS) are one module that differs in how
  the disk is rewritten; `used` and `passed` are history: what is on the disk,
  and which checks the host has passed since its restore began.
* `MergeGate` - extends it with runs: a candidate runs on a ready host, the
  host is to be restored at once, evidence becomes a verdict, and the lanes are
  folded into a decision. One host of any kind is followed; what the other two
  lanes collected is an input, of which at most one is not clean. Evidence is
  the set of what is wrong with it. A set-up that fails is a lane that is
  missing, and lanes with different archives are covered by one of them having
  run another than the expected one.

### Modules for TLC and proofs

`MCEconomy` and `MCBattle` hold the tables of their instances and `MCFieldPool`
its symmetry; the others are instantiated by their cfg alone. `X_proofs` extends
`X` and holds its theorems (section 5).

## 3. Runs, bounds and what they show

| Run | Instance | Shows |
|---|---|---|
| `pool_clones` | 2 workers, 2 clones, 3 ticks, panics anywhere | the cell is never raced on, chunks stay inside their owner's tick, reports are complete; a tick alone on the pool learns of its panics and of no other; every `run` and the drop return |
| `pool_lost_panic` | 1 worker, 2 clones, 2 ticks | violation, see section 6 |
| `fields_handles` | 2 slots, 3 cells, 2 movers, a wall that comes and goes, 5 acquires, epochs of 2 bits | what `is_current` accepts, also after epochs wrap; zero is never issued; the pool implements `FieldCache` |
| `economy_books` | 3 rows, 1 reuse of each, 2 resources, stall bound 2 | supply, cap, stock, scratch list and Build orders agree in every phase; nothing is inherited or conjured; the objective follows buildings; no site is attended for ever |
| `world_battle` | 4 rows, waves of 2 and 1, a seam of 3, loads of 2, 2 shots a Ghoul | no Ghoul is lost or doubled, no cargo counted twice, no order outlives its subject |
| `pairs_exits` | 3 rows, bound 3, one body shoved at a time | exemptions are spent, and inherited by nobody; every forbidden overlap was reported or made by the pass |
| `pairs_crossed` | the same | violation, see section 6 |
| `settings_one_game` | 1 game, 3 settings, 3 inodes | the files are a register, whatever fails and whenever game or machine dies |
| `settings_two_games` | 2 games, 5 inodes | violation, see section 6 |
| `session_live` | 2 volumes, everything else whole | window, mixer, grab and disk are as the settings say; no pause without a menu; the hash is of the last frame; faults end the run |
| `session_stuck_pan` | the same | violation, see section 6 |
| `lab_merge` | 2 identities, 2 defects at once | ready hosts were restored; a merge is earned by three clean lanes |

Bounds. `MaxTicks` bounds published jobs; three give a tick before, between and
after a panic and a drop after each. `MaxClock` bounds calls of `acquire`: with
two slots, four are enough to fill, evict, invalidate and re-acquire while both
movers hold handles, and with epochs modulo 4 and zero skipped, five wrap.
`MaxGen` bounds the reuse of a row: a row's tenant, the next, and the end. What
can be inherited comes from the tenant before, so one reuse is enough. `MaxStock` stands for 2^32 - 1:
a deposit that would make the player own more is left out, so saturation never
eats a refund (`Gather` names this bound; in the code it takes four billion
crystals). Production and build times are one and two ticks and the stall bound
two: long enough for a site to stop one tick short of its target and for a
failure that is not yet the last. `MaxSupplyCap` is out of reach in
`economy_books`, since `CapBacked` speaks of a cap that was not clamped.
`SlotCount` 2 and `QueueCap` 2 keep the full
and the one-left cases. In `world_battle` the first wave does not fit into the
store with the units the HQ trains, so that it defers while the second
comes due; a seam of three and loads of two leave a partial last load, and
`LastTick` merges the ticks after the last wave. In `pairs_exits` three rows
are the fewest in which one pair's exit can disturb another's, and a bound of three has
a first attempt, a middle one and a last. One game needs three
inodes (target, `.bak`, `.tmp`) and two need five, the open files of both
included; three settings tell the saved, the previous and the default apart.
Two identities tell a fresh one from a retired one, and two defects are enough
for a verdict to depend on which of them is looked at first.
Deadlock is checked except for the pool, which stops
when its callers stop ticking (`MaxTicks`), and the session, which ends.

## 4. Fairness

`SeparationPool`: weak fairness of each thread's own steps - the operating
system schedules a runnable thread, and the loops are finite between two
barriers; a store becomes visible in finite time (the worker's comment states
it). A caller need not tick again, nor ever be dropped.
`Economy`: weak fairness of `System`, the run loop that keeps ticking; nothing
is asked of the player, whose commands may interrupt every pause between
ticks. Elsewhere no liveness is stated: in `FieldPool`, the settings and
`GatherPairs` every call returns by its shape (that an exemption ends is
`ExemptionIsEarned`, a safety property with a bound), and a controller of the
lab may stop reporting whenever it likes.

## 5. What is proved

All proofs are checked by TLAPS from the modules' named assumptions on their
constants, for any number of workers, clones, rows, slots, cells, movers and
inodes, any masks, any waves and any cost and time tables. Every invariant,
action property and refinement that a passing run checks is a theorem;
only liveness is not.

* `SeparationPool_proofs`. `PoolInv` is the types with five parts that
  are only inductive together: `Turns` (`in_use` is one caller that has the pool,
  and only the last clone drops it), `Parked` (a barrier's party is never complete:
  the last to come opens it), `Stages` (everybody is on the same side of the two
  barriers, the job is the running caller's, and the epochs say which side it is),
  `Counts` (`completed` is a full round for each epoch before this one and one
  for each worker that has reported in it) and `Blame` (for a clone that is
  the only one to have ticked: which panics it still has to be told of, and by
  whom). `Rendezvous` says once what an arrival does to a
  barrier of any size. Theorems `PoolInvariant`, `TypeCorrect`, `CellIsExclusive`,
  `ChunksStayInTheirTick`, `EveryWorkerReports`, `LoneTicksAreTrue`.

* `FieldPool_proofs`. The inductive invariant `Live` is the type
  invariant with `KeyedIsLive` - every keyed slot holds a field built to its key
  over the mask of now (a mask change drops all keys, so there is no other
  case) - and `NoMoverMisled`. That keys are distinct is preserved separately
  (`OneFieldNext`). From them `TypeCorrect`, `CurrentFieldsAreRight`, `NobodyIsMisled`,
  `OneFieldEach`, and `EvictsOnlyWhenFull` through the ages: a slot without a
  key is never younger than one with a key. `CurrentIsTheIssuedBuild`
  holds until the epochs wrap (`Unwrapped`), which in the code takes 2^64 - 1
  rebuilds: until then epoch and rebuild number are the same thing.
  `PoolIsACache`: the pool implements `FieldCache`. With `AgesDiffer` - two keyed
  slots were never used by the same call - the slot that `Miss` evicts is the one
  whose destination is `Oldest` in the abstract order, and every other step maps
  to a step of the cache or a stutter (`CacheInv` is what this rests on).
* `Economy_proofs`. `RowsInv` is the conjunction of the rows' types, of
  "a site's progress is below its target", "a living row's generation is below
  the bound", and of three properties that are only inductive together:
  `ScratchExact`, `BuildOrdersLive`, `StallOnlyAtTheEnd`. Construction needs
  `live = Alive` to find every builder of a stalled site; combat needs orders to
  name live sites to clear them all; and the stall counts need progress to
  be one short of the target. There is a lemma for each system of the tick and one for
  the queues, whose lengths are kept apart from the rows so that the provers
  see sequences only where they matter. Theorems `RowsAlwaysAgree`,
  `ScratchIsExact`, `BuildOrdersAreLive`, `StallsAreLate`.
  `EconomyInv` adds the books. A sum (supply, wealth, the cap's grants) is the
  cardinality of a set of points, one for every unit of value, so a lemma says
  what it becomes when one row or one queue entry changes. `BooksInv`:
  outside of `recount` what is used is what the living units and the queues
  cost, only finished buildings have queues or ticks served, and the player's
  wealth stays within `MaxStock`, so that no refund saturates. `CapInv` and
  `ObjectiveInv` speak of the cap and of the enemy's objective. Theorems
  `EconomyInvariant`, `TypeCorrect`, `SupplyIsExact`, `CapIsBacked`,
  `ObjectiveStands`, and of steps `CapIsABound`, `NothingIsConjured`,
  `ProductionKeepsThePaid`, `RowsStartBlank`.
* `Battle_proofs`. `OrdersInv` adds to the types that only workers and soldiers
  bear orders and only soldiers attack (so the death of anything else need not
  look for attackers among the buildings), that a row at its last generation
  is dead, and `HaulsInvariant`: behind the gather pass, and all through combat,
  every hauler's drop-off stands. Gather establishes it worker by worker, and a
  death in combat keeps it because `Bereft` reaches all who were bound for the
  fallen building. Theorems `TypeCorrect`, `OrdersDieWithTheirSubject`.
  `EnemyBooksBalance` takes the two halves of `EnemyBooks` from `GhoulsAreCounted`
  and from `WavesInv` (a wave that has begun owes no more than it has, so that the
  members sent are a set that grows by one with each spawn). `CargoIsAccounted`
  rests on `Ores`: only nodes have anything left to mine, so a row that is
  reused brings no ore with it. Its sums are cardinalities as in the economy.
* `GatherPairs_proofs`. `IInv` says with each phase what is settled in it:
  during the pass the orders are those the policy was marked from
  (`PolicyInv`), rows the table has not seen are clear of all bodies
  (`StrangersAreClear`), and every overlap is explained in the middle of a tick
  too (`Explained`). `TurnEarns` and `MovesAreExplained` carry the five ways a
  pair's turn can end. Theorems `TypeCorrect`, `ExemptionsAreEarned`,
  `MergedIsAlwaysExplained`, for every bound from 1 to 254.
* `SettingsStore_proofs`, for a directory used by one game (`Alone`), with any
  settings and any number of inodes. `DiskInv`: no two names share an inode,
  and neither target nor `.bak` is ever torn or unsynced. `Stage` is what the
  game knows of the disk at each of its calls - a `.tmp` that is whole from
  the sync to the rename, no target between the renames, and memory equal to
  what a load would return except between the rename and the report. `DiskInv`
  needs `Stage` (the rename publishes a `.tmp` that was synced) and `Stage` needs
  `DiskInv` (writing the `.tmp` touches nothing else). From them `TypeCorrect`,
  `TargetIsWhole`, `MemoryAgrees`, and `StoreIsARegister`: every step of the
  protocol is a step of `SettingsFile` or is not seen. With two games `Alone`
  fails and so does `TargetWhole` (`settings_two_games`).
* `MergeGate_proofs`, for any identities and any number of defects. `PhaseInv`
  is what each phase of a restore may count on: which markers are set, that a
  named host has an identity, which network it is on and which checks it has
  passed. `LaneInv` carries that over to what is collected: a run that passed
  was of the host it names, and on macOS of one without a candidate's traces. Theorems: the types, that a ready host was restored, and that a
  merge was earned.

* `Session_proofs`, for any set of volumes. `LiveInv` says, for every call of a
  transaction, which of the two settings the disk, the window, the grab and
  the mixer have by then, until an undo fails. It needs `StagesInv` - only a
  volume can be staged when the focus goes, so a change of mode is never
  rolled back in a window without it - and that a change is never drained
  while another is under way. `MenuInv` adds to `MenuPauses` that an edit has ended
  before a press or a loss of focus, and `EndInv` that a batch which ends the run is
  only reached with the last rendered world kept. Theorems `SessionInvariant`, `TypeCorrect`,
  `ChangesAreAllOrNothing`, `PagesPause`, `HashIsOfWhatWasDrawn`, `FaultsAreFatal`.

`OneFieldEach`, `EvictsOnlyWhenFull`, `MemoryAgrees`, `RowsAlwaysAgree`,
`GhoulsAreCounted`, `PoolInvariant`, `EconomyInvariant`, `SessionInvariant` and
two of the `TypeCorrect` (settings, pairs) are about formulas no run checks by
themselves.

Model-checked only: liveness (`RunReturns`, `DropReturns`, `SitesSettle`), which
rests on fairness and ENABLED, out of the prover's reach; and what the
runs of section 6 refute.

## 6. Findings

With a run:

* `pool_lost_panic`. `run` clears `in_use` (pool.rs:367) before it reads
  `poisoned` (376, 380). A clone that ticks in the gap swaps the flag away: it
  panics for a chunk that was not its own, and the tick that was abandoned returns
  as complete. The module's doc (pool.rs:27-29) promises that the ticking
  thread re-raises. For a clone that ticks alone the promise holds
  (`LoneTicksAreToldTheTruth`).
* `pairs_crossed`. Whether an exit is over is read from the positions before
  the pass (world.rs:3665-3674), and the pass's own steps may have moved one of
  the two into the other meanwhile: a byte that is still `GATHER_PAIR_ACTIVE`
  exempts it from the sweep (3792) and is not a transition that
  `crowds_another_transition` (3809) would look at. The pair ends the tick
  merged, hard and unreported, against movement's doc (3442-3443). A test
  builds such a world (tests/rts_collision.rs:1950) and expects the byte to be
  clear; in a shipping build nothing parts the two until one of them is ordered
  away. `MergedIsExplained` says what does hold, and is proved.
* `settings_two_games`. Every instance writes the same `.tmp`
  (rts_settings.rs:316), and creating it truncates the one that is there (382). A
  second instance that saves while the first is between its sync (385) and its
  rename (402) empties the file the first then renames onto the target. The
  module's comment (rts_settings.rs:21) promises that the target is never
  half-written; with one instance it is not, and that is proved.
* `session_stuck_pan`. Scrolling the settings page while a field is edited
  calls the routine of a lost focus (rts_run.rs:884), which forgets the arrow
  keys that are down (rts_ui.rs:280); their release is then subtracted from
  zero, and the camera pans with no key held, against rts_run.rs:152.

Met while modelling, without a run of their own:

* `cancel_construction` (world.rs:2037-2063) removes a building without marking
  the enemy's objective dirty: with the HQ destroyed and a site as the
  objective, cancelling the site leaves `enemy_objective` set with no player
  building left, against the field's comment (393-394). `ObjectiveFollowsDeaths`
  says that an objective outlives its building only in this way.
* `load` returns a valid `.bak` with no warning (rts_settings.rs:340-344); its
  comment (321) says any fallback past the target carries one.
* A change that the mouse wheel has staged is overwritten by the next slider
  press, or lost if the page is closed first.
* In the recovery protocols the check against the retired identity is dead:
  each restart clears both names, and the retired one is set just before it is
  read.
* An unfinished HQ counts as a drop-off (`is_drop_off` asks for the kind), and
  cancelling an HQ's site leaves haulers bound for it until the next gather pass.
* A worker sent back to a node while it carries a load overwrites the load when
  it next loads (world.rs:3045): `CargoAccounted` allows exactly this loss.
* In a shipping build an exit that failed is reported in its own tick only; the
  pair stays merged and hard afterwards.

## 7. Not modelled, and why

Floating-point geometry (sweeps, approach tests, placement legality,
footprint evacuation) is a choice or a relation wherever a modelled system
depends on it.
Rally points and enemy rows are left out of `Economy`: a rally only gives an
order that is not a Build order, and enemy rows only make the store fuller,
which the choice "no free row" covers. A read error while loading
settings is left out: it is one more way to the default with a warning. The
session's start-up with its fallbacks, the scripts, text input and the routing
of clicks to the world are left out; the world is one point that a click may change.
Parsing, hashing, rendering, audio
output, command lines and generators are functions of their input or I/O.

Not yet modelled, each a component of its own: the benchmark's fence queue
(sequential, one bounded queue), the allocation guard, the entity store's free
list with the selection, static masks, formations and the integration of a flow
field as pure algorithms, audio voices, the lab's archive and pilot.
Composing `Economy` and `Battle` into one tick would multiply two state spaces
whose only shared state, the rows and the stock, each has as a choice of the other.
