\* Three rows, each recycled: an HQ and a worker, two builders or two sites at once; ticks go on.
CONSTANTS
  Slots = {1, 2, 3}
  None = None
  Resources = {"crystal", "gas"}
  BuildingKinds <- SmallBuildings
  UnitKinds <- SmallUnits
  Worker = "Worker"
  Produces <- SmallProduces
  Cost <- SmallCost
  SupplyCost <- SmallSupply
  Grant <- SmallGrant
  BuildTicks <- TwoTicks
  ProduceTicks <- OneTick
  QueueCap = 2
  StallTicks = 2
  MaxSupplyCap = 10
  MaxStock = 2
  Deposits <- SmallDeposits
  StartKind <- SmallStart
  StartStock <- SmallStock
  StartCap = 2
  MaxGen = 2
SPECIFICATION FairSpec
INVARIANTS TypeOK CapBacked StallOnlyAtTheEnd ObjectiveFollowsDeaths ScratchExact SupplyExact BuildOrdersLive
PROPERTIES SitesSettle CapHolds ProductionKeepsWhatWasPaid NothingInherited NothingConjured
