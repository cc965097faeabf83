------------------------------ MODULE MCEconomy ------------------------------
(* Small instances of the economy for TLC.                                 *)
EXTENDS Economy

\* An HQ that produces workers, a depot that only grants.
SmallBuildings == {"Hq", "Depot"}
SmallUnits == {"Worker"}
SmallProduces == [k \in SmallBuildings |-> IF k = "Hq" THEN {"Worker"} ELSE {}]
SmallSupply == [k \in SmallUnits |-> 1]
SmallGrant == [k \in SmallBuildings |-> 1]
TwoTicks == [k \in SmallBuildings |-> 2]
OneTick == [k \in SmallUnits |-> 1]
SmallStart == [s \in 1 .. 3 |-> CASE s = 1 -> "Hq" [] s = 2 -> "Worker" [] OTHER -> None]
\* Two resources, and an HQ that costs of both.
SmallCost ==
  [k \in SmallBuildings \cup SmallUnits |->
     [r \in {"crystal", "gas"} |-> IF r = "gas" /\ k # "Hq" THEN 0 ELSE 1]]
SmallStock == [r \in {"crystal", "gas"} |-> IF r = "gas" THEN 0 ELSE 2]
SmallDeposits == {[r \in {"crystal", "gas"} |-> IF r = "gas" THEN n ELSE 0] : n \in 0 .. 1}
==============================================================================
