------------------------------- MODULE MCBoot -------------------------------
(* Instances of Boot for TLC: two disk slots, the machine in the states it  *)
(* may have been left in.                                                  *)
EXTENDS Boot, TLC

Disk(plugged, holds, members, admin) ==
  [plugged |-> plugged, holds |-> holds,
   members |-> [v \in Vols |-> IF v = 1 THEN members ELSE {}],
   admin |-> [v \in Vols |-> IF v = 1 THEN admin ELSE "none"]]
Machine(prod, content, devs, waiting) ==
  [product |-> prod, disk |-> content, preset |-> waiting,
   volume |-> [id |-> IF devs = {} THEN 0 ELSE 1, devs |-> devs]]

blank == Disk({1, 2}, <<0, 0>>, {}, "none")
single == Disk({1, 2}, <<1, 0>>, {1}, "u1")
pair == Disk({1, 2}, <<1, 1>>, {1, 2}, "u1")
broken == Disk({1, 2}, <<1, 0>>, {1, 2}, "u1")      \* slot 2 holds a new disk
old == Disk({1, 2}, <<1, 0>>, {1}, "legacy")

mcMachines ==
  {Machine("ws215i", blank, {}, FALSE), Machine("ws215i", single, {1}, FALSE),
   Machine("ws215i", pair, {1, 2}, TRUE), Machine("ws215i", pair, {1, 2}, FALSE),
   Machine("ws215i", broken, {1, 2}, FALSE), Machine("ws215i", old, {}, FALSE),
   Machine("winas", single, {}, FALSE), Machine("winas", blank, {}, FALSE)}
mcBounds == [crash |-> 1, fault |-> 1, plug |-> 1, tell |-> 2]
oneMachine == {Machine("ws215i", single, {1}, FALSE)}
quiet == [crash |-> 0, fault |-> 0, plug |-> 0, tell |-> 1]
=============================================================================
