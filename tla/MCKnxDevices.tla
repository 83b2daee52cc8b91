---------------------------- MODULE MCKnxDevices ----------------------------
(* A smart panel, which is a master, and behind it in the list a wall panel  *)
(* that commands a Modbus unit.                                              *)
EXTENDS KnxDevices, TLC
CONSTANTS smart, wall, k1, k2

MCDevList == <<smart, wall>>
MCKind == smart :> "smart" @@ wall :> "panel"
MCPoints == smart :> <<k1>> @@ wall :> <<k2>>
=============================================================================
