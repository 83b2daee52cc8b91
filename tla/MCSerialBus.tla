----------------------------- MODULE MCSerialBus ----------------------------
(* Two ports; two lines (two configuration blocks) share the first one. *)
EXTENDS SerialBus, TLC
CONSTANTS p1, p2, l1, l2, l3, d1, d2, d3, cloud, knx, health, sync

MCPortOf == l1 :> p1 @@ l2 :> p1 @@ l3 :> p2
MCLineOf == d1 :> l1 @@ d2 :> l2 @@ d3 :> l3
MCDevList == <<d1, d2, d3>>
MCKind == cloud :> "write" @@ knx :> "write" @@ health :> "health" @@ sync :> "sync"
=============================================================================
