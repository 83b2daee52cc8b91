-------------------------- MODULE MCGatewayThreads --------------------------
(***************************************************************************)
(* The gateway as main() and the shipped ObjectModel.xml configure it: 15  *)
(* workers, a watchdog queue of 10, two digital inputs (water and smoke).  *)
(***************************************************************************)
EXTENDS GatewayThreads
=============================================================================
