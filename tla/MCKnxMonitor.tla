---------------------------- MODULE MCKnxMonitor ----------------------------
(* Two debounced groups with different expiries and one that is not. *)
EXTENDS KnxMonitor, TLC
CONSTANTS switch, mode, panel

MCTable == <<switch, mode>>
MCExpire == switch :> 0 @@ mode :> 1
=============================================================================
