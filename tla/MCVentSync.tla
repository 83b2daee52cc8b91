----------------------------- MODULE MCVentSync -----------------------------
(* A switch, commanded from both sides, with one repetition withheld. *)
EXTENDS VentSync
=============================================================================
