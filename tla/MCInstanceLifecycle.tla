------------------------ MODULE MCInstanceLifecycle ------------------------
(***************************************************************************)
(* An instance of InstanceLifecycle for TLC: one Baileys instance and two  *)
(* of Meta, two requests at a time.  No symmetry, because of liveness.     *)
(***************************************************************************)
EXTENDS InstanceLifecycle
============================================================================
