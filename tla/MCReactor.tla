----------------------------- MODULE MCReactor -----------------------------
(* Instances of Reactor for TLC; the constants are model values. *)
EXTENDS Reactor
=============================================================================
