----------------------------- MODULE MCTelemetry -----------------------------
(* The core with the telemetry, for TLC: the liveness of both. *)
EXTENDS Telemetry

\* No array and one servo.
MCVectorsSmall == {<<>>, <<1>>}
=============================================================================
