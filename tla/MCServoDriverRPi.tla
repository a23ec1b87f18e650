-------------------------- MODULE MCServoDriverRPi --------------------------
(* Instances of ServoDriverRPi for TLC. *)
EXTENDS ServoDriverRPi

(* No array, and one servo at the highest position. *)
MCVectors == {<<>>, <<1000>>}
=============================================================================
