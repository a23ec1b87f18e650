------------------------- MODULE MCServoController -------------------------
(* Instances of ServoController for TLC. *)
EXTENDS ServoControllerProperties, TLC

(* No array, a partial one and a full one, over two servos. *)
MCVectors == {<<>>, <<1>>, <<2, 1>>}

MCVectorsSmall == {<<>>, <<1>>}

MCSymmetry == Permutations(Conn) \cup Permutations(Addr)
=============================================================================
