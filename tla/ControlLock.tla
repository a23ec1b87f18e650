---------------------------- MODULE ControlLock ----------------------------
(***************************************************************************)
(* What the servo controller promises its clients: the right to move the   *)
(* servos is a lock.  One client at a time holds it, it is taken only when *)
(* it is free, only its holder moves the servos, and when the holder goes  *)
(* silent the servos go to the fallback position it left behind and stay   *)
(* there.  The lock can also get lost: nobody holds it and nobody can take *)
(* it any more.                                                            *)
(***************************************************************************)
CONSTANTS
    Client,
    Nobody,
    Position,      \* positions of all the servos
    Off            \* every servo switched off

VARIABLES
    mode,          \* "free", "controlled", "failsafe" or "lost"
    holder,
    output,        \* position of the servos
    fallback       \* position they take when the holder goes silent

vars == <<mode, holder, output, fallback>>

Held == mode \in {"controlled", "failsafe"}

Init ==
    /\ mode = "free"
    /\ holder = Nobody
    /\ output = Off
    /\ fallback = Off

Move == output' \in Position /\ fallback' \in Position

Acquire(c) ==
    /\ mode = "free"
    /\ mode' = "controlled"
    /\ holder' = c
    /\ Move

Command ==
    /\ mode = "controlled"
    /\ Move
    /\ UNCHANGED <<mode, holder>>

FailSafe ==
    /\ mode = "controlled"
    /\ mode' = "failsafe"
    /\ output' = fallback
    /\ UNCHANGED <<holder, fallback>>

Release ==
    /\ Held
    /\ mode' = "free"
    /\ holder' = Nobody
    /\ UNCHANGED <<output, fallback>>

Lose ==
    /\ Held
    /\ mode' = "lost"
    /\ holder' = Nobody
    /\ UNCHANGED <<output, fallback>>

Next ==
    \/ \E c \in Client : Acquire(c)
    \/ Command
    \/ FailSafe
    \/ Release
    \/ Lose

Spec == Init /\ [][Next]_vars
=============================================================================
