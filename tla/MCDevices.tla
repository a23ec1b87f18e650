------------------------------ MODULE MCDevices ------------------------------
(* What the core rests on, for TLC: the reactor that calls it and the drivers   *)
(* of the two boards that it calls.  They share nothing, so one run explores    *)
(* them side by side: a behaviour picks a part and takes the steps of that part *)
(* only, and what is checked is the sum of the parts.                           *)
EXTENDS ServoDriverLinino, Reactor

VARIABLES part,
          rpiChannels, rpiFailsafe, rpiCount, rpiStateFile, width, rpiProcess

rpiVars == <<rpiChannels, rpiFailsafe, rpiCount, rpiStateFile, width, rpiProcess>>
deviceVars == <<part, vars, rpiVars, reactorVars>>

RPi == INSTANCE ServoDriverRPi WITH
    oldChannels <- rpiChannels, failsafe <- rpiFailsafe, count <- rpiCount,
    stateFile <- rpiStateFile, process <- rpiProcess

(* Channel vectors: none, one and two servos, a servo switched off between
   others, the highest position. *)
MCVectors == {<<>>, <<1000>>, <<500, 1>>, <<0, 999>>}
-----------------------------------------------------------------------------
DevicesInit ==
    /\ part \in {"linino", "rpi", "reactor"}
    /\ Init /\ RPi!Init /\ ReactorInit

Linino(A) == part = "linino" /\ A /\ UNCHANGED <<part, rpiVars, reactorVars>>
RaspberryPi(A) == part = "rpi" /\ A /\ UNCHANGED <<part, vars, reactorVars>>
Dispatching(A) == part = "reactor" /\ A /\ UNCHANGED <<part, vars, rpiVars>>

DevicesNext == Linino(Next) \/ RaspberryPi(RPi!Next) \/ Dispatching(ReactorNext)

(* The fairness of each part, as its module states it. *)
DevicesSpec ==
    /\ DevicesInit /\ [][DevicesNext]_deviceVars
    /\ WF_deviceVars(Linino(Command))
    /\ WF_deviceVars(RaspberryPi(RPi!Command))
    /\ WF_deviceVars(Dispatching(Loop))
-----------------------------------------------------------------------------
(* The properties of the Raspberry Pi driver, stated in its module. *)
RPiTypeOK == RPi!TypeOK
WidthFollows == RPi!WidthFollows
WidthIsRestored == RPi!WidthIsRestored
=============================================================================
