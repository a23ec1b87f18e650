--------------------------- MODULE ServoChannels ---------------------------
(***************************************************************************)
(* What the Raspberry Pi and the Linino driver have in common: which       *)
(* servos a vector of channel values updates.  A servo is written when its *)
(* position changes, and again every UpdatePeriod calls when it is on.     *)
(***************************************************************************)
EXTENDS Integers, Sequences

CONSTANTS
    NofServos,     \* MAX_SERVOS
    UpdatePeriod,  \* calls between two refreshes of a servo (50)
    ChannelMax,    \* CHANNEL_MAX_POS
    Vectors        \* the channel vectors SetServos is called with

ASSUME PeriodAssumption ==
    NofServos \in Nat /\ UpdatePeriod \in Nat \ {0} /\ NofServos <= UpdatePeriod
(* Channel values are the remote control's, 0 is off; a vector has at most
   one value per servo. *)
ASSUME ChannelsAssumption ==
    /\ ChannelMax \in Nat
    /\ Vectors \subseteq {v \in Seq(0 .. ChannelMax) : Len(v) <= NofServos}

VARIABLES
    oldChannels,   \* oldChannels
    failsafe,      \* failsafe
    count,         \* count % UpdatePeriod
    stateFile      \* /tmp/servostates

channelVars == <<oldChannels, failsafe, count, stateFile>>

Servo == 0 .. NofServos - 1

ChannelsTypeOK ==
    /\ oldChannels \in [Servo -> 0 .. ChannelMax]
    /\ failsafe \in [Servo -> 0 .. ChannelMax]
    /\ count \in 0 .. UpdatePeriod - 1
    /\ stateFile \in [Servo -> 0 .. ChannelMax]

ChannelsInit ==
    /\ oldChannels = [s \in Servo |-> 0]
    /\ failsafe = [s \in Servo |-> 0]
    /\ count = 0
    /\ stateFile = [s \in Servo |-> 0]

(* Servos beyond the vector get channel value 0. *)
Commanded(v) == [s \in Servo |-> IF s < Len(v) THEN v[s + 1] ELSE 0]

(* Mutant: no refresh. *)
UpdatedOnChange(v) == {s \in Servo : oldChannels[s] # Commanded(v)[s]}

(* The servos SetServo is called for. *)
Updated(v) ==
    {s \in Servo : \/ oldChannels[s] # Commanded(v)[s]
                   \/ count = s /\ Commanded(v)[s] # 0}

(* The part of SetServos both drivers share, for a call that completes. *)
UpdateChannels(v) ==
    /\ oldChannels' = Commanded(v)
    /\ count' = (count + 1) % UpdatePeriod
    /\ stateFile' = IF Updated(v) # {} THEN oldChannels' ELSE stateFile
    /\ UNCHANGED failsafe

(* memcpy of the vector: positions beyond it keep what they were. *)
StorePosition(v) ==
    /\ failsafe' = [s \in Servo |-> IF s < Len(v) THEN v[s + 1] ELSE failsafe[s]]
    /\ UNCHANGED <<oldChannels, count, stateFile>>

(* SetFailsafe is SetServos of all the stored positions. *)
FailsafeVector == [i \in 1 .. NofServos |-> failsafe[i - 1]]

(* /tmp/servostates shows the channel values in force, although it is written
   only by calls that updated a servo. *)
StateFileIsCurrent == stateFile = oldChannels
=============================================================================
