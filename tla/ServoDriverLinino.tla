------------------------- MODULE ServoDriverLinino -------------------------
(***************************************************************************)
(* The Linino driver: PWM channels behind sysfs files.  EchoInt prints an  *)
(* error when a file cannot be opened or written, and goes on; oldChannels *)
(* is updated all the same.                                                *)
(***************************************************************************)
EXTENDS ServoChannels

CONSTANTS
    NofPwm,        \* nofPwmChannels
    Unreliable     \* PWM channels whose sysfs writes may fail

(* The board has fewer PWM channels than MAX_SERVOS: the servos beyond them
   are never switched on. *)
ASSUME PwmAssumption ==
    /\ NofPwm \in 0 .. NofServos
    /\ Unreliable \subseteq 0 .. NofPwm - 1
    /\ \A v \in Vectors : \A i \in DOMAIN v : i > NofPwm => v[i] = 0

(* CHANNEL_MAX_POS; the UINT32 product of the conversion does not overflow. *)
ASSUME RangeAssumption == ChannelMax <= 1000

VARIABLES
    isInit,        \* isInit
    configured,    \* channels exported and with a period
    enabled,       \* "enable" of each PWM channel
    dutyCycle,     \* "duty_cycle" of each PWM channel
    faulty         \* the writes that fail at present: <<channel, file>>

vars == <<channelVars, isInit, configured, enabled, dutyCycle, faulty>>

Pwm == 0 .. NofPwm - 1
File == {"period", "enable", "duty_cycle"}

SERVO_MIN_POS == 560000
SERVO_MAX_POS == 2400000

(* Mutant: channel values taken for per cent. *)
ConvertPercentToServoHw(channel) ==
    SERVO_MIN_POS + ((SERVO_MAX_POS - SERVO_MIN_POS) * channel) \div 100

(* UINT32 arithmetic; with channels up to CHANNEL_MAX_POS nothing overflows. *)
ConvertChannelToServoHw(channel) ==
    SERVO_MIN_POS + ((SERVO_MAX_POS - SERVO_MIN_POS) * channel) \div 1000

TypeOK ==
    /\ ChannelsTypeOK
    /\ isInit \in BOOLEAN
    /\ configured \in [Pwm -> BOOLEAN]
    /\ enabled \in [Pwm -> BOOLEAN]
    /\ dutyCycle \in [Pwm -> Nat]
    /\ \A s \in Pwm : dutyCycle[s] <= SERVO_MAX_POS
    /\ faulty \subseteq Unreliable \X File

Init ==
    /\ ChannelsInit
    /\ isInit = FALSE
    /\ configured = [s \in Pwm |-> FALSE]
    /\ enabled = [s \in Pwm |-> FALSE]
    /\ dutyCycle = [s \in Pwm |-> 0]
    /\ faulty = {}
-----------------------------------------------------------------------------
Writes(s, file) == <<s, file>> \notin faulty

(* The first call of SetServos runs InitServos, which is never repeated. *)
InitWrites(s, file) == ~ isInit /\ Writes(s, file)

(* Mutant: a servo is never disabled. *)
EnabledNeverReset(v, s) ==
    \/ enabled[s]
    \/ s \in Updated(v) /\ Commanded(v)[s] # 0 /\ Writes(s, "enable")

(* SetServo on each updated servo: it is enabled when it was off, its duty
   cycle is written when it is on, it is disabled when it is switched off. *)
EnabledAfter(v, s) ==
    IF s \in Updated(v) /\ Writes(s, "enable")
      THEN IF Commanded(v)[s] = 0 THEN FALSE
           ELSE enabled[s] \/ oldChannels[s] = 0
      ELSE enabled[s]

DutyCycleAfter(v, s) ==
    IF s \in Updated(v) /\ Commanded(v)[s] # 0 /\ Writes(s, "duty_cycle")
      THEN ConvertChannelToServoHw(Commanded(v)[s])
    ELSE IF InitWrites(s, "duty_cycle") THEN SERVO_MIN_POS
    ELSE dutyCycle[s]

SetServos(v) ==
    /\ UpdateChannels(v)
    /\ isInit' = TRUE
    /\ configured' = [s \in Pwm |-> configured[s] \/ InitWrites(s, "period")]
    /\ enabled' = [s \in Pwm |-> EnabledAfter(v, s)]
    /\ dutyCycle' = [s \in Pwm |-> DutyCycleAfter(v, s)]
    /\ UNCHANGED faulty

SetFailsafe == SetServos(FailsafeVector)

StoreFailsafePosition(v) ==
    /\ StorePosition(v)
    /\ UNCHANGED <<isInit, configured, enabled, dutyCycle, faulty>>

(* Writes begin or cease to fail. *)
DeviceChanges ==
    /\ faulty' \in SUBSET (Unreliable \X File)
    /\ UNCHANGED <<channelVars, isInit, configured, enabled, dutyCycle>>

Command == \E v \in Vectors : SetServos(v)

Next ==
    \/ Command
    \/ SetFailsafe
    \/ \E v \in Vectors : StoreFailsafePosition(v)
    \/ DeviceChanges

Spec == Init /\ [][Next]_vars

(* A client that controls sends a cdc every 20 ms (RCClient.c). *)
FairSpec == Spec /\ WF_vars(Command)
-----------------------------------------------------------------------------
(* A channel whose writes do not fail is on exactly when its servo is, then
   has a period, and has the duty cycle of its position, whatever the
   failures on the others and however the calls alternate. *)
DeviceFollows ==
    \A s \in Pwm \ Unreliable :
        /\ enabled[s] <=> oldChannels[s] # 0
        /\ enabled[s] => /\ configured[s]
                         /\ dutyCycle[s] = ConvertChannelToServoHw(oldChannels[s])

(* A duty cycle whose write failed is repaired: once writes succeed again, the
   periodic update brings each servo that is on to its position, although its
   position does not change. *)
DutyCycleIsRepaired ==
    <>[](faulty = {}) =>
        \A s \in Pwm :
            <>[](oldChannels[s] # 0 =>
                   dutyCycle[s] = ConvertChannelToServoHw(oldChannels[s]))
=============================================================================
