---------------------- MODULE ServoDriverLininoProofs ----------------------
(***************************************************************************)
(* DeviceFollows is not inductive: that an enabled channel has a period     *)
(* rests on InitServos having run before the first write, and that nothing *)
(* fails on a reliable channel on the range of faulty.  IInv says so.       *)
(***************************************************************************)
EXTENDS ServoDriverLinino, ServoChannelsProofs

Reliable == Pwm \ Unreliable

InitServosIsDone ==
    /\ isInit \in BOOLEAN
    /\ isInit => \A s \in Reliable : configured[s]
    /\ ~ isInit => \A s \in Servo : oldChannels[s] = 0

IInv ==
    /\ oldChannels \in [Servo -> Int]
    /\ failsafe \in [Servo -> Int]
    /\ enabled \in [Pwm -> BOOLEAN]
    /\ configured \in [Pwm -> BOOLEAN]
    /\ faulty \subseteq Unreliable \X File
    /\ InitServosIsDone
    /\ DeviceFollows
    /\ StateFileIsCurrent

(* A PWM channel belongs to one of the servos. *)
LEMMA PwmAreServos == Pwm \subseteq Servo
  BY PwmAssumption, PeriodAssumption DEF Pwm, Servo

(* Writes to a reliable channel succeed. *)
LEMMA ReliableWrites ==
    ASSUME faulty \subseteq Unreliable \X File, NEW s \in Reliable, NEW file
    PROVE  Writes(s, file)
  BY DEF Writes, Reliable

(* The invariant holds before the first call, *)
LEMMA InitIInv == Init => IInv
  <1> SUFFICES ASSUME Init PROVE IInv
    OBVIOUS
  <1> USE PwmAreServos DEF Init, ChannelsInit
  <1>1. /\ oldChannels \in [Servo -> Int]
        /\ failsafe \in [Servo -> Int]
        /\ enabled \in [Pwm -> BOOLEAN]
        /\ configured \in [Pwm -> BOOLEAN]
        /\ faulty \subseteq Unreliable \X File
    OBVIOUS
  <1>2. InitServosIsDone
    BY DEF InitServosIsDone
  <1>3. DeviceFollows
    BY DEF DeviceFollows
  <1>4. StateFileIsCurrent
    BY DEF StateFileIsCurrent
  <1> QED
    BY <1>1, <1>2, <1>3, <1>4 DEF IInv

(* A call with any vector of integers keeps the invariant. *)
LEMMA SetServosIInv ==
    ASSUME IInv, NEW v, Commanded(v) \in [Servo -> Int], SetServos(v)
    PROVE  IInv'
  <1> USE PwmAreServos DEF IInv
  <1>1. /\ oldChannels' = Commanded(v)
        /\ stateFile' = IF Updated(v) # {} THEN oldChannels' ELSE stateFile
        /\ faulty' = faulty /\ failsafe' = failsafe
        /\ isInit' = TRUE
        /\ \A s \in Pwm :
             /\ configured'[s] = (configured[s] \/ InitWrites(s, "period"))
             /\ enabled'[s] = EnabledAfter(v, s)
             /\ dutyCycle'[s] = DutyCycleAfter(v, s)
    BY DEF SetServos, UpdateChannels
  <1>2. \A s \in Servo \ Updated(v) :
          oldChannels[s] = Commanded(v)[s]
    BY DEF Updated
  <1>3. /\ oldChannels' \in [Servo -> Int]
        /\ enabled' \in [Pwm -> BOOLEAN]
        /\ configured' \in [Pwm -> BOOLEAN]
    <2>1. \A s \in Pwm : EnabledAfter(v, s) \in BOOLEAN
      BY DEF EnabledAfter
    <2>2. \A s \in Pwm : InitWrites(s, "period") \in BOOLEAN
      BY DEF InitWrites, Writes
    <2> QED
      BY <1>1, <2>1, <2>2 DEF SetServos
  <1>4. InitServosIsDone'
    <2>1. ASSUME NEW s \in Reliable PROVE configured'[s]
      <3>1. s \in Pwm /\ Writes(s, "period")
        BY ReliableWrites DEF Reliable
      <3>2. configured[s] \/ InitWrites(s, "period")
        BY <3>1 DEF InitWrites, InitServosIsDone
      <3> QED
        BY <1>1, <3>1, <3>2
    <2> QED
      BY <1>1, <2>1 DEF InitServosIsDone, Reliable
  <1>5. DeviceFollows'
    <2> SUFFICES ASSUME NEW s \in Reliable
                 PROVE  /\ enabled'[s] <=> Commanded(v)[s] # 0
                        /\ enabled'[s] =>
                             /\ configured'[s]
                             /\ dutyCycle'[s] =
                                  ConvertChannelToServoHw(Commanded(v)[s])
      BY <1>1 DEF DeviceFollows, Reliable, Pwm
    <2>1. s \in Pwm /\ s \in Servo /\ Writes(s, "enable") /\ Writes(s, "duty_cycle")
      BY ReliableWrites DEF Reliable
    <2>2. enabled[s] <=> oldChannels[s] # 0
      BY DEF DeviceFollows, Reliable
    <2>3. enabled'[s] <=> Commanded(v)[s] # 0
      <3>1. CASE s \in Updated(v)
        BY <1>1, <2>1, <2>2, <3>1 DEF EnabledAfter
      <3>2. CASE s \notin Updated(v)
        BY <1>1, <1>2, <2>1, <2>2, <3>2 DEF EnabledAfter
      <3> QED
        BY <3>1, <3>2
    <2>4. configured'[s]
      BY <1>1, <1>4 DEF InitServosIsDone
    <2>5. ASSUME Commanded(v)[s] # 0
          PROVE  dutyCycle'[s] = ConvertChannelToServoHw(Commanded(v)[s])
      <3>1. CASE s \in Updated(v)
        BY <1>1, <2>1, <2>5, <3>1 DEF DutyCycleAfter
      <3>2. CASE s \notin Updated(v)
        <4>1. oldChannels[s] # 0 /\ isInit
          BY <1>2, <2>1, <2>5, <3>2 DEF InitServosIsDone
        <4>2. dutyCycle[s] = ConvertChannelToServoHw(oldChannels[s])
          BY <2>2, <4>1 DEF DeviceFollows, Reliable
        <4>3. dutyCycle'[s] = dutyCycle[s]
          BY <1>1, <2>1, <3>2, <4>1 DEF DutyCycleAfter, InitWrites
        <4> QED
          BY <1>2, <2>1, <3>2, <4>2, <4>3
      <3> QED
        BY <3>1, <3>2
    <2> QED
      BY <2>3, <2>4, <2>5
  <1>6. StateFileIsCurrent'
    <2>1. CASE Updated(v) = {}
      <3>1. oldChannels = Commanded(v)
        BY <1>2, <2>1
      <3> QED
        BY <1>1, <2>1, <3>1 DEF StateFileIsCurrent
    <2>2. CASE Updated(v) # {}
      BY <1>1, <2>2 DEF StateFileIsCurrent
    <2> QED
      BY <2>1, <2>2
  <1> QED
    BY <1>1, <1>3, <1>4, <1>5, <1>6

(* The vectors of clients, and the stored positions, are vectors of integers. *)
LEMMA CommandedType ==
    \A v \in Vectors : Commanded(v) \in [Servo -> Int]
  BY CommandedRange DEF Channel

(* Storing positions changes nothing that is written. *)
LEMMA StoreFailsafePositionIInv ==
    ASSUME IInv, NEW v \in Vectors, StoreFailsafePosition(v)
    PROVE  IInv'
  <1>1. failsafe' \in [Servo -> Int]
    <2>1. failsafe' = [s \in Servo |-> IF s < Len(v) THEN Commanded(v)[s]
                                                     ELSE failsafe[s]]
      BY DEF StoreFailsafePosition, StorePosition, Commanded
    <2>2. \A s \in Servo : Commanded(v)[s] \in Int /\ failsafe[s] \in Int
      BY CommandedType DEF IInv
    <2> QED
      BY <2>1, <2>2
  <1> QED
    BY <1>1 DEF IInv, InitServosIsDone, DeviceFollows, StateFileIsCurrent,
                StoreFailsafePosition, StorePosition

(* and after every call. *)
LEMMA NextIInv == IInv /\ [Next]_vars => IInv'
  <1> SUFFICES ASSUME IInv, [Next]_vars PROVE IInv'
    OBVIOUS
  <1>1. CASE Command
    BY <1>1, CommandedType, SetServosIInv DEF Command
  <1>2. CASE SetFailsafe
    <2>1. Commanded(FailsafeVector) \in [Servo -> Int]
      BY PeriodAssumption DEF Commanded, FailsafeVector, Servo, IInv
    <2> QED
      BY <1>2, <2>1, SetServosIInv DEF SetFailsafe
  <1>3. CASE \E v \in Vectors : StoreFailsafePosition(v)
    BY <1>3, StoreFailsafePositionIInv
  <1>4. CASE DeviceChanges
    BY <1>4 DEF DeviceChanges, channelVars, IInv, InitServosIsDone,
                DeviceFollows, StateFileIsCurrent
  <1>5. CASE UNCHANGED vars
    BY <1>5 DEF vars, channelVars, IInv, InitServosIsDone, DeviceFollows,
                StateFileIsCurrent
  <1> QED
    BY <1>1, <1>2, <1>3, <1>4, <1>5 DEF Next

(* Every reachable state satisfies the inductive invariant. *)
THEOREM Invariance == Spec => []IInv
  BY InitIInv, NextIInv, PTL DEF Spec

(* A channel whose writes do not fail follows oldChannels, for any number of
   servos and channels, any vectors and any failures on the other channels. *)
THEOREM ReliableDeviceFollows == Spec => []DeviceFollows
  <1>1. IInv => DeviceFollows
    BY DEF IInv
  <1> QED
    BY Invariance, <1>1, PTL

(* /tmp/servostates always shows the channel values in force. *)
THEOREM StateFileIsAlwaysCurrent == Spec => []StateFileIsCurrent
  <1>1. IInv => StateFileIsCurrent
    BY DEF IInv
  <1> QED
    BY Invariance, <1>1, PTL
-----------------------------------------------------------------------------
(* Types.  The bound of the duty cycle is that of the conversion. *)

LEMMA ConversionRange ==
    ASSUME NEW channel \in Channel
    PROVE  /\ ConvertChannelToServoHw(channel) \in Nat
           /\ ConvertChannelToServoHw(channel) <= SERVO_MAX_POS
  <1>1. channel \in 0 .. 1000
    BY RangeAssumption, ChannelsAssumption DEF Channel
  <1>2. ConvertChannelToServoHw(channel) = 560000 + (1840000 * channel) \div 1000
    BY SMT DEF ConvertChannelToServoHw, SERVO_MIN_POS, SERVO_MAX_POS
  <1> QED
    BY <1>1, <1>2, SMT DEF SERVO_MAX_POS

(* A call of SetServos keeps the types, whatever writes fail, *)
LEMMA SetServosType ==
    ASSUME TypeOK, NEW v, Commanded(v) \in [Servo -> Channel], SetServos(v)
    PROVE  TypeOK'
  <1>1. ChannelsTypeOK'
    BY UpdateChannelsType DEF TypeOK, SetServos
  <1>2. \A s \in Pwm : EnabledAfter(v, s) \in BOOLEAN
    BY DEF EnabledAfter, TypeOK
  <1>3. \A s \in Pwm : (configured[s] \/ InitWrites(s, "period")) \in BOOLEAN
    OBVIOUS
  <1>4. \A s \in Pwm : DutyCycleAfter(v, s) \in Nat /\ DutyCycleAfter(v, s) <= SERVO_MAX_POS
    <2> SUFFICES ASSUME NEW s \in Pwm
                 PROVE  DutyCycleAfter(v, s) \in Nat /\ DutyCycleAfter(v, s) <= SERVO_MAX_POS
      OBVIOUS
    <2>1. Commanded(v)[s] \in Channel
      BY PwmAreServos
    <2>2. SERVO_MIN_POS \in Nat /\ SERVO_MIN_POS <= SERVO_MAX_POS
      BY SMT DEF SERVO_MIN_POS, SERVO_MAX_POS
    <2> QED
      BY <2>1, <2>2, ConversionRange DEF DutyCycleAfter, TypeOK
  <1>5. /\ isInit' \in BOOLEAN /\ faulty' \subseteq Unreliable \X File
        /\ configured' \in [Pwm -> BOOLEAN] /\ enabled' \in [Pwm -> BOOLEAN]
    BY <1>2, <1>3 DEF SetServos, TypeOK
  <1>6. dutyCycle' \in [Pwm -> Nat] /\ \A s \in Pwm : dutyCycle'[s] <= SERVO_MAX_POS
    BY <1>4 DEF SetServos
  <1> QED
    BY <1>1, <1>5, <1>6 DEF TypeOK

(* and so does every call. *)
LEMMA NextType == TypeOK /\ [Next]_vars => TypeOK'
  <1> SUFFICES ASSUME TypeOK, [Next]_vars PROVE TypeOK'
    OBVIOUS
  <1>1. CASE Command
    BY <1>1, CommandedRange, SetServosType DEF Command
  <1>2. CASE SetFailsafe
    <2>1. failsafe \in [Servo -> Channel]
      BY DEF TypeOK, ChannelsTypeOK, Channel
    <2> QED
      BY <1>2, <2>1, FailsafeRange, SetServosType DEF SetFailsafe
  <1>3. CASE \E v \in Vectors : StoreFailsafePosition(v)
    <2>1. ChannelsTypeOK'
      BY <1>3, StorePositionType DEF TypeOK, StoreFailsafePosition
    <2> QED
      BY <1>3, <2>1 DEF TypeOK, StoreFailsafePosition
  <1>4. CASE DeviceChanges \/ UNCHANGED vars
    BY <1>4 DEF DeviceChanges, vars, channelVars, TypeOK, ChannelsTypeOK
  <1> QED
    BY <1>1, <1>2, <1>3, <1>4 DEF Next

(* Positions and the refresh counter stay in their ranges, and no duty cycle
   beyond SERVO_MAX_POS is ever written. *)
THEOREM TypeCorrectness == Spec => []TypeOK
  <1>1. Init => TypeOK
    <2>1. SERVO_MAX_POS \in Nat
      BY SMT DEF SERVO_MAX_POS
    <2> SUFFICES ASSUME Init PROVE TypeOK
      OBVIOUS
    <2>2. dutyCycle \in [Pwm -> Nat] /\ \A s \in Pwm : dutyCycle[s] <= SERVO_MAX_POS
      BY <2>1 DEF Init
    <2> QED
      BY <2>2, ChannelsInitType DEF Init, TypeOK
  <1> QED
    BY <1>1, NextType, PTL DEF Spec
=============================================================================
