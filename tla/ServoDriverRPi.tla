--------------------------- MODULE ServoDriverRPi ---------------------------
(***************************************************************************)
(* The Raspberry Pi driver: it writes to the FIFO of the servod daemon,    *)
(* which is a process of its own.  A write that cannot be made ends the    *)
(* process in the middle of the loop over the servos.                      *)
(***************************************************************************)
EXTENDS ServoChannels

VARIABLES
    width,         \* servod's servowidth
    process        \* "running", or "exited" when the FIFO was not writable

vars == <<channelVars, width, process>>

SERVO_MIN_POS == 50
SERVO_MAX_POS == 250
CHANNEL_MAX_POS == 1000

(* CHANNEL_TO_SERVO and its caller. *)
ConvertChannelToServoHw(channel) ==
    IF channel < CHANNEL_MAX_POS
      THEN channel \div (CHANNEL_MAX_POS \div (SERVO_MAX_POS - SERVO_MIN_POS))
             + SERVO_MIN_POS
      ELSE CHANNEL_MAX_POS

(* Mutant: a width beyond the limits is put out. *)
AcceptsAll(w) == w >= 0

(* parse_width: servod ignores a width beyond its limits. *)
Accepted(w) == w = 0 \/ w \in SERVO_MIN_POS .. SERVO_MAX_POS

TypeOK ==
    /\ ChannelsTypeOK
    /\ width \in [Servo -> {0} \cup SERVO_MIN_POS .. SERVO_MAX_POS]
    /\ process \in {"running", "exited"}

Init ==
    /\ ChannelsInit
    /\ width = [s \in Servo |-> 0]
    /\ process = "running"
-----------------------------------------------------------------------------
(* The widths after SetServo was called for the servos in S. *)
WidthAfter(v, S) ==
    [s \in Servo |->
        LET w == ConvertChannelToServoHw(Commanded(v)[s])
        IN  IF s \in S /\ Accepted(w) THEN w ELSE width[s]]

SetServos(v) ==
    /\ UpdateChannels(v)
    /\ width' = WidthAfter(v, Updated(v))
    /\ UNCHANGED process

(* Mutant: oldChannels is updated before the write. *)
SetServosFailsAfterUpdate(v) ==
    \E s \in Updated(v) :
        /\ process' = "exited"
        /\ width' = WidthAfter(v, {t \in Updated(v) : t < s})
        /\ oldChannels' = [t \in Servo |-> IF t <= s THEN Commanded(v)[t]
                                                     ELSE oldChannels[t]]
        /\ count' = (count + 1) % UpdatePeriod
        /\ UNCHANGED <<failsafe, stateFile>>

(* fopen fails for servo s: those before it have been set. *)
SetServosFails(v) ==
    \E s \in Updated(v) :
        LET done == {t \in Updated(v) : t < s}
        IN  /\ process' = "exited"
            /\ width' = WidthAfter(v, done)
            /\ oldChannels' = [t \in Servo |-> IF t \in done THEN Commanded(v)[t]
                                                             ELSE oldChannels[t]]
            /\ count' = (count + 1) % UpdatePeriod
            /\ UNCHANGED <<failsafe, stateFile>>

Command == process = "running" /\ \E v \in Vectors : SetServos(v)

CommandFails == process = "running" /\ \E v \in Vectors : SetServosFails(v)

SetFailsafe ==
    /\ process = "running"
    /\ SetServos(FailsafeVector) \/ SetServosFails(FailsafeVector)

StoreFailsafePosition ==
    /\ process = "running"
    /\ \E v \in Vectors : StorePosition(v)
    /\ UNCHANGED <<width, process>>

(* servod is stopped and started between two calls: all outputs are off. *)
ServodRestarts ==
    /\ width' = [s \in Servo |-> 0]
    /\ UNCHANGED <<channelVars, process>>

Next ==
    \/ Command
    \/ CommandFails
    \/ SetFailsafe
    \/ StoreFailsafePosition
    \/ ServodRestarts

Spec == Init /\ [][Next]_vars

(* A client that controls sends a cdc every 20 ms (RCClient.c). *)
FairSpec == Spec /\ WF_vars(Command)
-----------------------------------------------------------------------------
(* Full deflection excepted, a servo in force is at its position, or off
   because servod was started again; also when the process ended in the middle
   of a call. *)
WidthFollows ==
    \A s \in Servo :
        oldChannels[s] \in 1 .. CHANNEL_MAX_POS - 1 =>
            width[s] \in {0, ConvertChannelToServoHw(oldChannels[s])}

(* The refresh brings the outputs back after servod was started again, even
   when the client keeps sending the same positions. *)
WidthIsRestored ==
    <>[][~ ServodRestarts]_vars =>
        \/ <>(process = "exited")
        \/ \A s \in Servo :
             <>[](oldChannels[s] \in 1 .. CHANNEL_MAX_POS - 1 =>
                    width[s] = ConvertChannelToServoHw(oldChannels[s]))

(* ServoDriverRPi.c: the conversion yields "the value needed by the servoblaster
   device", for the remote control's channel values up to CHANNEL_MAX_POS. *)
ServodAcceptsPosition ==
    \A s \in Servo :
        oldChannels[s] # 0 => Accepted(ConvertChannelToServoHw(oldChannels[s]))
=============================================================================
