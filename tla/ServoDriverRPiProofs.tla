------------------------ MODULE ServoDriverRPiProofs ------------------------
(***************************************************************************)
(* The Raspberry Pi: the driver, for any number of servos, and the pulses  *)
(* of its daemon, for every cycle, range of widths and start of the pulse. *)
(***************************************************************************)
EXTENDS ServoDriverRPi, Servod, ServoChannelsProofs

(***************************************************************************)
(* The driver                                                              *)
(*                                                                         *)
(* No servo is anywhere else than at its position or off.  The invariant   *)
(* needs the range of the conversion: below full deflection servod accepts *)
(* every width it yields.                                                  *)
(***************************************************************************)

IInv ==
    /\ oldChannels \in [Servo -> Int]
    /\ failsafe \in [Servo -> Int]
    /\ width \in [Servo -> Int]
    /\ WidthFollows

(* The values of CHANNEL_TO_SERVO are widths servod accepts. *)
LEMMA ConversionIsAccepted ==
    ASSUME NEW channel \in 1 .. CHANNEL_MAX_POS - 1
    PROVE  /\ ConvertChannelToServoHw(channel) \in Int
           /\ Accepted(ConvertChannelToServoHw(channel))
  <1>1. CHANNEL_MAX_POS \div (SERVO_MAX_POS - SERVO_MIN_POS) = 5
    BY DEF CHANNEL_MAX_POS, SERVO_MAX_POS, SERVO_MIN_POS
  <1>2. channel \in 1 .. 999
    BY DEF CHANNEL_MAX_POS
  <1>3. channel \div 5 \in 0 .. 199
    BY <1>2
  <1>4. ConvertChannelToServoHw(channel) = channel \div 5 + 50
    BY <1>1, <1>2 DEF ConvertChannelToServoHw, CHANNEL_MAX_POS, SERVO_MIN_POS
  <1> QED
    BY <1>3, <1>4 DEF Accepted, SERVO_MIN_POS, SERVO_MAX_POS

(* Setting any of the updated servos, all of them or those before a failed
   write, keeps the invariant when oldChannels follows for the same ones. *)
LEMMA SettingKeepsIInv ==
    ASSUME IInv, NEW v, NEW done \in SUBSET Servo, failsafe' = failsafe,
           width' = WidthAfter(v, done),
           oldChannels' = [s \in Servo |-> IF s \in done THEN Commanded(v)[s]
                                                         ELSE oldChannels[s]],
           \A s \in Servo : Commanded(v)[s] \in Int
    PROVE  IInv'
  <1>1. oldChannels' \in [Servo -> Int]
    BY DEF IInv
  <1>2. width' \in [Servo -> Int]
    BY DEF IInv, WidthAfter, Accepted, SERVO_MIN_POS, SERVO_MAX_POS
  <1>3. ASSUME NEW s \in Servo, oldChannels'[s] \in 1 .. CHANNEL_MAX_POS - 1
        PROVE  width'[s] \in {0, ConvertChannelToServoHw(oldChannels'[s])}
    <2>1. CASE s \in done
      BY <1>3, <2>1, ConversionIsAccepted DEF WidthAfter
    <2>2. CASE s \notin done
      BY <1>3, <2>2 DEF WidthAfter, IInv, WidthFollows
    <2> QED
      BY <2>1, <2>2
  <1> QED
    BY <1>1, <1>2, <1>3 DEF IInv, WidthFollows

(* SetServos keeps the invariant, also when it ends the program half-way. *)
LEMMA SetServosKeepsIInv ==
    ASSUME IInv, NEW v, \A s \in Servo : Commanded(v)[s] \in Int,
           SetServos(v) \/ SetServosFails(v)
    PROVE  IInv'
  <1>1. CASE SetServos(v)
    <2>1. \A s \in Servo \ Updated(v) : oldChannels[s] = Commanded(v)[s]
      BY DEF Updated
    <2>2. Commanded(v) = [s \in Servo |-> Commanded(v)[s]]
      BY DEF Commanded
    <2>3. oldChannels' = [s \in Servo |->
                            IF s \in Updated(v) THEN Commanded(v)[s]
                                                ELSE oldChannels[s]]
      BY <1>1, <2>1, <2>2 DEF SetServos, UpdateChannels
    <2>4. width' = WidthAfter(v, Updated(v)) /\ Updated(v) \subseteq Servo
      BY <1>1 DEF SetServos, Updated
    <2> QED
      BY <1>1, <2>3, <2>4, SettingKeepsIInv DEF SetServos, UpdateChannels
  <1>2. CASE SetServosFails(v)
    <2>1. PICK s \in Updated(v) :
            LET done == {t \in Updated(v) : t < s}
            IN  /\ width' = WidthAfter(v, done)
                /\ oldChannels' = [t \in Servo |-> IF t \in done
                                                     THEN Commanded(v)[t]
                                                     ELSE oldChannels[t]]
      BY <1>2 DEF SetServosFails
    <2> DEFINE done == {t \in Updated(v) : t < s}
    <2>2. done \in SUBSET Servo
      BY DEF Updated
    <2>3. /\ width' = WidthAfter(v, done)
          /\ failsafe' = failsafe
          /\ oldChannels' = [t \in Servo |-> IF t \in done THEN Commanded(v)[t]
                                                           ELSE oldChannels[t]]
      BY <1>2, <2>1 DEF SetServosFails
    <2> HIDE DEF done
    <2> QED
      BY <2>2, <2>3, SettingKeepsIInv
  <1> QED
    BY <1>1, <1>2
-----------------------------------------------------------------------------
(* The vectors of clients, and the stored positions, are vectors of integers. *)
LEMMA CommandedType ==
    \A v \in Vectors : \A s \in Servo : Commanded(v)[s] \in Int
  BY CommandedRange DEF Channel

(* SetFailsafe puts out numbers, which is what the invariant needs of a vector. *)
LEMMA FailsafeVectorType ==
    ASSUME failsafe \in [Servo -> Int]
    PROVE  \A s \in Servo : Commanded(FailsafeVector)[s] \in Int
  <1> SUFFICES ASSUME NEW s \in Servo PROVE FailsafeVector[s + 1] \in Int
    BY DEF Commanded
  <1>1. s + 1 \in 1 .. NofServos /\ (s + 1) - 1 = s
    BY PeriodAssumption DEF Servo
  <1> QED
    BY <1>1 DEF FailsafeVector

(* Storing failsafe positions keeps the invariant. *)
LEMMA StoreKeepsIInv ==
    ASSUME IInv, StoreFailsafePosition
    PROVE  IInv'
  <1>1. PICK v \in Vectors : StorePosition(v)
    BY DEF StoreFailsafePosition
  <1>2. failsafe' = [s \in Servo |-> IF s < Len(v) THEN Commanded(v)[s]
                                                   ELSE failsafe[s]]
    BY <1>1 DEF StorePosition, Commanded
  <1>3. failsafe' \in [Servo -> Int]
    BY <1>2, CommandedType DEF IInv
  <1> QED
    BY <1>1, <1>3 DEF StoreFailsafePosition, StorePosition, IInv, WidthFollows

(* Every step of the driver and of servod keeps the invariant. *)
LEMMA NextIInv == IInv /\ [Next]_vars => IInv'
  <1> SUFFICES ASSUME IInv, [Next]_vars PROVE IInv'
    OBVIOUS
  <1>1. CASE Command \/ CommandFails
    BY <1>1, CommandedType, SetServosKeepsIInv DEF Command, CommandFails
  <1>2. CASE SetFailsafe
    BY <1>2, FailsafeVectorType, SetServosKeepsIInv DEF SetFailsafe, IInv
  <1>3. CASE StoreFailsafePosition
    BY <1>3, StoreKeepsIInv
  <1>4. CASE ServodRestarts
    BY <1>4 DEF ServodRestarts, channelVars, IInv, WidthFollows
  <1>5. CASE UNCHANGED vars
    BY <1>5 DEF vars, channelVars, IInv, WidthFollows
  <1> QED
    BY <1>1, <1>2, <1>3, <1>4, <1>5 DEF Next

(* Below full deflection a servo in force is at its position or off, after any
   calls, failed writes and restarts of servod. *)
THEOREM OutputsFollow == Spec => []WidthFollows
  <1>1. Init => IInv
    BY DEF Init, ChannelsInit, IInv, WidthFollows
  <1>2. IInv => WidthFollows
    BY DEF IInv
  <1> QED
    BY <1>1, <1>2, NextIInv, PTL DEF Spec
-----------------------------------------------------------------------------
(* Types.  What servod puts out it has accepted. *)

Width == {0} \cup SERVO_MIN_POS .. SERVO_MAX_POS

(* Whatever a call puts out, each width is 0 or within the limits of servod. *)
LEMMA WidthRange ==
    ASSUME width \in [Servo -> Width], NEW v, NEW S
    PROVE  WidthAfter(v, S) \in [Servo -> Width]
  BY DEF WidthAfter, Accepted, Width

(* A call that fails has set a prefix of the servos it updates. *)
LEMMA FailedChannelsType ==
    ASSUME ChannelsTypeOK, NEW v, Commanded(v) \in [Servo -> Channel], SetServosFails(v)
    PROVE  ChannelsTypeOK'
  <1>1. PICK s \in Updated(v) :
          LET done == {t \in Updated(v) : t < s}
          IN  oldChannels' = [t \in Servo |-> IF t \in done THEN Commanded(v)[t] ELSE oldChannels[t]]
    BY DEF SetServosFails
  <1>2. oldChannels' \in [Servo -> Channel]
    BY <1>1 DEF ChannelsTypeOK, Channel
  <1>3. count' \in 0 .. UpdatePeriod - 1 /\ failsafe' = failsafe /\ stateFile' = stateFile
    BY CountRange DEF SetServosFails, ChannelsTypeOK
  <1> QED
    BY <1>2, <1>3 DEF ChannelsTypeOK, Channel

(* SetServos keeps the types, *)
LEMMA SetServosType ==
    ASSUME TypeOK, NEW v, Commanded(v) \in [Servo -> Channel],
           SetServos(v) \/ SetServosFails(v)
    PROVE  TypeOK'
  <1>1. ChannelsTypeOK'
    BY UpdateChannelsType, FailedChannelsType DEF TypeOK, SetServos
  <1>2. width' \in [Servo -> Width]
    <2>1. \E S : width' = WidthAfter(v, S)
      BY DEF SetServos, SetServosFails
    <2>2. width \in [Servo -> Width]
      BY DEF TypeOK, Width
    <2> QED
      BY <2>1, <2>2, WidthRange
  <1>3. process' \in {"running", "exited"}
    BY DEF TypeOK, SetServos, SetServosFails
  <1> QED
    BY <1>1, <1>2, <1>3 DEF TypeOK, Width

(* and so does every step. *)
LEMMA NextType == TypeOK /\ [Next]_vars => TypeOK'
  <1> SUFFICES ASSUME TypeOK, [Next]_vars PROVE TypeOK'
    OBVIOUS
  <1>1. CASE Command \/ CommandFails
    BY <1>1, CommandedRange, SetServosType DEF Command, CommandFails
  <1>2. CASE SetFailsafe
    <2>1. failsafe \in [Servo -> Channel]
      BY DEF TypeOK, ChannelsTypeOK, Channel
    <2> QED
      BY <1>2, <2>1, FailsafeRange, SetServosType DEF SetFailsafe
  <1>3. CASE StoreFailsafePosition
    <2>1. ChannelsTypeOK'
      BY <1>3, StorePositionType DEF TypeOK, StoreFailsafePosition
    <2> QED
      BY <1>3, <2>1 DEF TypeOK, StoreFailsafePosition
  <1>4. CASE ServodRestarts
    BY <1>4 DEF ServodRestarts, channelVars, TypeOK, ChannelsTypeOK
  <1>5. CASE UNCHANGED vars
    BY <1>5 DEF vars, channelVars, TypeOK, ChannelsTypeOK
  <1> QED
    BY <1>1, <1>2, <1>3, <1>4, <1>5 DEF Next

(* No pulse is outside the limits of the servos, at full deflection either, and
   positions stay in their range; also when a call fails half-way. *)
THEOREM TypeCorrectness == Spec => []TypeOK
  <1>1. Init => TypeOK
    BY ChannelsInitType DEF Init, TypeOK
  <1> QED
    BY <1>1, NextType, PTL DEF Spec

(***************************************************************************)
(* servod                                                                  *)
(*                                                                         *)
(* Samples are counted from the start of the pulse, by D, so that the      *)
(* wrap around the end of the cycle is dealt with once, in the lemmas      *)
(* Succ, Pred and Past.  The invariant says of every state which turn-off  *)
(* bits are set (a store of set_servo changes one), how long the output    *)
(* has been on and which widths the pulse may still end at, and how many   *)
(* control blocks the DMA controller is from each turn-off.                *)
(***************************************************************************)


N == num_samples

(* How far past the start of the pulse sample p is. *)
D(p) == IF p >= servostart THEN p - servostart ELSE p - servostart + N

JobAt == {"select", "clear", "set", "commit", "turnon", "gpio_set", "udelay", "reset"}
Jobs == [at : JobAt, old : 0 .. N, width : 0 .. N, i : 0 .. 2 * N + 1, dp : Sample]

(* The types; the block that turns on is only there at the start of the pulse. *)
PulseTypeOK ==
    /\ turnoff_mask \in [Sample -> BOOLEAN] /\ turnon_mask \in BOOLEAN
    /\ servostart \in Sample /\ servowidth \in 0 .. N /\ kill_time \in BOOLEAN
    /\ job \in Jobs /\ killed \in BOOLEAN
    /\ pos \in Sample /\ block \in {"off", "on", "delay"} /\ level \in BOOLEAN
    /\ high \in 0 .. N /\ since \subseteq 0 .. N /\ shrunk \in BOOLEAN
    /\ block = "on" => pos = servostart

(* set_servo has begun and has not stored turnon_mask. *)
UnderWay == job.at \in {"clear", "set", "commit", "turnon"}

(* Where set_servo is, and what the other stores follow. *)
JobInv ==
    /\ UnderWay => IF job.at = "turnon" THEN servowidth = job.width ELSE job.old = servowidth
    /\ UnderWay /\ killed => job.width = 0
    /\ job.at = "clear" => servowidth < job.i /\ job.i <= job.width
    /\ job.at = "set" => job.width <= job.i /\ job.i < servowidth
    /\ job.at \in {"clear", "set"} => D(job.dp) = IF job.i = N THEN 0 ELSE job.i
    /\ job.at = "gpio_set" => servowidth = N /\ ~turnon_mask
    /\ job.at \in {"select", "gpio_set"} => ~killed
    /\ job.at \in {"udelay", "reset"} => killed /\ ~turnon_mask

(* The turn-off bit of the sample d past the start of the pulse, from any store of
   set_servo to the next, is set exactly where it should be: MaskInv.  (The signal
   may interrupt set_servo, and the bits are then those of no width.) *)
OffAt(d) == CASE job.at = "clear" -> d >= job.width \/ (servowidth <= d /\ d < job.i)
              [] job.at = "set" -> d >= servowidth \/ (job.width <= d /\ d < job.i)
              [] job.at = "commit" -> d >= job.width
              [] OTHER -> d >= servowidth
MaskInv == ~killed => \A p \in Sample : turnoff_mask[p] <=> OffAt(D(p))

(* A pulse is turned on only when its width is not 0, or was not before this set_servo. *)
OnInv == ~killed /\ turnon_mask => IF job.at = "turnon" THEN job.old > 0 ELSE servowidth > 0

(* How long a pulse that began at its start has been on; what it will have been on
   for when the next turn-off is tried; and the width it ends at if it is not cut. *)
Elapsed == IF block # "delay" /\ pos = servostart THEN N ELSE D(pos)
NextOff == IF block = "delay" THEN high + 1 ELSE high
Ending == IF job.at \in {"commit", "turnon"} THEN job.width ELSE servowidth
(* A pulse is at least the whole cycle, and that was asked for; or it is still short
   enough to end at a width that was asked for. *)
Overlong == high = N /\ N \in since
Within == /\ block # "on" /\ high = Elapsed
          /\ \E b \in since : NextOff <= b
          /\ ~shrunk => NextOff <= Ending

(* A pulse that is on may end at the width stored or under way. *)
PulseInv == ~killed /\ level =>
    /\ servowidth \in since /\ (UnderWay => job.width \in since)
    /\ UnderWay /\ job.width < job.old => shrunk
    /\ Overlong \/ Within

(* The control blocks of a cycle, numbered from the start of the pulse: there are
   2 * N + 1.  Ahead(p): how many are left until p's turn-off has been done. *)
Phase == IF block = "on" THEN 1
         ELSE IF block = "delay" THEN 2 * D(pos) + 2
         ELSE IF pos = servostart THEN 0 ELSE 2 * D(pos) + 1
OffPhase(p) == IF p = servostart THEN 0 ELSE 2 * D(p) + 1
Ahead(p) == IF OffPhase(p) >= Phase THEN OffPhase(p) - Phase + 1 ELSE OffPhase(p) - Phase + 2 * N + 2
(* terminate sleeps for at least the blocks up to the last turn-off that is set. *)
SleepInv ==
    /\ job.at = "udelay" /\ level => \A p \in Sample : turnoff_mask[p] => Ahead(p) <= job.i
    /\ OffWhenReset

PulseIInv == PulseTypeOK /\ JobInv /\ MaskInv /\ OnInv /\ PulseInv /\ SleepInv

-----------------------------------------------------------------------------
(* What main accepts, in terms of N. *)
LEMMA Cycle == N \in Nat \ {0} /\ Sample = 0 .. N - 1 /\ 0 \in Sample
  BY ServodAssumption DEF N, Sample

(* D numbers the samples of the cycle. *)
LEMMA Distance ==
    ASSUME servostart \in Sample, NEW p \in Sample
    PROVE  /\ D(p) \in 0 .. N - 1
           /\ D(p) = 0 <=> p = servostart
           /\ \A q \in Sample : D(p) = D(q) => p = q
  BY Cycle DEF D

(* The next sample, around the end of the cycle ... *)
LEMMA Succ ==
    ASSUME servostart \in Sample, NEW p \in Sample
    PROVE  /\ (p + 1) % num_samples \in Sample
           /\ D((p + 1) % num_samples) = IF D(p) = N - 1 THEN 0 ELSE D(p) + 1
  <1>1. p \in 0 .. num_samples - 1 /\ num_samples \in Nat \ {0}
    BY Cycle DEF N
  <1>2. (p + 1) % num_samples = IF p + 1 < N THEN p + 1 ELSE p + 1 - N
    BY <1>1 DEF N
  <1> QED
    BY <1>2, Cycle DEF D

(* ... the one before ... *)
LEMMA Pred ==
    ASSUME servostart \in Sample, NEW p \in Sample
    PROVE  /\ (p + num_samples - 1) % num_samples \in Sample
           /\ D((p + num_samples - 1) % num_samples) = IF D(p) = 0 THEN N - 1 ELSE D(p) - 1
  <1>1. p \in 0 .. num_samples - 1 /\ num_samples \in Nat \ {0}
    BY Cycle DEF N
  <1>2. (p + num_samples - 1) % num_samples = IF p = 0 THEN N - 1 ELSE p - 1
    BY <1>1 DEF N
  <1> QED
    BY <1>2, Cycle DEF D

(* ... and the one past a pulse of width w. *)
LEMMA Past ==
    ASSUME servostart \in Sample, NEW w \in 0 .. N
    PROVE  /\ (servostart + w) % num_samples \in Sample
           /\ D((servostart + w) % num_samples) = IF w = N THEN 0 ELSE w
  <1>1. servostart \in 0 .. num_samples - 1 /\ num_samples \in Nat \ {0} /\ w \in 0 .. num_samples
    BY Cycle DEF N
  <1>2. (servostart + w) % num_samples = IF servostart + w < N THEN servostart + w ELSE servostart + w - N
    BY <1>1 DEF N
  <1> QED
    BY <1>2, Cycle DEF D

-----------------------------------------------------------------------------
(* A width that parse_width accepts fits the cycle, whatever was written. *)
LEMMA AskedWidth ==
    ASSUME NEW arg, parse_width(arg) # -1
    PROVE  parse_width(arg) \in 0 .. N
  <1>1. \A v : (IF v = 0 \/ v \in servo_min_ticks .. servo_max_ticks THEN v ELSE -1) # -1 => v \in 0 .. N
    BY ServodAssumption DEF N
  <1>2. \A v : v = 0 \/ v \in servo_min_ticks .. servo_max_ticks => v # -1 /\ v \in 0 .. N
    BY ServodAssumption DEF N
  <1> QED
    BY <1>1, <1>2 DEF parse_width

(* The types that the arithmetic of a step needs. *)
LEMMA JobFields ==
    ASSUME PulseTypeOK
    PROVE  /\ job.at \in JobAt /\ job.old \in 0 .. N /\ job.width \in 0 .. N
           /\ job.i \in 0 .. 2 * N + 1 /\ job.dp \in Sample
           /\ servostart \in Sample /\ servowidth \in 0 .. N
           /\ N \in Nat \ {0}
  BY Cycle DEF PulseTypeOK, Jobs

(* A store that needs no data makes a job. *)
LEMMA Idle ==
    ASSUME NEW what \in JobAt
    PROVE  At(what) \in Jobs /\ At(what).at = what
  BY Cycle DEF At, Jobs

(* No pulse, and every turn-off set. *)
LEMMA InitInv == init_ctrl_data => PulseIInv
  <1> SUFFICES ASSUME init_ctrl_data PROVE PulseIInv
    OBVIOUS
  <1> USE DEF init_ctrl_data
  <1>1. PulseTypeOK
    <2>1. At("select") \in Jobs
      BY Idle DEF JobAt
    <2>2. servostart \in Sample
      BY ServodAssumption DEF Sample
    <2>3. turnoff_mask \in [Sample -> BOOLEAN]
      OBVIOUS
    <2>4. 0 \in 0 .. N /\ pos \in Sample /\ {} \subseteq 0 .. N /\ block # "on"
      BY Cycle
    <2> QED
      BY <2>1, <2>2, <2>3, <2>4 DEF PulseTypeOK
  <1>2. JobInv /\ OnInv /\ PulseInv /\ SleepInv
    BY DEF JobInv, UnderWay, OnInv, PulseInv, SleepInv, OffWhenReset, At
  <1>3. MaskInv
    BY <1>1, Distance, Cycle DEF MaskInv, OffAt, At, PulseTypeOK
  <1> QED
    BY <1>1, <1>2, <1>3 DEF PulseIInv

(* What set_servo prepares: dp is just past the pulse of the new width. *)
LEMMA SetServo ==
    ASSUME PulseTypeOK, NEW w \in 0 .. N, set_servo(w), UNCHANGED <<servostart, servowidth>>
    PROVE  /\ job' \in Jobs
           /\ job'.old = servowidth /\ job'.width = w /\ job'.i = w
           /\ job'.at = IF w > servowidth THEN "clear" ELSE IF w < servowidth THEN "set" ELSE "commit"
           /\ D(job.dp)' = IF w = N THEN 0 ELSE w
           /\ since' = since \cup {w} /\ shrunk' \in BOOLEAN /\ (shrunk' <=> shrunk \/ w < servowidth)
  <1>1. /\ servowidth \in 0 .. N /\ servostart \in Sample /\ w \in 0 .. 2 * N + 1
        /\ (servostart + w) % num_samples \in Sample
        /\ D((servostart + w) % num_samples) = IF w = N THEN 0 ELSE w
    BY Cycle, Past DEF PulseTypeOK
  <1>2. job' = [at |-> IF w > servowidth THEN "clear" ELSE IF w < servowidth THEN "set" ELSE "commit",
                old |-> servowidth, width |-> w, i |-> w, dp |-> (servostart + w) % num_samples]
    BY DEF set_servo
  <1>3. job' \in Jobs
    BY <1>1, <1>2 DEF Jobs, JobAt
  <1>4. D(job.dp)' = IF w = N THEN 0 ELSE w
    <2>1. job'.dp = (servostart + w) % num_samples
      BY <1>2
    <2>2. D(job.dp)' = D((servostart + w) % num_samples)
      BY <2>1 DEF D
    <2> QED
      BY <1>1, <2>2
  <1>5. shrunk' \in BOOLEAN
    BY DEF set_servo
  <1>6. shrunk' <=> shrunk \/ w < servowidth
    BY DEF set_servo
  <1> QED
    BY <1>2, <1>3, <1>4, <1>5, <1>6 DEF set_servo

(* The loop of set_servo goes on, or is over. *)
LEMMA NextStore ==
    ASSUME PulseTypeOK, NEW x \in Sample, NEW i \in 0 .. 2 * N + 1, job' = [Next1(i) EXCEPT !.dp = x]
    PROVE  /\ job' \in Jobs /\ job'.i = i /\ job'.dp = x /\ job'.old = job.old /\ job'.width = job.width
           /\ job'.at = IF i = servowidth THEN "commit" ELSE job.at
  <1>1. job \in Jobs /\ "commit" \in JobAt
    BY DEF PulseTypeOK, JobAt
  <1> QED
    BY <1>1 DEF Next1, Jobs

(* The distances do not change. *)
LEMMA SameDistance ==
    ASSUME UNCHANGED servostart
    PROVE  \A p : D(p)' = D(p)
  BY DEF D

(* A step of the program that lets the DMA controller be: the pulse goes on as it was. *)
LEMMA PulseGoesOn ==
    ASSUME PulseTypeOK, PulseTypeOK', UNCHANGED <<pos, block, high, servostart>>,
           since \subseteq since', shrunk => shrunk', ~shrunk' => Ending' >= Ending,
           Overlong \/ Within
    PROVE  Overlong' \/ Within'
  <1>1. Overlong => Overlong'
    BY DEF Overlong
  <1>2. ASSUME Within PROVE Within'
    <2>1. Elapsed' = Elapsed /\ NextOff' = NextOff
      BY SameDistance DEF Elapsed, NextOff
    <2>2. NextOff \in Nat /\ Ending \in Nat /\ Ending' \in Nat
      <3>1. job.width \in Nat /\ servowidth \in Nat /\ high \in Nat
        BY Cycle DEF PulseTypeOK, Jobs
      <3>2. job'.width \in Nat /\ servowidth' \in Nat
        BY Cycle DEF PulseTypeOK, Jobs
      <3> QED
        BY <3>1, <3>2 DEF NextOff, Ending
    <2>3. \E b \in since' : NextOff' <= b
      BY <1>2, <2>1 DEF Within
    <2>4. ~shrunk' => NextOff' <= Ending'
      BY <1>2, <2>1, <2>2 DEF Within
    <2> QED
      BY <1>2, <2>1, <2>3, <2>4 DEF Within
  <1> QED
    BY <1>1, <1>2

(* A width is asked for: nothing is stored yet. *)
LEMMA CommandInv ==
    ASSUME PulseIInv, NEW arg, ReadCommand(arg)
    PROVE  PulseIInv'
  <1> DEFINE w == parse_width(arg)
  <1>1. /\ job.at = "select" /\ w \in 0 .. N /\ set_servo(w)
        /\ UNCHANGED <<pos, block, high, servostart, turnoff_mask, turnon_mask, servowidth, kill_time, killed, level>>
    BY AskedWidth DEF ReadCommand, Program, dmaVars
  <1> HIDE DEF w
  <1>a. PulseTypeOK /\ JobInv /\ MaskInv /\ OnInv /\ PulseInv /\ SleepInv
    BY DEF PulseIInv
  <1>b. servowidth \in 0 .. N /\ w \in 0 .. N /\ N \in Nat \ {0}
    BY <1>1, <1>a, JobFields
  <1>2. /\ job' \in Jobs
        /\ job'.old = servowidth /\ job'.width = w /\ job'.i = w
        /\ job'.at = IF w > servowidth THEN "clear" ELSE IF w < servowidth THEN "set" ELSE "commit"
        /\ D(job.dp)' = IF w = N THEN 0 ELSE w
        /\ since' = since \cup {w} /\ shrunk' \in BOOLEAN /\ (shrunk' <=> shrunk \/ w < servowidth)
    BY <1>1, <1>a, SetServo
  <1>3. PulseTypeOK'
    BY <1>1, <1>2, <1>a DEF PulseTypeOK
  <1>4. ~killed
    BY <1>1, <1>a DEF JobInv
  <1>5. JobInv'
    BY <1>1, <1>2, <1>4, <1>b DEF JobInv, UnderWay
  <1>6. MaskInv'
    <2>1. ASSUME NEW p \in Sample PROVE D(p) \in 0 .. N - 1 /\ D(p)' = D(p)
      BY <1>1, <1>a, SameDistance, Distance DEF PulseTypeOK
    <2>2. ASSUME NEW p \in Sample PROVE turnoff_mask[p] <=> D(p) >= servowidth
      BY <1>1, <1>4, <1>a DEF MaskInv, OffAt
    <2>3. ASSUME NEW p \in Sample PROVE OffAt(D(p))' <=> D(p) >= servowidth
      BY <1>1, <1>2, <1>b, <2>1 DEF OffAt
    <2> QED
      BY <1>1, <2>2, <2>3 DEF MaskInv
  <1>7. OnInv'
    BY <1>1, <1>2, <1>a DEF OnInv
  <1>8. PulseInv'
    <2> SUFFICES ASSUME level PROVE PulseInv'
      BY <1>1 DEF PulseInv
    <2>1. servowidth \in since /\ (Overlong \/ Within)
      BY <1>4, <1>a DEF PulseInv
    <2>2. ~shrunk' => Ending' >= Ending
      BY <1>1, <1>2, <1>b DEF Ending
    <2>3. Overlong' \/ Within'
      BY <1>1, <1>2, <1>3, <1>a, <2>1, <2>2, PulseGoesOn
    <2> QED
      BY <1>1, <1>2, <1>b, <2>1, <2>3 DEF PulseInv
  <1>9. SleepInv'
    BY <1>1, <1>2 DEF SleepInv, OffWhenReset
  <1> QED
    BY <1>3, <1>5, <1>6, <1>7, <1>8, <1>9 DEF PulseIInv

(* The bit just before the last one cleared is cleared. *)
LEMMA ClearInv ==
    ASSUME PulseIInv, Clear
    PROVE  PulseIInv'
  <1> DEFINE dp == (job.dp + num_samples - 1) % num_samples
  <1>1. /\ job.at = "clear" /\ job' = [Next1(job.i - 1) EXCEPT !.dp = dp]
        /\ turnoff_mask' = [turnoff_mask EXCEPT ![dp] = FALSE]
        /\ UNCHANGED <<pos, block, high, servostart, turnon_mask, servowidth, kill_time, killed, level, since, shrunk>>
    BY DEF Clear, Program, dmaVars
  <1>a. PulseTypeOK /\ JobInv /\ MaskInv /\ OnInv /\ PulseInv /\ SleepInv
    BY DEF PulseIInv
  <1>b. /\ job.at \in JobAt /\ job.old \in 0 .. N /\ job.width \in 0 .. N
        /\ job.i \in 0 .. 2 * N + 1 /\ job.dp \in Sample
        /\ servostart \in Sample /\ servowidth \in 0 .. N /\ N \in Nat \ {0}
    BY <1>a, JobFields
  <1>c. /\ servowidth < job.i /\ job.i <= job.width /\ job.old = servowidth
        /\ D(job.dp) = IF job.i = N THEN 0 ELSE job.i
        /\ ~killed
    BY <1>1, <1>a, <1>b DEF JobInv, UnderWay
  <1>d. dp \in Sample /\ D(dp) = job.i - 1
    BY <1>b, <1>c, Pred
  <1>e. job.i - 1 \in 0 .. 2 * N + 1
    BY <1>b, <1>c
  <1> HIDE DEF dp
  <1>2. /\ job' \in Jobs /\ job'.i = job.i - 1 /\ job'.dp = dp /\ job'.old = job.old /\ job'.width = job.width
        /\ job'.at = IF job.i - 1 = servowidth THEN "commit" ELSE "clear"
    BY <1>1, <1>a, <1>d, <1>e, NextStore
  <1>3. PulseTypeOK'
    BY <1>1, <1>2, <1>a DEF PulseTypeOK
  <1>4. JobInv'
    <2>1. D(job.dp)' = job.i - 1
      BY <1>1, <1>2, <1>d, SameDistance
    <2> QED
      BY <1>1, <1>2, <1>b, <1>c, <2>1 DEF JobInv, UnderWay
  <1>5. MaskInv'
    <2> SUFFICES ASSUME NEW p \in Sample PROVE turnoff_mask'[p] <=> OffAt(D(p))'
      BY <1>1 DEF MaskInv
    <2>1. D(p) \in 0 .. N - 1 /\ D(p)' = D(p) /\ (D(p) = job.i - 1 <=> p = dp)
      BY <1>1, <1>b, <1>d, SameDistance, Distance
    <2>2. turnoff_mask[p] <=> D(p) >= job.width \/ (servowidth <= D(p) /\ D(p) < job.i)
      BY <1>1, <1>c, <1>a DEF MaskInv, OffAt
    <2>3. OffAt(D(p))' <=> D(p) >= job.width \/ (servowidth <= D(p) /\ D(p) < job.i - 1)
      BY <1>1, <1>2, <1>b, <1>c, <2>1 DEF OffAt
    <2>4. turnoff_mask'[p] = IF p = dp THEN FALSE ELSE turnoff_mask[p]
      BY <1>1, <1>a DEF PulseTypeOK
    <2> QED
      BY <1>b, <1>c, <2>1, <2>2, <2>3, <2>4
  <1>6. OnInv'
    BY <1>1, <1>2, <1>a DEF OnInv
  <1>7. PulseInv'
    <2> SUFFICES ASSUME level PROVE PulseInv'
      BY <1>1 DEF PulseInv
    <2>1. /\ servowidth \in since /\ job.width \in since /\ (Overlong \/ Within)
      BY <1>1, <1>c, <1>a DEF PulseInv, UnderWay
    <2>2. Ending' >= Ending
      BY <1>1, <1>2, <1>b, <1>c DEF Ending
    <2>3. Overlong' \/ Within'
      BY <1>1, <1>3, <1>a, <2>1, <2>2, PulseGoesOn
    <2> QED
      BY <1>1, <1>2, <1>b, <1>c, <2>1, <2>3 DEF PulseInv
  <1>8. SleepInv'
    BY <1>2 DEF SleepInv, OffWhenReset
  <1> QED
    BY <1>3, <1>4, <1>5, <1>6, <1>7, <1>8 DEF PulseIInv

(* The bit after the last one set is set; the pulse counts as shortened. *)
LEMMA SetInv ==
    ASSUME PulseIInv, Set
    PROVE  PulseIInv'
  <1> DEFINE dp == (job.dp + 1) % num_samples
  <1>1. /\ job.at = "set" /\ job' = [Next1(job.i + 1) EXCEPT !.dp = dp]
        /\ turnoff_mask' = [turnoff_mask EXCEPT ![job.dp] = TRUE]
        /\ UNCHANGED <<pos, block, high, servostart, turnon_mask, servowidth, kill_time, killed, level, since, shrunk>>
    BY DEF Set, Program, dmaVars
  <1>a. PulseTypeOK /\ JobInv /\ MaskInv /\ OnInv /\ PulseInv /\ SleepInv
    BY DEF PulseIInv
  <1>b. /\ job.at \in JobAt /\ job.old \in 0 .. N /\ job.width \in 0 .. N
        /\ job.i \in 0 .. 2 * N + 1 /\ job.dp \in Sample
        /\ servostart \in Sample /\ servowidth \in 0 .. N /\ N \in Nat \ {0}
    BY <1>a, JobFields
  <1>c. /\ job.width <= job.i /\ job.i < servowidth /\ job.old = servowidth
        /\ D(job.dp) = job.i /\ (killed => job.width = 0)
    BY <1>1, <1>a, <1>b DEF JobInv, UnderWay
  <1>d. dp \in Sample /\ D(dp) = IF job.i + 1 = N THEN 0 ELSE job.i + 1
    BY <1>b, <1>c, Succ
  <1>e. job.i + 1 \in 0 .. 2 * N + 1
    BY <1>b, <1>c
  <1> HIDE DEF dp
  <1>2. /\ job' \in Jobs /\ job'.i = job.i + 1 /\ job'.dp = dp /\ job'.old = job.old /\ job'.width = job.width
        /\ job'.at = IF job.i + 1 = servowidth THEN "commit" ELSE "set"
    BY <1>1, <1>a, <1>d, <1>e, NextStore
  <1>3. PulseTypeOK'
    BY <1>1, <1>2, <1>a DEF PulseTypeOK
  <1>4. JobInv'
    <2>1. D(job.dp)' = IF job.i + 1 = N THEN 0 ELSE job.i + 1
      BY <1>1, <1>2, <1>d, SameDistance
    <2> QED
      BY <1>1, <1>2, <1>b, <1>c, <2>1 DEF JobInv, UnderWay
  <1>5. MaskInv'
    <2> SUFFICES ASSUME ~killed, NEW p \in Sample PROVE turnoff_mask'[p] <=> OffAt(D(p))'
      BY <1>1 DEF MaskInv
    <2>1. D(p) \in 0 .. N - 1 /\ D(p)' = D(p) /\ (D(p) = job.i <=> p = job.dp)
      BY <1>1, <1>b, <1>c, SameDistance, Distance
    <2>2. turnoff_mask[p] <=> D(p) >= servowidth \/ (job.width <= D(p) /\ D(p) < job.i)
      BY <1>1, <1>c, <1>a DEF MaskInv, OffAt
    <2>3. OffAt(D(p))' <=> D(p) >= servowidth \/ (job.width <= D(p) /\ D(p) < job.i + 1)
      BY <1>1, <1>2, <1>b, <1>c, <2>1 DEF OffAt
    <2>4. turnoff_mask'[p] = IF p = job.dp THEN TRUE ELSE turnoff_mask[p]
      BY <1>1, <1>a DEF PulseTypeOK
    <2> QED
      BY <1>b, <1>c, <2>1, <2>2, <2>3, <2>4
  <1>6. OnInv'
    BY <1>1, <1>2, <1>a DEF OnInv
  <1>7. PulseInv'
    <2> SUFFICES ASSUME level, ~killed PROVE PulseInv'
      BY <1>1 DEF PulseInv
    <2>1. servowidth \in since /\ job.width \in since /\ shrunk /\ (Overlong \/ Within)
      BY <1>1, <1>b, <1>c, <1>a DEF PulseInv, UnderWay
    <2>2. Overlong' \/ Within'
      BY <1>1, <1>3, <1>a, <2>1, PulseGoesOn
    <2> QED
      BY <1>1, <1>2, <1>b, <1>c, <2>1, <2>2 DEF PulseInv
  <1>8. SleepInv'
    BY <1>2 DEF SleepInv, OffWhenReset
  <1> QED
    BY <1>3, <1>4, <1>5, <1>6, <1>7, <1>8 DEF PulseIInv

(* All bits are those of the new width when it is stored. *)
LEMMA CommitInv ==
    ASSUME PulseIInv, Commit
    PROVE  PulseIInv'
  <1>1. /\ job.at = "commit" /\ job' = [job EXCEPT !.at = "turnon"] /\ servowidth' = job.width
        /\ UNCHANGED <<pos, block, high, servostart, turnoff_mask, turnon_mask, kill_time, killed, level, since, shrunk>>
    BY DEF Commit, Program, dmaVars
  <1>a. PulseTypeOK /\ JobInv /\ MaskInv /\ OnInv /\ PulseInv /\ SleepInv
    BY DEF PulseIInv
  <1>b. /\ job.at \in JobAt /\ job.old \in 0 .. N /\ job.width \in 0 .. N
        /\ servostart \in Sample /\ servowidth \in 0 .. N /\ N \in Nat \ {0}
    BY <1>a, JobFields
  <1>c. job.old = servowidth /\ (killed => job.width = 0)
    BY <1>1, <1>a DEF JobInv, UnderWay
  <1>2. job' \in Jobs /\ job'.at = "turnon" /\ job'.width = job.width /\ job'.old = job.old
    <2>1. job \in Jobs /\ "turnon" \in JobAt
      BY <1>a DEF PulseTypeOK, JobAt
    <2> QED
      BY <1>1, <2>1 DEF Jobs
  <1>3. PulseTypeOK'
    BY <1>1, <1>2, <1>a, <1>b DEF PulseTypeOK
  <1>4. JobInv'
    BY <1>1, <1>2, <1>c DEF JobInv, UnderWay
  <1>5. MaskInv'
    <2> SUFFICES ASSUME ~killed, NEW p \in Sample PROVE turnoff_mask'[p] <=> OffAt(D(p))'
      BY <1>1 DEF MaskInv
    <2>1. D(p)' = D(p)
      BY <1>1, SameDistance
    <2>2. turnoff_mask[p] <=> D(p) >= job.width
      BY <1>1, <1>a DEF MaskInv, OffAt
    <2> QED
      BY <1>1, <1>2, <2>1, <2>2 DEF OffAt
  <1>6. OnInv'
    BY <1>1, <1>2, <1>a, <1>c DEF OnInv
  <1>7. PulseInv'
    <2> SUFFICES ASSUME level, ~killed PROVE PulseInv'
      BY <1>1 DEF PulseInv
    <2>1. /\ job.width \in since /\ (job.width < job.old => shrunk) /\ (Overlong \/ Within)
      BY <1>1, <1>a DEF PulseInv, UnderWay
    <2>2. Ending' >= Ending
      BY <1>1, <1>2, <1>b DEF Ending
    <2>3. Overlong' \/ Within'
      BY <1>1, <1>3, <1>a, <2>1, <2>2, PulseGoesOn
    <2> QED
      BY <1>1, <1>2, <2>1, <2>3 DEF PulseInv
  <1>8. SleepInv'
    BY <1>2 DEF SleepInv, OffWhenReset
  <1> QED
    BY <1>3, <1>4, <1>5, <1>6, <1>7, <1>8 DEF PulseIInv

(* After as many control blocks as the cycle has, every sample has been seen. *)
LEMMA AheadRange ==
    ASSUME PulseTypeOK, NEW p \in Sample
    PROVE  /\ Phase \in 0 .. 2 * N /\ OffPhase(p) \in 0 .. 2 * N
           /\ Ahead(p) \in 1 .. 2 * N + 1
  <1>1. D(p) \in 0 .. N - 1 /\ D(pos) \in 0 .. N - 1 /\ N \in Nat \ {0}
    BY Distance, Cycle DEF PulseTypeOK
  <1>2. Phase \in 0 .. 2 * N /\ OffPhase(p) \in 0 .. 2 * N
    BY <1>1 DEF Phase, OffPhase
  <1> QED
    BY <1>1, <1>2 DEF Ahead

(* The end of set_servo; for terminate the sleep begins. *)
LEMMA TurnOnInv ==
    ASSUME PulseIInv, TurnOn
    PROVE  PulseIInv'
  <1>1. /\ job.at = "turnon" /\ turnon_mask' = (job.width # 0)
        /\ job' = IF killed THEN [At("udelay") EXCEPT !.i = 2 * num_samples + 1] ELSE At("select")
        /\ kill_time' = (kill_time \/ idle_timeout)
        /\ UNCHANGED <<pos, block, high, servostart, turnoff_mask, servowidth, killed, level, since, shrunk>>
    BY DEF TurnOn, Program, dmaVars, update_idle_time
  <1>a. PulseTypeOK /\ JobInv /\ MaskInv /\ OnInv /\ PulseInv /\ SleepInv
    BY DEF PulseIInv
  <1>b. /\ job.width \in 0 .. N /\ servowidth \in 0 .. N /\ N \in Nat \ {0}
    BY <1>a, JobFields
  <1>c. servowidth = job.width /\ (killed => job.width = 0)
    BY <1>1, <1>a DEF JobInv, UnderWay
  <1>d. turnon_mask' \in BOOLEAN /\ (turnon_mask' <=> job.width # 0)
    BY <1>1
  <1>2. job' \in Jobs /\ job'.at = IF killed THEN "udelay" ELSE "select"
    <2>1. \A what \in {"udelay", "select"} : At(what) \in Jobs /\ At(what).at = what
      BY Idle DEF JobAt
    <2>2. [At("udelay") EXCEPT !.i = 2 * num_samples + 1] \in Jobs
      <3>1. 2 * num_samples + 1 \in 0 .. 2 * N + 1
        BY Cycle DEF N
      <3> QED
        BY <2>1, <3>1 DEF Jobs
    <2> QED
      BY <1>1, <2>1, <2>2 DEF At
  <1>3. PulseTypeOK'
    <2>1. kill_time' \in BOOLEAN
      BY <1>1
    <2> QED
      BY <1>1, <1>2, <1>d, <2>1, <1>a, <1>b DEF PulseTypeOK
  <1>4. JobInv'
    BY <1>1, <1>2, <1>c, <1>d DEF JobInv, UnderWay
  <1>5. MaskInv'
    <2> SUFFICES ASSUME ~killed, NEW p \in Sample PROVE turnoff_mask'[p] <=> OffAt(D(p))'
      BY <1>1 DEF MaskInv
    <2>1. D(p)' = D(p)
      BY <1>1, SameDistance
    <2>2. turnoff_mask[p] <=> D(p) >= servowidth
      BY <1>1, <1>a DEF MaskInv, OffAt
    <2> QED
      BY <1>1, <1>2, <2>1, <2>2 DEF OffAt
  <1>6. OnInv'
    BY <1>1, <1>2, <1>b, <1>c, <1>d DEF OnInv
  <1>7. PulseInv'
    <2> SUFFICES ASSUME level, ~killed PROVE PulseInv'
      BY <1>1 DEF PulseInv
    <2>1. /\ servowidth \in since /\ (Overlong \/ Within)
      BY <1>a DEF PulseInv, UnderWay
    <2>2. Ending' >= Ending
      BY <1>1, <1>2, <1>b, <1>c DEF Ending
    <2>3. Overlong' \/ Within'
      BY <1>1, <1>3, <1>a, <2>1, <2>2, PulseGoesOn
    <2> QED
      BY <1>1, <1>2, <2>1, <2>3 DEF PulseInv, UnderWay
  <1>8. SleepInv'
    <2>1. OffWhenReset'
      BY <1>2 DEF OffWhenReset
    <2>2. ASSUME killed, NEW p \in Sample PROVE Ahead(p)' <= job'.i
      <3>1. job'.i = 2 * N + 1
        BY <1>1, <2>2, Cycle DEF At, N
      <3>2. Ahead(p)' = Ahead(p)
        BY <1>1, SameDistance DEF Ahead, Phase, OffPhase
      <3> QED
        BY <1>a, <1>b, <3>1, <3>2, AheadRange
    <2> QED
      BY <1>1, <1>2, <2>1, <2>2 DEF SleepInv
  <1> QED
    BY <1>3, <1>4, <1>5, <1>6, <1>7, <1>8 DEF PulseIInv

(* The turn-on is removed; a pulse that is on keeps its end. *)
LEMMA IdleTimeoutInv ==
    ASSUME PulseIInv, get_next_idle_timeout
    PROVE  PulseIInv'
  <1>1. /\ job.at = "select" /\ turnon_mask' = FALSE /\ kill_time' = FALSE
        /\ job' = At(IF servowidth = num_samples THEN "gpio_set" ELSE "select")
        /\ UNCHANGED <<pos, block, high, servostart, turnoff_mask, servowidth, killed, level, since, shrunk>>
    BY DEF get_next_idle_timeout, set_servo_idle, Program, dmaVars
  <1>a. PulseTypeOK /\ JobInv /\ MaskInv /\ OnInv /\ PulseInv /\ SleepInv
    BY DEF PulseIInv
  <1>b. servowidth \in 0 .. N /\ N \in Nat \ {0} /\ N = num_samples
    BY <1>a, JobFields DEF N
  <1>c. ~killed
    BY <1>1, <1>a DEF JobInv
  <1>2. job' \in Jobs /\ job'.at = IF servowidth = N THEN "gpio_set" ELSE "select"
    BY <1>1, <1>b, Idle DEF JobAt
  <1>3. PulseTypeOK'
    BY <1>1, <1>2, <1>a DEF PulseTypeOK
  <1>4. JobInv'
    BY <1>1, <1>2, <1>c DEF JobInv, UnderWay
  <1>5. MaskInv'
    <2> SUFFICES ASSUME NEW p \in Sample PROVE turnoff_mask'[p] <=> OffAt(D(p))'
      BY <1>1 DEF MaskInv
    <2>1. D(p)' = D(p)
      BY <1>1, SameDistance
    <2>2. turnoff_mask[p] <=> D(p) >= servowidth
      BY <1>1, <1>c, <1>a DEF MaskInv, OffAt
    <2> QED
      BY <1>1, <1>2, <2>1, <2>2 DEF OffAt
  <1>6. OnInv'
    BY <1>1 DEF OnInv
  <1>7. PulseInv'
    <2> SUFFICES ASSUME level PROVE PulseInv'
      BY <1>1 DEF PulseInv
    <2>1. /\ servowidth \in since /\ (Overlong \/ Within)
      BY <1>c, <1>a DEF PulseInv
    <2>2. Ending' >= Ending
      BY <1>1, <1>2, <1>b DEF Ending
    <2>3. Overlong' \/ Within'
      BY <1>1, <1>3, <1>a, <2>1, <2>2, PulseGoesOn
    <2> QED
      BY <1>1, <1>2, <2>1, <2>3 DEF PulseInv, UnderWay
  <1>8. SleepInv'
    BY <1>2 DEF SleepInv, OffWhenReset
  <1> QED
    BY <1>3, <1>4, <1>5, <1>6, <1>7, <1>8 DEF PulseIInv

(* The output is forced off. *)
LEMMA GpioSetInv ==
    ASSUME PulseIInv, gpio_set
    PROVE  PulseIInv'
  <1>1. /\ job.at = "gpio_set" /\ level' = FALSE /\ job' = At("select")
        /\ UNCHANGED <<pos, block, high, servostart, turnoff_mask, turnon_mask, servowidth, kill_time, killed, since, shrunk>>
    BY DEF gpio_set, Program, dmaVars
  <1>a. PulseTypeOK /\ JobInv /\ MaskInv /\ OnInv /\ PulseInv /\ SleepInv
    BY DEF PulseIInv
  <1>b. ~killed /\ ~turnon_mask
    BY <1>1, <1>a DEF JobInv
  <1>2. job' \in Jobs /\ job'.at = "select"
    BY <1>1, Idle DEF JobAt
  <1>3. PulseTypeOK'
    BY <1>1, <1>2, <1>a DEF PulseTypeOK
  <1>4. JobInv'
    BY <1>1, <1>2, <1>b DEF JobInv, UnderWay
  <1>5. MaskInv'
    <2> SUFFICES ASSUME NEW p \in Sample PROVE turnoff_mask'[p] <=> OffAt(D(p))'
      BY <1>1 DEF MaskInv
    <2>1. D(p)' = D(p)
      BY <1>1, SameDistance
    <2>2. turnoff_mask[p] <=> D(p) >= servowidth
      BY <1>1, <1>b, <1>a DEF MaskInv, OffAt
    <2> QED
      BY <1>1, <1>2, <2>1, <2>2 DEF OffAt
  <1>6. OnInv'
    BY <1>1, <1>b DEF OnInv
  <1>7. PulseInv'
    BY <1>1 DEF PulseInv
  <1>8. SleepInv'
    BY <1>2 DEF SleepInv, OffWhenReset
  <1> QED
    BY <1>3, <1>4, <1>5, <1>6, <1>7, <1>8 DEF PulseIInv

(* The signal, at any store: set_servo(0) begins. *)
LEMMA TerminateInv ==
    ASSUME PulseIInv, terminate
    PROVE  PulseIInv'
  <1>1. /\ ~killed /\ killed' = TRUE /\ set_servo(0)
        /\ UNCHANGED <<turnoff_mask, turnon_mask, servostart, servowidth, kill_time, level, pos, block, high>>
    BY DEF terminate, dmaVars
  <1>a. PulseTypeOK
    BY DEF PulseIInv
  <1>b. servowidth \in 0 .. N /\ N \in Nat \ {0} /\ 0 \in 0 .. N
    BY <1>a, JobFields
  <1>2. /\ job' \in Jobs
        /\ job'.old = servowidth /\ job'.width = 0 /\ job'.i = 0
        /\ job'.at = IF 0 < servowidth THEN "set" ELSE "commit"
        /\ D(job.dp)' = 0
        /\ since' = since \cup {0} /\ shrunk' \in BOOLEAN
    BY <1>1, <1>a, <1>b, SetServo
  <1>3. PulseTypeOK'
    BY <1>1, <1>2, <1>a, <1>b DEF PulseTypeOK
  <1>4. JobInv'
    BY <1>1, <1>2, <1>b DEF JobInv, UnderWay
  <1>5. MaskInv' /\ OnInv' /\ PulseInv'
    BY <1>1 DEF MaskInv, OnInv, PulseInv
  <1>6. SleepInv'
    BY <1>2 DEF SleepInv, OffWhenReset
  <1> QED
    BY <1>3, <1>4, <1>5, <1>6 DEF PulseIInv

(* The sleep is over: no turn-off that is set is still ahead, so the output is off. *)
LEMMA ResetInv ==
    ASSUME PulseIInv, Reset
    PROVE  PulseIInv'
  <1>1. /\ job.at = "udelay" /\ job.i = 0 /\ job' = At("reset")
        /\ UNCHANGED <<pos, block, high, servostart, turnoff_mask, turnon_mask, servowidth, kill_time, killed, level, since, shrunk>>
    BY DEF Reset, dmaVars
  <1>a. PulseTypeOK /\ JobInv /\ SleepInv
    BY DEF PulseIInv
  <1>b. killed /\ ~turnon_mask
    BY <1>1, <1>a DEF JobInv
  <1>2. job' \in Jobs /\ job'.at = "reset"
    BY <1>1, Idle DEF JobAt
  <1>3. PulseTypeOK'
    BY <1>1, <1>2, <1>a DEF PulseTypeOK
  <1>4. JobInv'
    BY <1>1, <1>2, <1>b DEF JobInv, UnderWay
  <1>5. MaskInv' /\ OnInv' /\ PulseInv'
    BY <1>1, <1>b DEF MaskInv, OnInv, PulseInv
  <1>6. SleepInv'
    <2>1. ASSUME level, NEW p \in Sample PROVE ~turnoff_mask[p]
      <3>1. turnoff_mask[p] => Ahead(p) <= 0
        BY <1>1, <1>a, <2>1 DEF SleepInv
      <3> QED
        BY <1>a, <3>1, AheadRange
    <2>2. OffWhenReset'
      BY <1>1, <2>1 DEF OffWhenReset
    <2> QED
      BY <1>2, <2>2 DEF SleepInv
  <1> QED
    BY <1>3, <1>4, <1>5, <1>6 DEF PulseIInv

-----------------------------------------------------------------------------
(* A control block leaves the program and the masks alone. *)
LEMMA Slept ==
    ASSUME PulseTypeOK, job' = slept
    PROVE  /\ job' \in Jobs /\ job'.at = job.at /\ job'.old = job.old /\ job'.width = job.width
           /\ job'.dp = job.dp
           /\ job'.i = IF job.at = "udelay" /\ job.i > 0 THEN job.i - 1 ELSE job.i
  <1>1. job \in Jobs /\ job.i \in 0 .. 2 * N + 1 /\ N \in Nat \ {0}
    BY JobFields DEF PulseTypeOK
  <1>2. CASE job.at = "udelay" /\ job.i > 0
    <2>1. job.i - 1 \in 0 .. 2 * N + 1 /\ job' = [job EXCEPT !.i = job.i - 1]
      BY <1>1, <1>2 DEF slept, Jobs
    <2> QED
      BY <1>1, <1>2, <2>1 DEF Jobs
  <1>3. CASE ~(job.at = "udelay" /\ job.i > 0)
    BY <1>1, <1>3 DEF slept
  <1> QED
    BY <1>2, <1>3

(* The part of the invariant about the program survives every block. *)
LEMMA BlockKeepsProgram ==
    ASSUME PulseIInv, job' = slept,
           UNCHANGED <<turnoff_mask, turnon_mask, servostart, servowidth, kill_time, killed>>
    PROVE  JobInv' /\ MaskInv' /\ OnInv'
  <1>1. /\ job'.at = job.at /\ job'.old = job.old /\ job'.width = job.width /\ job'.dp = job.dp
        /\ job.at # "udelay" => job'.i = job.i
    BY Slept DEF PulseIInv
  <1>2. JobInv'
    <2>1. D(job.dp)' = D(job.dp)
      BY <1>1, SameDistance
    <2> QED
      BY <1>1, <2>1 DEF PulseIInv, JobInv, UnderWay
  <1>3. MaskInv'
    <2> SUFFICES ASSUME ~killed, NEW p \in Sample PROVE turnoff_mask'[p] <=> OffAt(D(p))'
      BY DEF MaskInv
    <2>1. D(p)' = D(p)
      BY SameDistance
    <2>2. turnoff_mask[p] <=> OffAt(D(p))
      BY DEF PulseIInv, MaskInv
    <2>3. job.at # "udelay"
      BY DEF PulseIInv, JobInv
    <2> QED
      BY <1>1, <2>1, <2>2, <2>3 DEF OffAt
  <1>4. OnInv'
    BY <1>1 DEF PulseIInv, OnInv
  <1> QED
    BY <1>2, <1>3, <1>4

(* The phase of the DMA controller goes on by one with every block, around the cycle. *)
Turns == Phase' = IF Phase = 2 * N THEN 0 ELSE Phase + 1

(* The phase goes on by one with each block. *)
LEMMA BlocksTurn ==
    ASSUME PulseTypeOK, DmaOff \/ DmaOn \/ DmaDelay
    PROVE  Turns
  <1>1. D(pos) \in 0 .. N - 1 /\ (D(pos) = 0 <=> pos = servostart) /\ N \in Nat \ {0}
    BY Distance, Cycle DEF PulseTypeOK
  <1>2. servostart' = servostart
    BY DEF DmaOff, DmaOn, DmaDelay, Dma
  <1>3. CASE DmaOff
    <2>1. block = "off" /\ block' = (IF pos = servostart THEN "on" ELSE "delay") /\ pos' = pos
      BY <1>3 DEF DmaOff, Dma
    <2>2. D(pos)' = D(pos)
      BY <1>2, <2>1 DEF D
    <2> QED
      BY <1>1, <1>2, <2>1, <2>2 DEF Turns, Phase
  <1>4. CASE DmaOn
    <2>1. block = "on" /\ block' = "delay" /\ pos' = pos /\ pos = servostart
      BY <1>4 DEF DmaOn, Dma, PulseTypeOK
    <2>2. D(pos)' = D(pos)
      BY <1>2, <2>1 DEF D
    <2> QED
      BY <1>1, <1>2, <2>1, <2>2 DEF Turns, Phase
  <1>5. CASE DmaDelay
    <2>1. block = "delay" /\ block' = "off" /\ pos' = (pos + 1) % num_samples
      BY <1>5 DEF DmaDelay, Dma
    <2>2. /\ pos' \in Sample /\ servostart \in Sample
          /\ D(pos') = IF D(pos) = N - 1 THEN 0 ELSE D(pos) + 1
      BY <2>1, Succ DEF PulseTypeOK
    <2>3. D(pos)' = D(pos') /\ (D(pos') = 0 <=> pos' = servostart)
      BY <1>2, <2>2, Distance DEF D
    <2> QED
      BY <1>1, <1>2, <2>1, <2>2, <2>3 DEF Turns, Phase
  <1> QED
    BY <1>3, <1>4, <1>5

(* Every other turn-off comes one block closer. *)
LEMMA AheadFalls ==
    ASSUME PulseTypeOK, Turns, UNCHANGED servostart, NEW p \in Sample, OffPhase(p) # Phase
    PROVE  Ahead(p)' = Ahead(p) - 1
  <1>1. Phase \in 0 .. 2 * N /\ OffPhase(p) \in 0 .. 2 * N /\ N \in Nat \ {0}
    BY AheadRange, Cycle
  <1>2. OffPhase(p)' = OffPhase(p)
    BY SameDistance DEF OffPhase
  <1> QED
    BY <1>1, <1>2 DEF Ahead, Turns

(* The sleep of terminate, block by block: no sample with a turn-off is missed. *)
LEMMA SleepGoesOn ==
    ASSUME PulseIInv, PulseTypeOK', Turns, job' = slept, job.at # "reset",
           UNCHANGED <<turnoff_mask, servostart>>, level' => level,
           \A p \in Sample : level' /\ turnoff_mask[p] => OffPhase(p) # Phase
    PROVE  SleepInv'
  <1>1. job'.at = job.at /\ job'.i = IF job.at = "udelay" /\ job.i > 0 THEN job.i - 1 ELSE job.i
    BY Slept DEF PulseIInv
  <1>2. OffWhenReset'
    BY <1>1 DEF OffWhenReset
  <1>3. ASSUME job.at = "udelay", level', NEW p \in Sample, turnoff_mask[p]
        PROVE  Ahead(p)' <= job'.i
    <2>1. Ahead(p) <= job.i /\ Ahead(p) \in 1 .. 2 * N + 1 /\ job.i \in 0 .. 2 * N + 1 /\ N \in Nat \ {0}
      BY <1>3, AheadRange, JobFields DEF PulseIInv, SleepInv
    <2>2. Ahead(p)' = Ahead(p) - 1
      BY <1>3, AheadFalls DEF PulseIInv
    <2> QED
      BY <1>1, <1>3, <2>1, <2>2
  <1> QED
    BY <1>1, <1>2, <1>3 DEF SleepInv

(* A turn-off that is tried ends the pulse, or the pulse may become longer. *)
LEMMA DmaOffInv ==
    ASSUME PulseIInv, DmaOff
    PROVE  PulseIInv'
  <1>1. /\ block = "off" /\ block' = (IF pos = servostart THEN "on" ELSE "delay") /\ pos' = pos
        /\ job' = slept /\ job.at # "reset"
        /\ UNCHANGED <<turnoff_mask, turnon_mask, servostart, servowidth, kill_time, killed>>
        /\ level' = (level /\ ~turnoff_mask[pos])
        /\ IF level' THEN UNCHANGED <<high, since, shrunk>> ELSE high' = 0 /\ since' = {} /\ shrunk' = FALSE
    BY DEF DmaOff, Dma
  <1>a. PulseTypeOK /\ JobInv /\ MaskInv /\ OnInv /\ PulseInv /\ SleepInv
    BY DEF PulseIInv
  <1>b. /\ servowidth \in 0 .. N /\ job.width \in 0 .. N /\ job.i \in 0 .. 2 * N + 1 /\ N \in Nat \ {0}
        /\ servostart \in Sample /\ pos \in Sample
        /\ D(pos) \in 0 .. N - 1 /\ (D(pos) = 0 <=> pos = servostart)
    BY <1>a, JobFields, Distance DEF PulseTypeOK
  <1>c. level' \in BOOLEAN /\ (level' <=> level /\ ~turnoff_mask[pos])
    BY <1>1, <1>a DEF PulseTypeOK
  <1>2. job' \in Jobs /\ job'.at = job.at /\ job'.width = job.width /\ job'.old = job.old
    BY <1>1, <1>a, Slept
  <1>3. PulseTypeOK'
    <2>1. high' \in 0 .. N /\ since' \subseteq 0 .. N /\ shrunk' \in BOOLEAN
      <3>1. CASE level'
        BY <1>1, <1>a, <3>1 DEF PulseTypeOK
      <3>2. CASE ~level'
        <4>1. high' = 0 /\ since' = {} /\ shrunk' = FALSE
          BY <1>1, <3>2
        <4>2. high' \in 0 .. N
          BY <1>b, <4>1
        <4>3. since' \subseteq 0 .. N /\ shrunk' \in BOOLEAN
          BY <4>1
        <4> QED
          BY <4>2, <4>3
      <3> QED
        BY <3>1, <3>2
    <2>2. block' \in {"off", "on", "delay"} /\ (block' = "on" => pos = servostart)
      BY <1>1
    <2> QED
      BY <1>1, <1>2, <1>a, <1>c, <2>1, <2>2 DEF PulseTypeOK
  <1>4. JobInv' /\ MaskInv' /\ OnInv'
    BY <1>1, BlockKeepsProgram
  <1>5. PulseInv'
    <2> SUFFICES ASSUME level', ~killed PROVE PulseInv'
      BY <1>1 DEF PulseInv
    <2>1. /\ level /\ ~turnoff_mask[pos] /\ UNCHANGED <<high, since, shrunk>>
          /\ servowidth \in since /\ (UnderWay => job.width \in since)
          /\ (UnderWay /\ job.width < job.old => shrunk)
          /\ (Overlong \/ Within)
      BY <1>1, <1>a, <1>c DEF PulseInv
    <2>2. ASSUME Overlong PROVE Overlong'
      BY <2>1, <2>2 DEF Overlong
    <2>3. ASSUME Within PROVE Overlong' \/ Within'
      <3>1. CASE pos = servostart
        BY <1>1, <1>a, <1>b, <2>1, <2>3, <3>1 DEF Within, Overlong, Elapsed, NextOff, PulseTypeOK
      <3>2. CASE pos # servostart
        <4>1. block' = "delay" /\ high = D(pos) /\ high \in Nat
          BY <1>1, <1>b, <2>3, <3>2 DEF Within, Elapsed
        <4>2. Elapsed' = D(pos) /\ NextOff' = high + 1 /\ NextOff = high
          BY <1>1, <2>1, <4>1, SameDistance DEF Elapsed, NextOff
        <4>3. ~OffAt(high)
          BY <1>a, <1>b, <2>1, <4>1 DEF MaskInv
        <4>4. \E b \in since : high + 1 <= b
          <5>1. PICK b \in since : high <= b
            BY <2>3, <4>2 DEF Within
          <5>2. b \in Nat
            BY <1>a, <1>b DEF PulseTypeOK
          <5>3. CASE UnderWay
            BY <1>1, <1>a, <1>b, <2>1, <4>1, <4>3, <5>1, <5>2, <5>3 DEF OffAt, UnderWay, JobInv
          <5>4. CASE ~UnderWay
            BY <1>1, <1>a, <1>b, <2>1, <4>1, <4>3, <5>1, <5>2, <5>4 DEF OffAt, UnderWay, JobInv
          <5> QED
            BY <5>3, <5>4
        <4>5. ~shrunk => high + 1 <= Ending
          <5> SUFFICES ASSUME ~shrunk PROVE high + 1 <= Ending
            OBVIOUS
          <5>1. high <= Ending
            BY <2>3, <4>2 DEF Within
          <5>2. UnderWay => job.width >= job.old
            BY <1>a, <1>b, <2>1 DEF PulseTypeOK, Jobs
          <5> QED
            BY <1>1, <1>a, <1>b, <4>1, <4>3, <5>1, <5>2 DEF OffAt, Ending, UnderWay, JobInv
        <4>6. Ending' = Ending
          BY <1>1, <1>2 DEF Ending
        <4> QED
          BY <2>1, <4>1, <4>2, <4>4, <4>5, <4>6 DEF Within
      <3> QED
        BY <3>1, <3>2
    <2> QED
      BY <1>1, <1>2, <2>1, <2>2, <2>3 DEF PulseInv, UnderWay
  <1>6. SleepInv'
    <2>1. Turns
      BY <1>a, BlocksTurn
    <2>2. ASSUME NEW p \in Sample, level', turnoff_mask[p] PROVE OffPhase(p) # Phase
      <3>1. p # pos
        BY <1>c, <2>2
      <3>2. D(p) # D(pos) /\ D(p) \in 0 .. N - 1 /\ (D(p) = 0 <=> p = servostart)
        BY <1>b, <3>1, Distance
      <3> QED
        BY <1>1, <1>b, <3>2 DEF OffPhase, Phase
    <2> QED
      BY <1>1, <1>3, <1>c, <2>1, <2>2, SleepGoesOn
  <1> QED
    BY <1>3, <1>4, <1>5, <1>6 DEF PulseIInv

(* A pulse begins, or one that was not ended goes on. *)
LEMMA DmaOnInv ==
    ASSUME PulseIInv, DmaOn
    PROVE  PulseIInv'
  <1>1. /\ block = "on" /\ block' = "delay" /\ pos' = pos
        /\ job' = slept /\ job.at # "reset"
        /\ UNCHANGED <<turnoff_mask, turnon_mask, servostart, servowidth, kill_time, killed>>
        /\ level' = (level \/ turnon_mask)
        /\ turnon_mask => /\ high' = 0
                          /\ since' = IF UnderWay THEN {job.old, job.width} ELSE {servowidth}
                          /\ shrunk' = (UnderWay /\ job.width < job.old)
        /\ ~turnon_mask => UNCHANGED <<high, since, shrunk>>
    BY DEF DmaOn, Dma, UnderWay
  <1>a. PulseTypeOK /\ JobInv /\ MaskInv /\ OnInv /\ PulseInv /\ SleepInv
    BY DEF PulseIInv
  <1>b. /\ servowidth \in 0 .. N /\ job.width \in 0 .. N /\ job.old \in 0 .. N /\ N \in Nat \ {0}
        /\ servostart \in Sample /\ pos = servostart /\ D(pos) = 0
    BY <1>1, <1>a, JobFields, Distance DEF PulseTypeOK
  <1>c. level' \in BOOLEAN /\ (level' <=> level \/ turnon_mask)
    BY <1>1, <1>a DEF PulseTypeOK
  <1>d. turnon_mask => shrunk' \in BOOLEAN /\ (shrunk' <=> UnderWay /\ job.width < job.old)
    BY <1>1
  <1>2. job' \in Jobs /\ job'.at = job.at /\ job'.width = job.width /\ job'.old = job.old
    BY <1>1, <1>a, Slept
  <1>3. PulseTypeOK'
    <2>1. high' \in 0 .. N /\ since' \subseteq 0 .. N /\ shrunk' \in BOOLEAN
      <3>1. CASE turnon_mask
        BY <1>1, <1>b, <1>d, <3>1
      <3>2. CASE ~turnon_mask
        BY <1>1, <1>a, <3>2 DEF PulseTypeOK
      <3> QED
        BY <3>1, <3>2
    <2> QED
      BY <1>1, <1>2, <1>a, <1>c, <2>1 DEF PulseTypeOK
  <1>4. JobInv' /\ MaskInv' /\ OnInv'
    BY <1>1, BlockKeepsProgram
  <1>5. PulseInv'
    <2> SUFFICES ASSUME level', ~killed PROVE PulseInv'
      BY <1>1 DEF PulseInv
    <2>1. CASE ~turnon_mask
      <3>1. /\ servowidth \in since /\ (UnderWay => job.width \in since)
            /\ (UnderWay /\ job.width < job.old => shrunk) /\ Overlong
        BY <1>1, <1>a, <1>c, <2>1 DEF PulseInv, Within
      <3>2. Overlong'
        BY <1>1, <2>1, <3>1 DEF Overlong
      <3> QED
        BY <1>1, <1>2, <2>1, <3>1, <3>2 DEF PulseInv, UnderWay
    <2>2. CASE turnon_mask
      <3>1. UnderWay => IF job.at = "turnon" THEN servowidth = job.width ELSE job.old = servowidth
        BY <1>a DEF JobInv
      <3>2. IF job.at = "turnon" THEN job.old > 0 ELSE servowidth > 0
        BY <1>a, <2>2 DEF OnInv
      <3>3. \E b \in since' : 1 <= b
        BY <1>1, <1>b, <2>2, <3>1, <3>2 DEF UnderWay
      <3>4. ~shrunk' => 1 <= Ending
        BY <1>1, <1>a, <1>b, <1>d, <2>2, <3>1, <3>2 DEF UnderWay, Ending, JobInv
      <3>5. Ending' = Ending
        BY <1>1, <1>2 DEF Ending
      <3>6. Elapsed' = 0 /\ high' = 0 /\ NextOff' = 1
        BY <1>1, <1>b, <2>2, SameDistance DEF Elapsed, NextOff
      <3>7. Within'
        BY <1>1, <3>3, <3>4, <3>5, <3>6 DEF Within
      <3>8. servowidth \in since' /\ (UnderWay => job.width \in since')
        BY <1>1, <2>2, <3>1 DEF UnderWay
      <3> QED
        BY <1>1, <1>2, <1>d, <2>2, <3>7, <3>8 DEF PulseInv, UnderWay
    <2> QED
      BY <2>1, <2>2
  <1>6. SleepInv'
    <2>1. Turns
      BY <1>a, BlocksTurn
    <2>2. ASSUME NEW p \in Sample PROVE OffPhase(p) # Phase
      <3>1. D(p) \in 0 .. N - 1 /\ (D(p) = 0 <=> p = servostart)
        BY <1>b, Distance
      <3> QED
        BY <1>1, <1>b, <3>1 DEF OffPhase, Phase
    <2>3. CASE job.at = "udelay"
      <3>1. level' => level
        BY <1>a, <1>c, <2>3 DEF JobInv
      <3> QED
        BY <1>1, <1>3, <2>1, <2>2, <3>1, SleepGoesOn
    <2>4. CASE job.at # "udelay"
      BY <1>1, <1>2, <2>4 DEF SleepInv, OffWhenReset
    <2> QED
      BY <2>3, <2>4
  <1> QED
    BY <1>3, <1>4, <1>5, <1>6 DEF PulseIInv

(* The time of a sample passes. *)
LEMMA DmaDelayInv ==
    ASSUME PulseIInv, DmaDelay
    PROVE  PulseIInv'
  <1>1. /\ block = "delay" /\ block' = "off" /\ pos' = (pos + 1) % num_samples
        /\ job' = slept /\ job.at # "reset"
        /\ UNCHANGED <<turnoff_mask, turnon_mask, servostart, servowidth, kill_time, killed, level, since, shrunk>>
        /\ high' = IF level /\ high < num_samples THEN high + 1 ELSE high
    BY DEF DmaDelay, Dma
  <1>a. PulseTypeOK /\ JobInv /\ MaskInv /\ OnInv /\ PulseInv /\ SleepInv
    BY DEF PulseIInv
  <1>b. /\ N \in Nat \ {0} /\ N = num_samples /\ high \in 0 .. N
        /\ servostart \in Sample /\ pos \in Sample
        /\ D(pos) \in 0 .. N - 1 /\ (D(pos) = 0 <=> pos = servostart)
    BY <1>a, JobFields, Distance DEF PulseTypeOK, N
  <1>c. /\ pos' \in Sample /\ D(pos)' = IF D(pos) = N - 1 THEN 0 ELSE D(pos) + 1
        /\ (D(pos)' = 0 <=> pos' = servostart)
    <2>1. pos' \in Sample /\ D(pos') = IF D(pos) = N - 1 THEN 0 ELSE D(pos) + 1
      BY <1>1, <1>b, Succ
    <2>2. D(pos)' = D(pos')
      BY <1>1 DEF D
    <2> QED
      BY <1>b, <2>1, <2>2, Distance
  <1>2. job' \in Jobs /\ job'.at = job.at /\ job'.width = job.width /\ job'.old = job.old
    BY <1>1, <1>a, Slept
  <1>3. PulseTypeOK'
    <2>1. high' \in 0 .. N
      BY <1>1, <1>b
    <2> QED
      BY <1>1, <1>2, <1>a, <1>c, <2>1 DEF PulseTypeOK
  <1>4. JobInv' /\ MaskInv' /\ OnInv'
    BY <1>1, BlockKeepsProgram
  <1>5. PulseInv'
    <2> SUFFICES ASSUME level, ~killed PROVE PulseInv'
      BY <1>1 DEF PulseInv
    <2>1. /\ servowidth \in since /\ (UnderWay => job.width \in since)
          /\ (UnderWay /\ job.width < job.old => shrunk)
          /\ (Overlong \/ Within)
      BY <1>a DEF PulseInv
    <2>2. ASSUME Overlong PROVE Overlong'
      BY <1>1, <1>b, <2>2 DEF Overlong
    <2>3. ASSUME Within PROVE Within'
      <3>1. high = D(pos) /\ high' = high + 1
        BY <1>1, <1>b, <2>3 DEF Within, Elapsed
      <3>2. Elapsed' = high' /\ NextOff' = high' /\ NextOff = high'
        BY <1>1, <1>b, <1>c, <3>1 DEF Elapsed, NextOff
      <3>3. Ending' = Ending
        BY <1>1, <1>2 DEF Ending
      <3> QED
        BY <1>1, <2>3, <3>2, <3>3 DEF Within
    <2> QED
      BY <1>1, <1>2, <2>1, <2>2, <2>3 DEF PulseInv, UnderWay
  <1>6. SleepInv'
    <2>1. Turns
      BY <1>a, BlocksTurn
    <2>2. ASSUME NEW p \in Sample PROVE OffPhase(p) # Phase
      <3>1. D(p) \in 0 .. N - 1 /\ (D(p) = 0 <=> p = servostart)
        BY <1>b, Distance
      <3> QED
        BY <1>1, <1>b, <3>1 DEF OffPhase, Phase
    <2> QED
      BY <1>1, <1>3, <2>1, <2>2, SleepGoesOn
  <1> QED
    BY <1>3, <1>4, <1>5, <1>6 DEF PulseIInv

-----------------------------------------------------------------------------
(* Every step of Servod keeps the invariant. *)
LEMMA NextInv == PulseIInv /\ [ServodNext]_servodVars => PulseIInv'
  <1> SUFFICES ASSUME PulseIInv, [ServodNext]_servodVars PROVE PulseIInv'
    OBVIOUS
  <1>1. CASE UNCHANGED servodVars
    BY <1>1 DEF servodVars, progVars, dmaVars, PulseIInv, PulseTypeOK, JobInv, MaskInv, OnInv, PulseInv, SleepInv,
                OffWhenReset, Jobs, UnderWay, OffAt, D, Overlong, Within, NextOff, Elapsed, Ending, Ahead,
                Phase, OffPhase
  <1>2. CASE ServodNext
    BY <1>2, CommandInv, ClearInv, SetInv, CommitInv, TurnOnInv, IdleTimeoutInv, GpioSetInv, TerminateInv,
       ResetInv, DmaOffInv, DmaOnInv, DmaDelayInv DEF ServodNext
  <1> QED
    BY <1>1, <1>2

(* The invariant holds of every behaviour of the program and the DMA controller. *)
THEOREM ServodInvariant == ServodSpec => []PulseIInv
  BY InitInv, NextInv, PTL DEF ServodSpec

(* The widths, counters and positions stay in their ranges: no store of set_servo is
   outside the masks. *)
THEOREM ServodTypes == ServodSpec => []PulseTypeOK
  BY ServodInvariant, PTL DEF PulseIInv

(* The output is off when terminate resets the DMA controller, at whatever store of
   the program and block of the cycle the signal came. *)
THEOREM OffAtReset == ServodSpec => []OffWhenReset
  <1>1. PulseIInv => OffWhenReset
    BY DEF PulseIInv, SleepInv
  <1> QED
    BY <1>1, ServodInvariant, PTL

(* The action that PulsesAreWhole is about. *)
WidthAskedFor == IF shrunk THEN \E a, b \in since : a <= high /\ high <= b ELSE high \in since
PulseIsWhole ==
    PulseEnds /\ ~killed =>
        IF Forced THEN \A s \in Sample : ~turnoff_mask[s]
        ELSE IF shrunk THEN \E a, b \in since : a <= high /\ high <= b
        ELSE high \in since

(* A step other than gpio_set that turns the output off is that of the control block. *)
LEMMA WhatTurnsOff ==
    ASSUME ServodNext, level, ~level'
    PROVE  (gpio_set /\ Forced) \/ (DmaOff /\ ~Forced)
  <1>1. CASE gpio_set
    BY <1>1 DEF gpio_set, Program, dmaVars, Forced
  <1>2. CASE DmaOff
    BY <1>2 DEF DmaOff, Dma, Forced
  <1>3. CASE ~gpio_set /\ ~DmaOff
    BY <1>3 DEF ServodNext, ReadCommand, Clear, Set, Commit, TurnOn, get_next_idle_timeout, terminate, Reset,
                DmaOn, DmaDelay
  <1> QED
    BY <1>1, <1>2, <1>3

(* Where the program forces the output off no turn-off would have come. *)
LEMMA ForcedIsFull ==
    ASSUME PulseIInv, gpio_set
    PROVE  \A s \in Sample : ~turnoff_mask[s]
  <1>1. /\ job.at = "gpio_set" /\ servowidth = N /\ ~killed /\ N \in Nat
        /\ servostart \in Sample /\ \A p \in Sample : turnoff_mask[p] <=> OffAt(D(p))
    BY JobFields DEF PulseIInv, PulseTypeOK, JobInv, MaskInv, gpio_set, Program
  <1>2. ASSUME NEW s \in Sample PROVE D(s) \in 0 .. N - 1
    BY <1>1, Distance
  <1> QED
    BY <1>1, <1>2 DEF OffAt

(* A pulse that the control block at hand ends is as wide as was asked for, or between two
   widths when one was less. *)
EndsHere == level /\ ((block = "off" /\ turnoff_mask[pos]) \/ (block = "on" /\ turnon_mask))
LEMMA EndsWhole ==
    ASSUME PulseIInv, ~killed, EndsHere
    PROVE  WidthAskedFor
  <1>a. PulseTypeOK /\ JobInv /\ MaskInv /\ PulseInv
    BY DEF PulseIInv
  <1>b. /\ servowidth \in 0 .. N /\ job.width \in 0 .. N /\ job.i \in 0 .. 2 * N + 1 /\ N \in Nat \ {0}
        /\ servostart \in Sample /\ pos \in Sample
        /\ D(pos) \in 0 .. N - 1 /\ (D(pos) = 0 <=> pos = servostart)
    BY <1>a, JobFields, Distance DEF PulseTypeOK
  <1>c. level
    BY DEF EndsHere
  <1>d. /\ servowidth \in since /\ (UnderWay => job.width \in since)
        /\ (UnderWay /\ job.width < job.old => shrunk) /\ (Overlong \/ Within)
    BY <1>a, <1>c DEF PulseInv
  <1>1. CASE Overlong
    BY <1>1, <1>b DEF Overlong, WidthAskedFor
  <1>2. CASE Within
    <2>1. block = "off" /\ turnoff_mask[pos]
      BY <1>2 DEF EndsHere, Within
    <2>3. CASE pos = servostart
      BY <1>1, <1>a, <1>b, <1>2, <2>1, <2>3 DEF Within, Overlong, Elapsed, NextOff, PulseTypeOK, WidthAskedFor
    <2>4. CASE pos # servostart
      <3>1. high = D(pos) /\ NextOff = high /\ high \in Nat
        BY <1>2, <1>b, <2>1, <2>4 DEF Within, Elapsed, NextOff
      <3>2. OffAt(high)
        BY <1>a, <1>b, <2>1, <3>1 DEF MaskInv
      <3>3. \E b \in since : high <= b
        BY <1>2, <3>1 DEF Within
      <3>4. \E a \in since : a <= high
        BY <1>a, <1>b, <1>d, <3>1, <3>2 DEF OffAt, UnderWay, JobInv
      <3>5. ASSUME ~shrunk PROVE high \in since
        <4>1. high <= Ending
          BY <1>2, <3>1, <3>5 DEF Within
        <4>2. UnderWay => job.width >= job.old
          BY <1>a, <1>b, <1>d, <3>5 DEF PulseTypeOK, Jobs
        <4> QED
          BY <1>a, <1>b, <1>d, <3>1, <3>2, <4>1, <4>2 DEF OffAt, Ending, UnderWay, JobInv
      <3> QED
        BY <3>3, <3>4, <3>5 DEF WidthAskedFor
    <2> QED
      BY <2>3, <2>4
  <1> QED
    BY <1>d, <1>1, <1>2

(* Every pulse that ends, ends as PulsesAreWhole says. *)
LEMMA EndsAsAsked ==
    ASSUME PulseIInv, ServodNext
    PROVE  PulseIsWhole
  <1> SUFFICES ASSUME PulseEnds, ~killed
               PROVE  IF Forced THEN \A s \in Sample : ~turnoff_mask[s] ELSE WidthAskedFor
    BY DEF PulseIsWhole, WidthAskedFor
  <1>1. CASE level /\ ~level'
    <2>1. (gpio_set /\ Forced) \/ (DmaOff /\ ~Forced)
      BY <1>1, WhatTurnsOff
    <2>2. CASE gpio_set /\ Forced
      BY <2>2, ForcedIsFull
    <2>3. CASE DmaOff /\ ~Forced
      <3>1. EndsHere
        BY <1>1, <2>3 DEF EndsHere, DmaOff, Dma
      <3> QED
        BY <2>3, <3>1, EndsWhole
    <2> QED
      BY <2>1, <2>2, <2>3
  <1>2. CASE ~(level /\ ~level')
    <2>1. EndsHere /\ ~Forced
      BY <1>2 DEF EndsHere, PulseEnds, Forced
    <2> QED
      BY <2>1, EndsWhole
  <1> QED
    BY <1>1, <1>2

(* However the stores of the program fall between the blocks of the cycle, a pulse that is
   only widened has one of the widths asked for, and the idle timer forces the output off
   only where the whole cycle has no turn-off. *)
THEOREM WholePulses == ServodSpec => PulsesAreWhole
  <1>1. PulseIInv /\ [ServodNext]_servodVars => [PulseIsWhole]_servodVars
    BY EndsAsAsked
  <1>2. PulsesAreWhole <=> [][PulseIsWhole]_servodVars
    BY DEF PulsesAreWhole, PulseIsWhole
  <1> QED
    BY <1>1, <1>2, ServodInvariant, PTL DEF ServodSpec
=============================================================================
