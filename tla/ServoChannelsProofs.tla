------------------------- MODULE ServoChannelsProofs -------------------------
(* What both drivers do to the vectors they share keeps these in their ranges: *)
(* the lemmas the type invariants of the drivers rest on.                      *)
EXTENDS ServoChannels, SequenceTheorems, TLAPS

Channel == 0 .. ChannelMax

(* The vectors of clients command positions in range, and off beyond their end. *)
LEMMA CommandedRange == \A v \in Vectors : Commanded(v) \in [Servo -> Channel]
  <1> SUFFICES ASSUME NEW v \in Vectors, NEW s \in Servo
               PROVE  (IF s < Len(v) THEN v[s + 1] ELSE 0) \in Channel
    BY DEF Commanded
  <1>1. v \in Seq(Channel) /\ s \in Nat /\ 0 \in Channel
    BY ChannelsAssumption, PeriodAssumption DEF Servo, Channel
  <1>2. ASSUME s < Len(v) PROVE v[s + 1] \in Channel
    <2>1. s + 1 \in 1 .. Len(v)
      BY <1>1, <1>2
    <2> QED
      BY <1>1, <2>1, ElementOfSeq
  <1> QED
    BY <1>1, <1>2

(* So do the stored failsafe positions, all of which SetFailsafe passes on. *)
LEMMA FailsafeRange ==
    ASSUME failsafe \in [Servo -> Channel]
    PROVE  Commanded(FailsafeVector) \in [Servo -> Channel]
  <1> SUFFICES ASSUME NEW s \in Servo
               PROVE  (IF s < Len(FailsafeVector) THEN FailsafeVector[s + 1] ELSE 0) \in Channel
    BY DEF Commanded
  <1>1. s + 1 \in 1 .. NofServos /\ (s + 1) - 1 = s /\ 0 \in Channel
    BY PeriodAssumption, ChannelsAssumption DEF Servo, Channel
  <1>2. FailsafeVector[s + 1] = failsafe[s]
    BY <1>1 DEF FailsafeVector
  <1> QED
    BY <1>1, <1>2

(* The refresh counter stays below its period. *)
LEMMA CountRange ==
    ASSUME count \in 0 .. UpdatePeriod - 1
    PROVE  (count + 1) % UpdatePeriod \in 0 .. UpdatePeriod - 1
  BY PeriodAssumption

(* The types of the channels hold at the start, *)
LEMMA ChannelsInitType == ChannelsInit => ChannelsTypeOK
  BY PeriodAssumption, ChannelsAssumption DEF ChannelsInit, ChannelsTypeOK

(* after a vector was put out, with the refresh, *)
LEMMA UpdateChannelsType ==
    ASSUME ChannelsTypeOK, NEW v, Commanded(v) \in [Servo -> Channel], UpdateChannels(v)
    PROVE  ChannelsTypeOK'
  BY CountRange DEF ChannelsTypeOK, UpdateChannels, Channel

(* and after failsafe positions were stored. *)
LEMMA StorePositionType ==
    ASSUME ChannelsTypeOK, NEW v \in Vectors, StorePosition(v)
    PROVE  ChannelsTypeOK'
  <1>1. failsafe' = [s \in Servo |-> IF s < Len(v) THEN Commanded(v)[s] ELSE failsafe[s]]
    BY DEF StorePosition, Commanded
  <1>2. \A s \in Servo : Commanded(v)[s] \in Channel /\ failsafe[s] \in Channel
    BY CommandedRange DEF ChannelsTypeOK, Channel
  <1>3. failsafe' \in [Servo -> Channel]
    BY <1>1, <1>2
  <1> QED
    BY <1>3 DEF ChannelsTypeOK, StorePosition, Channel
=============================================================================
