-------------------------- MODULE PcanCommand_proofs --------------------------
(***************************************************************************)
(* Proofs about PcanCommand for all bytes a command can carry, every set   *)
(* of packets and every range of the LEDs' times: GET answers what was     *)
(* SET, the bit timing is exact, packets are read as they were sent, and   *)
(* LEDs at rest show what they were told.                                  *)
(***************************************************************************)
EXTENDS PcanCommand, SequenceTheorems, TLAPS

------------------------------------------------------------------------------
(* The registers *)

ValueOf(n) == IF n = "TXERR" /\ given[n] = 255 THEN 127 ELSE given[n]

\* The names of the six values, in the order of the shadow, and the bit that
\* selects the mode.
Tied ==
    /\ sja1000_ic_mode \in {"PELICAN", "BASICCAN"}
    /\ sja1000_shadow \in [1..6 -> Nat]
    /\ DOMAIN given = Names \cup {"bitrate", "device_id", "led_mode"}
    /\ sja1000_shadow[1] = ValueOf("ACR")
    /\ sja1000_shadow[2] = ValueOf("AMR")
    /\ sja1000_shadow[3] = ValueOf("BTR0")
    /\ sja1000_shadow[4] = ValueOf("BTR1")
    /\ sja1000_shadow[5] = ValueOf("RXERR")
    /\ sja1000_shadow[6] = ValueOf("TXERR")
    /\ given["CDR"] \in Byte
    /\ sja1000_ic_mode = "PELICAN" <=> given["CDR"] >= 128

\* A write reaches the one register it names, in either mode.
LEMMA WriteTied ==
    ASSUME NEW p0 \in Byte, NEW p1 \in Byte, Tied, SetRegister(p0, p1)
    PROVE  Tied'
<1> DEFINE a == Masked(p0)
<1>1. a \in Nat
  BY DEF Masked, Byte
<1> HIDE DEF a
<1>2. DOMAIN given' = DOMAIN given
  BY DEF SetRegister
<1>3. CASE sja1000_ic_mode = "PELICAN"
  <2>1. /\ Addresses = <<16, 20, 6, 7, 14, 15>>
        /\ Chip = [ACR |-> 16, AMR |-> 20, BTR0 |-> 6, BTR1 |-> 7,
                   RXERR |-> 14, TXERR |-> 15, CDR |-> 31]
    BY <1>3 DEF Addresses, Chip
  <2>2. sja1000_shadow' =
          [r \in 1..6 |-> IF <<16, 20, 6, 7, 14, 15>>[r] = a
                          THEN IF a = 15 /\ p1 = 255 THEN 127 ELSE p1
                          ELSE sja1000_shadow[r]]
    BY <1>3, <2>1 DEF SetRegister, Write, Kept, a
  <2>3. /\ given'["ACR"] = IF a = 16 THEN p1 ELSE given["ACR"]
        /\ given'["AMR"] = IF a = 20 THEN p1 ELSE given["AMR"]
        /\ given'["BTR0"] = IF a = 6 THEN p1 ELSE given["BTR0"]
        /\ given'["BTR1"] = IF a = 7 THEN p1 ELSE given["BTR1"]
        /\ given'["RXERR"] = IF a = 14 THEN p1 ELSE given["RXERR"]
        /\ given'["TXERR"] = IF a = 15 THEN p1 ELSE given["TXERR"]
        /\ given'["CDR"] = IF a = 31 THEN p1 ELSE given["CDR"]
    BY <2>1 DEF SetRegister, Tied, Names, a
  <2>4. sja1000_ic_mode' = IF a # 31 THEN sja1000_ic_mode
                           ELSE IF p1 >= 128 THEN "PELICAN" ELSE "BASICCAN"
    BY DEF SetRegister, Write, a
  <2>7. /\ sja1000_ic_mode' \in {"PELICAN", "BASICCAN"}
        /\ given'["CDR"] \in Byte
        /\ sja1000_ic_mode' = "PELICAN" <=> given'["CDR"] >= 128
    BY <2>3, <2>4 DEF Tied
  <2>5. sja1000_shadow' \in [1..6 -> Nat]
    BY <2>2 DEF Tied, Byte
  <2>6. /\ sja1000_shadow'[1] = IF a = 16 THEN p1 ELSE sja1000_shadow[1]
        /\ sja1000_shadow'[2] = IF a = 20 THEN p1 ELSE sja1000_shadow[2]
        /\ sja1000_shadow'[3] = IF a = 6 THEN p1 ELSE sja1000_shadow[3]
        /\ sja1000_shadow'[4] = IF a = 7 THEN p1 ELSE sja1000_shadow[4]
        /\ sja1000_shadow'[5] = IF a = 14 THEN p1 ELSE sja1000_shadow[5]
        /\ sja1000_shadow'[6] =
             IF a = 15 THEN IF p1 = 255 THEN 127 ELSE p1
             ELSE sja1000_shadow[6]
    BY <2>2
  <2> QED
    BY <1>2, <2>3, <2>5, <2>6, <2>7 DEF Tied, ValueOf
<1>4. CASE sja1000_ic_mode = "BASICCAN"
  <2>1. /\ Addresses = <<4, 5, 6, 7>>
        /\ Chip = [ACR |-> 4, AMR |-> 5, BTR0 |-> 6, BTR1 |-> 7,
                   CDR |-> 31]
    BY <1>4 DEF Addresses, Chip
  <2>2. sja1000_shadow' =
          [r \in 1..6 |-> IF r \in 1..4 /\ <<4, 5, 6, 7>>[r] = a
                          THEN p1 ELSE sja1000_shadow[r]]
    BY <1>4, <2>1 DEF SetRegister, Write, Kept, a
  <2>3. /\ given'["ACR"] = IF a = 4 THEN p1 ELSE given["ACR"]
        /\ given'["AMR"] = IF a = 5 THEN p1 ELSE given["AMR"]
        /\ given'["BTR0"] = IF a = 6 THEN p1 ELSE given["BTR0"]
        /\ given'["BTR1"] = IF a = 7 THEN p1 ELSE given["BTR1"]
        /\ given'["RXERR"] = given["RXERR"]
        /\ given'["TXERR"] = given["TXERR"]
        /\ given'["CDR"] = IF a = 31 THEN p1 ELSE given["CDR"]
    BY <2>1 DEF SetRegister, Tied, Names, a
  <2>4. sja1000_ic_mode' = IF a # 31 THEN sja1000_ic_mode
                           ELSE IF p1 >= 128 THEN "PELICAN" ELSE "BASICCAN"
    BY DEF SetRegister, Write, a
  <2>7. /\ sja1000_ic_mode' \in {"PELICAN", "BASICCAN"}
        /\ given'["CDR"] \in Byte
        /\ sja1000_ic_mode' = "PELICAN" <=> given'["CDR"] >= 128
    BY <2>3, <2>4 DEF Tied
  <2>5. sja1000_shadow' \in [1..6 -> Nat]
    BY <2>2 DEF Tied, Byte
  <2>6. /\ sja1000_shadow'[1] = IF a = 4 THEN p1 ELSE sja1000_shadow[1]
        /\ sja1000_shadow'[2] = IF a = 5 THEN p1 ELSE sja1000_shadow[2]
        /\ sja1000_shadow'[3] = IF a = 6 THEN p1 ELSE sja1000_shadow[3]
        /\ sja1000_shadow'[4] = IF a = 7 THEN p1 ELSE sja1000_shadow[4]
        /\ sja1000_shadow'[5] = sja1000_shadow[5]
        /\ sja1000_shadow'[6] = sja1000_shadow[6]
    BY <2>2
  <2> QED
    BY <1>2, <2>3, <2>5, <2>6, <2>7 DEF Tied, ValueOf
<1> QED
  BY <1>3, <1>4 DEF Tied

\* What is kept is what was given, for everything a GET can ask for.
GivenInv ==
    /\ Tied
    /\ DOMAIN device = Fields \cup {"btr0", "btr1"}
    /\ device["device_id"] = given["device_id"]
    /\ device["led_mode"] = given["led_mode"]
    /\ given["bitrate"] # <<>> =>
         given["bitrate"] = <<device["btr1"], device["btr0"]>>

LEMMA GivenInvInit == Init => GivenInv
  BY DEF Init, SjaInit, GivenInv, Tied, ValueOf, Names, Fields, Byte

LEMMA GivenInvStep == GivenInv /\ [Next]_vars => GivenInv'
<1> SUFFICES ASSUME GivenInv, [Next]_vars PROVE GivenInv'
  OBVIOUS
<1> USE DEF GivenInv
<1>1. ASSUME NEW p0 \in Byte, NEW p1 \in Byte, SetBitrate(p0, p1)
      PROVE GivenInv'
  <2>1. /\ UNCHANGED sjaVars
        /\ device' = [device EXCEPT !["btr0"] = p1, !["btr1"] = p0]
        /\ given' = [given EXCEPT !["bitrate"] = <<p0, p1>>]
    BY <1>1 DEF SetBitrate
  <2>2. Tied'
    BY <2>1 DEF Tied, ValueOf, Names, sjaVars
  <2> QED BY <2>1, <2>2 DEF Tied, Names, Fields
<1>2. ASSUME NEW p0 \in Byte, NEW p1 \in Byte, SetRegister(p0, p1)
      PROVE GivenInv'
  <2>1. Tied'
    BY <1>2, WriteTied
  <2>2. /\ device' = device
        /\ given'["device_id"] = given["device_id"]
        /\ given'["led_mode"] = given["led_mode"]
        /\ given'["bitrate"] = given["bitrate"]
    BY <1>2 DEF SetRegister, Tied, Names, Chip
  <2> QED BY <2>1, <2>2
<1>3. ASSUME NEW p0 \in Byte, NEW field \in Fields, Keep(field, p0)
      PROVE GivenInv'
  <2>1. /\ UNCHANGED sjaVars
        /\ device' = [device EXCEPT ![field] = p0]
        /\ given' = IF field \in DOMAIN given
                    THEN [given EXCEPT ![field] = p0] ELSE given
    BY <1>3 DEF Keep
  <2>2. /\ field \notin Names \cup {"bitrate", "btr0", "btr1"}
        /\ field = "device_id" \/ field = "led_mode" => field \in DOMAIN given
        /\ field # "device_id" /\ field # "led_mode" => field \notin DOMAIN given
    BY DEF Fields, Names, Tied
  <2>3. Tied'
    BY <2>1, <2>2 DEF Tied, ValueOf, Names, sjaVars
  <2> QED BY <2>1, <2>2, <2>3 DEF Tied, Names, Fields
<1>4. ASSUME UNCHANGED <<sjaVars, device, given>> PROVE GivenInv'
  BY <1>4 DEF sjaVars, Tied, ValueOf
<1>5. ASSUME NEW p0 \in Byte, SetBus(p0) PROVE GivenInv'
  BY <1>5, <1>4 DEF SetBus, setVars
<1>6. ASSUME NEW p \in Packets, PacketOut(p) PROVE GivenInv'
  BY <1>6, <1>4 DEF PacketOut, setVars
<1>12. CASE Reading
  BY <1>12, <1>4 DEF Reading, ReadRecord, StopReading, setVars
<1>7. CASE RxMessage BY <1>7, <1>4 DEF RxMessage, setVars
<1>8. CASE VendorInfo BY <1>8, <1>4 DEF VendorInfo, setVars
<1>9. CASE Poll BY <1>9, <1>4 DEF Poll, setVars
<1>10. CASE Pass BY <1>10, <1>4 DEF Pass, setVars
<1>11. CASE UNCHANGED vars BY <1>11, <1>4 DEF vars, setVars
<1> QED
  BY <1>1, <1>2, <1>3, <1>5, <1>6, <1>7, <1>8, <1>9, <1>10, <1>11,
     <1>12
  DEF Next, Set

LEMMA GivenInvAnswers == GivenInv => AnswersAsSet
<1> SUFFICES ASSUME GivenInv PROVE AnswersAsSet
  OBVIOUS
<1>1. given.bitrate # <<>> => Answer(0).BITRATE = given.bitrate
  BY DEF GivenInv, Answer
<1>2. /\ Answer(0).DEVID = <<given.device_id>>
      /\ Answer(0).LED = <<given.led_mode>>
  BY DEF GivenInv, Answer
<1>3. ASSUME NEW n \in DOMAIN Chip \ {"CDR"}
      PROVE  Answer(Chip[n]).REGISTER = <<Chip[n], ValueOf(n)>>
  <2>1. CASE sja1000_ic_mode = "PELICAN"
    <3>1. /\ Chip = [ACR |-> 16, AMR |-> 20, BTR0 |-> 6, BTR1 |-> 7,
                     RXERR |-> 14, TXERR |-> 15, CDR |-> 31]
          /\ Addresses = <<16, 20, 6, 7, 14, 15>>
          /\ Masked(Chip[n]) = Chip[n] % 128
      BY <2>1 DEF Chip, Addresses, Masked
    <3>2. /\ n \in {"ACR", "AMR", "BTR0", "BTR1", "RXERR", "TXERR"}
          /\ Masked(Chip[n]) = Chip[n]
          /\ Chip[n] # 0 /\ Chip[n] # 31
      BY <3>1
    <3>3. PICK r \in 1..6 :
            /\ Addresses[r] = Chip[n]
            /\ \A q \in 1..6 : Addresses[q] = Chip[n] => q = r
            /\ sja1000_shadow[r] = ValueOf(n)
      <4>1. CASE n = "ACR" BY <4>1, <3>1 DEF GivenInv, Tied
      <4>2. CASE n = "AMR" BY <4>2, <3>1 DEF GivenInv, Tied
      <4>3. CASE n = "BTR0" BY <4>3, <3>1 DEF GivenInv, Tied
      <4>4. CASE n = "BTR1" BY <4>4, <3>1 DEF GivenInv, Tied
      <4>5. CASE n = "RXERR" BY <4>5, <3>1 DEF GivenInv, Tied
      <4>6. CASE n = "TXERR" BY <4>6, <3>1 DEF GivenInv, Tied
      <4> QED BY <4>1, <4>2, <4>3, <4>4, <4>5, <4>6, <3>2
    <3>4. DOMAIN Addresses = 1..6
      BY <3>1
    <3>5. (CHOOSE q \in DOMAIN Addresses : Addresses[q] = Masked(Chip[n])) = r
      BY <3>2, <3>3, <3>4
    <3> QED BY <3>2, <3>3, <3>4, <3>5 DEF Answer, Read
  <2>2. CASE sja1000_ic_mode = "BASICCAN"
    <3>1. /\ Chip = [ACR |-> 4, AMR |-> 5, BTR0 |-> 6, BTR1 |-> 7,
                     CDR |-> 31]
          /\ Addresses = <<4, 5, 6, 7>>
          /\ Masked(Chip[n]) = Chip[n] % 32
      BY <2>2 DEF Chip, Addresses, Masked
    <3>2. /\ n \in {"ACR", "AMR", "BTR0", "BTR1"}
          /\ Masked(Chip[n]) = Chip[n]
          /\ Chip[n] # 0 /\ Chip[n] # 31
      BY <3>1
    <3>3. PICK r \in 1..4 :
            /\ Addresses[r] = Chip[n]
            /\ \A q \in 1..4 : Addresses[q] = Chip[n] => q = r
            /\ sja1000_shadow[r] = ValueOf(n)
      <4>1. CASE n = "ACR" BY <4>1, <3>1 DEF GivenInv, Tied
      <4>2. CASE n = "AMR" BY <4>2, <3>1 DEF GivenInv, Tied
      <4>3. CASE n = "BTR0" BY <4>3, <3>1 DEF GivenInv, Tied
      <4>4. CASE n = "BTR1" BY <4>4, <3>1 DEF GivenInv, Tied
      <4> QED BY <4>1, <4>2, <4>3, <4>4, <3>2
    <3>4. DOMAIN Addresses = 1..4
      BY <3>1
    <3>5. (CHOOSE q \in DOMAIN Addresses : Addresses[q] = Masked(Chip[n])) = r
      BY <3>2, <3>3, <3>4
    <3> QED BY <3>2, <3>3, <3>4, <3>5 DEF Answer, Read
  <2> QED BY <2>1, <2>2 DEF GivenInv, Tied
<1>4. /\ "CDR" \in DOMAIN Chip /\ Chip["CDR"] = 31
      /\ Answer(31).REGISTER = <<31, 128 * (given["CDR"] \div 128)>>
  <2>1. "CDR" \in DOMAIN Chip /\ Chip["CDR"] = 31
    BY DEF Chip
  <2>2. Read(31) = IF sja1000_ic_mode = "PELICAN" THEN 128 ELSE 0
    BY DEF Read, Masked
  <2>3. /\ given["CDR"] \in 0..255
        /\ sja1000_ic_mode = "PELICAN" <=> given["CDR"] >= 128
    BY DEF GivenInv, Tied, Byte
  <2>4. Read(31) = 128 * (given["CDR"] \div 128)
    <3>1. CASE sja1000_ic_mode = "PELICAN"
      <4>1. given["CDR"] \div 128 = 1
        BY <3>1, <2>3
      <4> QED BY <3>1, <2>2, <4>1
    <3>2. CASE sja1000_ic_mode # "PELICAN"
      <4>1. given["CDR"] \div 128 = 0
        BY <3>2, <2>3
      <4> QED BY <3>2, <2>2, <4>1
    <3> QED BY <3>1, <3>2
  <2> QED BY <2>1, <2>4 DEF Answer
<1>5. Answer(0).REGISTER = <<0, 1>>
  BY DEF Answer, Read, Masked
<1>6. ASSUME NEW n \in DOMAIN Chip
      PROVE  Answer(Chip[n]).REGISTER = <<Chip[n], Shown(n)>>
  <2>1. CASE n = "CDR" BY <2>1, <1>4 DEF Shown
  <2>2. CASE n # "CDR" BY <2>2, <1>3 DEF Shown, ValueOf
  <2> QED BY <2>1, <2>2
<1> QED
  BY <1>1, <1>2, <1>5, <1>6 DEF AnswersAsSet

\* A GET answers what was SET last, for all bytes, in both register modes and
\* in any order of commands (pcan_protocol.c:74-184, 595-690).
THEOREM GetAnswersSet == Spec => []AnswersAsSet
<1>1. Spec => []GivenInv
  BY GivenInvInit, GivenInvStep, PTL DEF Spec
<1> QED
  BY <1>1, GivenInvAnswers, PTL

------------------------------------------------------------------------------
(* The bit timing *)

\* The values BTR0 and BTR1 stand for, none of which is cut.
LEMMA TimingFields ==
    ASSUME NEW p0 \in Byte, NEW p1 \in Byte
    PROVE  /\ Timing(p0, p1).Prescaler = 6 * ((p1 % 64) + 1)
           /\ Timing(p0, p1).SyncJumpWidth = (p1 \div 64) + 1
           /\ Timing(p0, p1).TimeSeg1 = (p0 % 16) + 1
           /\ Timing(p0, p1).TimeSeg2 = ((p0 \div 16) % 8) + 1
           /\ Timing(p0, p1) \in
                [Prescaler : 1..1024, SyncJumpWidth : 1..4,
                 TimeSeg1 : 1..16, TimeSeg2 : 1..8]
<1>1. /\ p1 % 64 \in 0..63
      /\ p1 \div 64 \in 0..3
      /\ p0 % 16 \in 0..15
      /\ (p0 \div 16) % 8 \in 0..7
  BY DEF Byte
<1> QED
  BY <1>1 DEF Timing, AtMost

TimingInv ==
    given["bitrate"] # <<>> =>
        \E p0, p1 \in Byte : /\ given["bitrate"] = <<p0, p1>>
                             /\ timing = Timing(p0, p1)

LEMMA TimingInvStep ==
    GivenInv /\ TimingInv /\ [Next]_vars => TimingInv'
<1> SUFFICES ASSUME GivenInv, TimingInv, [Next]_vars PROVE TimingInv'
  OBVIOUS
<1> USE DEF TimingInv
<1>1. ASSUME NEW p0 \in Byte, NEW p1 \in Byte, SetBitrate(p0, p1)
      PROVE TimingInv'
  <2>1. given'["bitrate"] = <<p0, p1>> /\ timing' = Timing(p0, p1)
    BY <1>1 DEF SetBitrate, GivenInv, Tied, Names
  <2> QED BY <2>1
<1>2. ASSUME given'["bitrate"] = given["bitrate"], timing' = timing
      PROVE  TimingInv'
  BY <1>2
<1>3. ASSUME NEW p0 \in Byte, NEW p1 \in Byte, SetRegister(p0, p1)
      PROVE TimingInv'
  BY <1>3, <1>2 DEF SetRegister, GivenInv, Tied, Names, Chip
<1>4. ASSUME NEW p0 \in Byte, NEW field \in Fields, Keep(field, p0)
      PROVE TimingInv'
  BY <1>4, <1>2 DEF Keep, Fields, GivenInv, Tied, Names
<1>5. ASSUME NEW p0 \in Byte, SetBus(p0) PROVE TimingInv'
  BY <1>5, <1>2 DEF SetBus, setVars
<1>6. ASSUME NEW p \in Packets, PacketOut(p) PROVE TimingInv'
  BY <1>6, <1>2 DEF PacketOut, setVars
<1>12. CASE Reading
  BY <1>12, <1>2 DEF Reading, ReadRecord, StopReading, setVars
<1>7. CASE RxMessage BY <1>7, <1>2 DEF RxMessage, setVars
<1>8. CASE VendorInfo BY <1>8, <1>2 DEF VendorInfo, setVars
<1>9. CASE Poll BY <1>9, <1>2 DEF Poll, setVars
<1>10. CASE Pass BY <1>10, <1>2 DEF Pass, setVars
<1>11. CASE UNCHANGED vars BY <1>11, <1>2 DEF vars, setVars
<1> QED
  BY <1>1, <1>3, <1>4, <1>5, <1>6, <1>7, <1>8, <1>9, <1>10, <1>11,
     <1>12
  DEF Next, Set

LEMMA TimingInvEquation == GivenInv /\ TimingInv => TimingAsSet
<1> SUFFICES ASSUME GivenInv, TimingInv, given["bitrate"] # <<>>
             PROVE  TimingAsSet
  BY DEF TimingAsSet
<1>1. PICK p0 \in Byte, p1 \in Byte :
        given["bitrate"] = <<p0, p1>> /\ timing = Timing(p0, p1)
  BY DEF TimingInv
<1>2. Answer(0).BITRATE = <<p0, p1>>
  BY <1>1 DEF GivenInv, Answer
<1> DEFINE T1 == p0 % 16
           T2 == (p0 \div 16) % 8
           B == p1 % 64
<1>3. T1 \in Nat /\ T2 \in Nat /\ B \in Nat
  BY DEF Byte
<1>4. /\ timing.Prescaler = 6 * (B + 1)
      /\ timing.SyncJumpWidth = (p1 \div 64) + 1
      /\ timing.TimeSeg1 = T1 + 1
      /\ timing.TimeSeg2 = T2 + 1
  BY <1>1, TimingFields
<1> HIDE DEF T1, T2, B
<1>5. 6 * (B + 1) * (T1 + 1 + (T2 + 1) + 1) = 3 * (2 * (B + 1)) * (T1 + T2 + 3)
  <2>1. T1 + 1 + (T2 + 1) + 1 = T1 + T2 + 3
    BY <1>3
  <2>2. 6 * (B + 1) = 3 * (2 * (B + 1))
    BY <1>3
  <2> QED BY <2>1, <2>2
<1>6. (T1 + 1 + 1) * (T1 + T2 + 3) = (T1 + 2) * (T1 + 1 + (T2 + 1) + 1)
  <2>1. T1 + 1 + (T2 + 1) + 1 = T1 + T2 + 3 /\ T1 + 1 + 1 = T1 + 2
    BY <1>3
  <2> QED BY <2>1
<1>7. /\ timing.Prescaler * (timing.TimeSeg1 + timing.TimeSeg2 + 1)
           = 3 * (2 * (B + 1)) * (T1 + T2 + 3)
      /\ (timing.TimeSeg1 + 1) * (T1 + T2 + 3)
           = (T1 + 2) * (timing.TimeSeg1 + timing.TimeSeg2 + 1)
  BY <1>4, <1>5, <1>6
<1> QED
  BY <1>2, <1>4, <1>7 DEF TimingAsSet, T1, T2, B

\* After a SET BITRATE the controller's bit time, sample point and jump width
\* are those of an SJA1000 with the BTR pair a GET answers, for all 65536
\* pairs (pcan_protocol.c:494-505, pcan_can.c:81-122).
THEOREM BitTimingExact == Spec => []TimingAsSet
<1>1. Init => GivenInv /\ TimingInv
  BY GivenInvInit DEF Init, TimingInv
<1>2. GivenInv /\ TimingInv /\ [Next]_vars => (GivenInv /\ TimingInv)'
  BY GivenInvStep, TimingInvStep
<1> QED
  BY <1>1, <1>2, TimingInvEquation, PTL DEF Spec

------------------------------------------------------------------------------
(* Packets *)

\* The first byte of a record, and the four fields in it.
LEMMA StatusFields ==
    ASSUME NEW dlc \in 0..15, NEW rtr \in BOOLEAN, NEW ext \in BOOLEAN
    PROVE  LET sl == StatusLength(dlc, rtr, ext)
           IN  /\ sl \in Byte
               /\ ~Internal(sl)
               /\ Ext(sl) <=> ext
               /\ Rtr(sl) <=> rtr
               /\ RecLen(sl) = dlc
<1> USE DEF StatusLength, Internal, Ext, Rtr, RecLen, Bit, Byte
<1>1. CASE rtr /\ ext BY <1>1
<1>2. CASE rtr /\ ~ext BY <1>2
<1>3. CASE ~rtr /\ ext BY <1>3
<1>4. CASE ~rtr /\ ~ext BY <1>4
<1> QED
  BY <1>1, <1>2, <1>3, <1>4

\* An identifier survives its way into bytes and back, and so does the flag
\* below it.
StdIdIs(b, id, e) ==
    /\ b \in Seq(Byte) /\ Len(b) = 2
    /\ b[1] \div 32 + 8 * b[2] = id
    /\ Bit(b[1], 1) <=> e = 1

LEMMA StdIdRead ==
    ASSUME NEW id \in StdIds, NEW e \in 0..1
    PROVE  StdIdIs(StdIdBytes(id, e), id, e)
<1> DEFINE high == id \div 8
           low == id % 8
<1>1. /\ high \in 0..255 /\ low \in 0..7 /\ id = 8 * high + low
  BY DEF StdIds
<1> HIDE DEF high, low
<1>2. /\ 32 * low + e \in Byte /\ high \in Byte
      /\ (32 * low + e) \div 32 = low
      /\ Bit(32 * low + e, 1) <=> e = 1
  BY <1>1 DEF Byte, Bit
<1> DEFINE b1 == 32 * low + e
<1>3. StdIdBytes(id, e) = <<b1, high>>
  BY DEF StdIdBytes, high, low
<1>4. /\ b1 \in Byte /\ high \in Byte
      /\ b1 \div 32 + 8 * high = id
      /\ Bit(b1, 1) <=> e = 1
  BY <1>1, <1>2
<1> HIDE DEF b1
<1> QED
  BY <1>3, <1>4 DEF StdIdIs

ExtIdIs(b, id, e) ==
    /\ b \in Seq(Byte) /\ Len(b) = 4
    /\ b[1] \div 8 + 32 * (b[2] + 256 * (b[3] + 256 * b[4])) = id
    /\ Bit(b[1], 1) <=> e = 1

LEMMA ExtIdRead ==
    ASSUME NEW id \in ExtIds, NEW e \in 0..1
    PROVE  ExtIdIs(ExtIdBytes(id, e), id, e)
<1> DEFINE high == id \div 32
           low == id % 32
           q == high \div 256
           b2 == high % 256
           b3 == q % 256
           b4 == q \div 256
<1>1. /\ high \in Nat /\ high < 256 * (256 * 256)
      /\ low \in 0..31 /\ id = 32 * high + low
  BY DEF ExtIds
<1> HIDE DEF high, low
<1>2. /\ 8 * low + e \in Byte
      /\ (8 * low + e) \div 8 = low
      /\ Bit(8 * low + e, 1) <=> e = 1
  BY <1>1 DEF Byte, Bit
<1>3. /\ q \in Nat /\ q < 256 * 256
      /\ b2 \in 0..255 /\ high = 256 * q + b2
  BY <1>1
<1> HIDE DEF q, b2
<1>4. /\ b3 \in 0..255 /\ b4 \in 0..255 /\ q = 256 * b4 + b3
  BY <1>3
<1> HIDE DEF b3, b4
<1>5. low + 32 * (b2 + 256 * (b3 + 256 * b4)) = id
  BY <1>1, <1>3, <1>4
<1>6. ExtIdBytes(id, e) = <<8 * low + e, b2, b3, b4>>
  BY DEF ExtIdBytes, high, low, q, b2, b3, b4
<1> DEFINE b1 == 8 * low + e
<1>7. /\ b1 \in Byte /\ b2 \in Byte /\ b3 \in Byte /\ b4 \in Byte
  BY <1>2, <1>3, <1>4 DEF Byte
<1>8. /\ b1 \div 8 + 32 * (b2 + 256 * (b3 + 256 * b4)) = id
      /\ Bit(b1, 1) <=> e = 1
      /\ ExtIdBytes(id, e) = <<b1, b2, b3, b4>>
  BY <1>2, <1>5, <1>6
<1> HIDE DEF b1
<1> QED
  BY <1>7, <1>8 DEF ExtIdIs

\* Sequence r is s followed by t.
Joined(S, r, s, t) ==
    /\ r \in Seq(S)
    /\ Len(s) \in Nat /\ Len(t) \in Nat
    /\ Len(r) = Len(s) + Len(t)
    /\ \A i \in 1..Len(s) : r[i] = s[i]
    /\ \A i \in 1..Len(t) : r[Len(s) + i] = t[i]

LEMMA ConcatAt ==
    ASSUME NEW S, NEW s \in Seq(S), NEW t \in Seq(S)
    PROVE  Joined(S, s \o t, s, t)
<1> DEFINE c == s \o t
<1>1. /\ c \in Seq(S) /\ Len(c) = Len(s) + Len(t)
      /\ \A i \in 1 .. Len(s) + Len(t) :
           c[i] = IF i <= Len(s) THEN s[i] ELSE t[i - Len(s)]
  BY Zenon, ConcatProperties
<1>2. Len(s) \in Nat /\ Len(t) \in Nat
  BY Zenon, LenProperties
<1> HIDE DEF c
<1> DEFINE m == Len(s)
           n == Len(t)
<1> HIDE DEF m, n
<1>3. /\ m \in Nat /\ n \in Nat
      /\ \A i \in 1 .. m + n : c[i] = IF i <= m THEN s[i] ELSE t[i - m]
  BY <1>1, <1>2 DEF m, n
<1>4. ASSUME NEW i \in 1..m PROVE c[i] = s[i]
  BY <1>3
<1>5. ASSUME NEW i \in 1..n PROVE c[m + i] = t[i]
  <2>1. m + i \in 1 .. m + n /\ ~(m + i <= m) /\ (m + i) - m = i
    BY <1>3
  <2> QED BY <1>3, <2>1
<1> QED
  BY <1>1, <1>2, <1>4, <1>5, Zenon DEF c, m, n, Joined

LEMMA IdBytesType ==
    ASSUME NEW f, HostFrame(f)
    PROVE  IdBytes(f) \in Seq(Byte) /\ Len(IdBytes(f)) = IF f.ext THEN 4 ELSE 2
<1>1. CASE f.ext
  BY <1>1, ExtIdRead, ZenonT(40) DEF HostFrame, IdBytes, ExtIdIs
<1>2. CASE ~f.ext
  BY <1>2, StdIdRead DEF HostFrame, IdBytes, StdIdIs
<1> QED
  BY <1>1, <1>2

\* Sequence r is a, b, c and d.
Joined4(S, r, a, b, c, d) ==
    /\ r \in Seq(S)
    /\ Len(a) \in Nat /\ Len(b) \in Nat /\ Len(c) \in Nat /\ Len(d) \in Nat
    /\ Len(r) = Len(a) + Len(b) + Len(c) + Len(d)
    /\ \A i \in 1..Len(a) : r[i] = a[i]
    /\ \A i \in 1..Len(b) : r[Len(a) + i] = b[i]
    /\ \A i \in 1..Len(c) : r[Len(a) + Len(b) + i] = c[i]
    /\ \A i \in 1..Len(d) : r[Len(a) + Len(b) + Len(c) + i] = d[i]

LEMMA FourParts ==
    ASSUME NEW S, NEW a \in Seq(S), NEW b \in Seq(S),
           NEW c \in Seq(S), NEW d \in Seq(S)
    PROVE  Joined4(S, (a \o b) \o (c \o d), a, b, c, d)
<1> DEFINE x == a \o b
           y == c \o d
           r == x \o y
           A == Len(a)
           B == Len(b)
           C == Len(c)
           D == Len(d)
<1>1. Joined(S, x, a, b) /\ Joined(S, y, c, d)
  BY ConcatAt, Zenon
<1> HIDE DEF x, y
<1>2. x \in Seq(S) /\ y \in Seq(S)
  BY <1>1 DEF Joined
<1>3. Joined(S, r, x, y)
  BY <1>2, ConcatAt, Zenon
<1> HIDE DEF r, A, B, C, D
<1>4. /\ A \in Nat /\ B \in Nat /\ Len(x) = A + B
      /\ \A i \in 1..A : x[i] = a[i]
      /\ \A i \in 1..B : x[A + i] = b[i]
  BY <1>1, Zenon DEF Joined, A, B
<1>5. /\ C \in Nat /\ D \in Nat /\ Len(y) = C + D
      /\ \A i \in 1..C : y[i] = c[i]
      /\ \A i \in 1..D : y[C + i] = d[i]
  BY <1>1, Zenon DEF Joined, C, D
<1>6. /\ r \in Seq(S) /\ Len(r) = (A + B) + (C + D)
      /\ \A i \in 1 .. A + B : r[i] = x[i]
      /\ \A i \in 1 .. C + D : r[(A + B) + i] = y[i]
  BY <1>3, <1>4, <1>5, Zenon DEF Joined
<1>7. ASSUME NEW i \in 1..A PROVE r[i] = a[i]
  <2>1. i \in 1 .. A + B BY <1>4
  <2> QED BY <1>4, <1>6, <2>1, Zenon
<1>8. ASSUME NEW i \in 1..B PROVE r[A + i] = b[i]
  <2>1. A + i \in 1 .. A + B BY <1>4
  <2> QED BY <1>4, <1>6, <2>1, Zenon
<1>9. ASSUME NEW i \in 1..C PROVE r[A + B + i] = c[i]
  <2>1. i \in 1 .. C + D BY <1>5
  <2> QED BY <1>5, <1>6, <2>1, Zenon
<1>10. ASSUME NEW i \in 1..D PROVE r[A + B + C + i] = d[i]
  <2>1. C + i \in 1 .. C + D /\ (A + B) + (C + i) = A + B + C + i
    BY <1>4, <1>5
  <2>2. r[(A + B) + (C + i)] = d[i]
    BY <1>5, <1>6, <2>1, Zenon
  <2> QED BY <2>1, <2>2, Zenon
<1>11. (A + B) + (C + D) = A + B + C + D
  BY <1>4, <1>5
<1> QED
  BY <1>4, <1>5, <1>6, <1>7, <1>8, <1>9, <1>10, <1>11, Zenon
  DEF x, y, r, A, B, C, D, Joined4

\* Where the parts of a record lie.
LEMMA RecordShape ==
    ASSUME NEW f, HostFrame(f)
    PROVE  LET r == RecordOf(f)
               L == Len(IdBytes(f))
               D == Len(f.data)
               E == Len(f.echo)
           IN  /\ r \in Seq(Byte) /\ Len(r) = 1 + L + D + E
               /\ r[1] = StatusLength(f.dlc, f.rtr, f.ext)
               /\ \A k \in 1..L : r[1 + k] = IdBytes(f)[k]
               /\ \A k \in 1..D : r[1 + L + k] = f.data[k]
               /\ \A k \in 1..E : r[1 + L + D + k] = f.echo[k]
<1> DEFINE sl == StatusLength(f.dlc, f.rtr, f.ext)
           first == <<sl>>
           id == IdBytes(f)
           r == (first \o id) \o (f.data \o f.echo)
<1>1. sl \in Byte
  BY StatusFields DEF HostFrame
<1> HIDE DEF sl
<1>2. first \in Seq(Byte) /\ Len(first) = 1 /\ first[1] = sl
  BY <1>1
<1>3. f.data \in Seq(Byte) /\ f.echo \in Seq(Byte) /\ id \in Seq(Byte)
  BY IdBytesType DEF HostFrame
<1> HIDE DEF first, id
<1>4. first \in Seq(Byte)
  BY <1>2
<1>5. Joined4(Byte, r, first, id, f.data, f.echo)
  BY <1>3, <1>4, FourParts, Zenon
<1>6. RecordOf(f) = r
  BY Zenon DEF RecordOf, first, sl, id
<1> HIDE DEF r
<1> DEFINE data == f.data
           echo == f.echo
<1> HIDE DEF data, echo
<1>7. /\ r \in Seq(Byte)
      /\ Len(r) = Len(first) + Len(id) + Len(data) + Len(echo)
      /\ \A i \in 1..Len(first) : r[i] = first[i]
      /\ \A i \in 1..Len(id) : r[Len(first) + i] = id[i]
      /\ \A i \in 1..Len(data) : r[Len(first) + Len(id) + i] = data[i]
      /\ \A i \in 1..Len(echo) :
           r[Len(first) + Len(id) + Len(data) + i] = echo[i]
  BY <1>5, Zenon DEF Joined4, data, echo
<1>8. Len(first) = 1 /\ first[1] = sl /\ 1 \in 1..1
  BY <1>2
<1>9. r[1] = sl
  BY <1>7, <1>8, Zenon
<1> QED
  BY <1>6, <1>7, <1>8, <1>9, Zenon DEF id, sl, data, echo

\* Whatever the bytes, an identifier has 29 bits at most.
LEMMA ExtIdType ==
    ASSUME NEW b1 \in Byte, NEW b2 \in Byte, NEW b3 \in Byte, NEW b4 \in Byte
    PROVE  b1 \div 8 + 32 * (b2 + 256 * (b3 + 256 * b4)) \in ExtIds
<1>1. b1 \div 8 \in 0..31
  BY DEF Byte
<1>2. b3 + 256 * b4 \in Nat /\ b3 + 256 * b4 < 256 * 256
  BY DEF Byte
<1>3. /\ b2 + 256 * (b3 + 256 * b4) \in Nat
      /\ b2 + 256 * (b3 + 256 * b4) < 256 * (256 * 256)
  BY <1>2 DEF Byte
<1> QED
  BY <1>1, <1>3 DEF ExtIds

LEMMA StdIdType ==
    ASSUME NEW b1 \in Byte, NEW b2 \in Byte
    PROVE  b1 \div 32 + 8 * b2 \in ExtIds
  BY DEF Byte, ExtIds

\* What is read of whatever bytes is a frame the controller takes.
LEMMA FirstFrameType ==
    ASSUME NEW s \in Seq(Byte), FrameAhead(s)
    PROVE  FirstFrame(s) \in CanFrames /\ Behind(s) \in Seq(Byte)
<1> DEFINE sl == Head(s)
           b == Tail(s)
<1>1. sl \in Byte /\ b \in Seq(Byte) /\ Len(b) \in Nat
  BY HeadTailProperties DEF FrameAhead
<1>2. Readable(sl, b)
  BY DEF FrameAhead
<1>3. Len(s) \in Nat /\ Behind(s) = SubSeq(s, Used(sl, b) + 2, Len(s))
  BY DEF Behind
<1> HIDE DEF sl, b
<1>4. /\ RecLen(sl) \in 0..15
      /\ IdLen(sl) \in {2, 4}
      /\ Payload(sl) \in {0, RecLen(sl)}
      /\ Used(sl, b) \in Nat
  BY <1>1 DEF RecLen, IdLen, Payload, Used, Byte
<1>5. DlcOf(sl) \in 0..8 /\ DlcOf(sl) <= RecLen(sl)
  BY <1>4 DEF DlcOf
<1>6. \A i \in 1..Len(b) : b[i] \in Byte
  BY <1>1
<1>7. Id(sl, b) \in ExtIds
  <2>1. b[1] \in Byte /\ b[2] \in Byte
    BY <1>1, <1>2, <1>4, <1>6 DEF Readable
  <2>2. CASE Ext(sl)
    <3>1. b[3] \in Byte /\ b[4] \in Byte
      BY <1>1, <1>2, <1>6, <2>2 DEF Readable, IdLen
    <3> QED BY <2>1, <2>2, <3>1, ExtIdType DEF Id
  <2>3. CASE ~Ext(sl)
    BY <2>1, <2>3, StdIdType, Zenon DEF Id
  <2> QED BY <2>2, <2>3
<1>8. ASSUME ~Rtr(sl)
      PROVE  SubSeq(b, IdLen(sl) + 1, IdLen(sl) + DlcOf(sl)) \in Seq(Byte)
  <2>1. IdLen(sl) + DlcOf(sl) <= Len(b)
    BY <1>1, <1>2, <1>4, <1>5, SMTT(30) DEF Readable
  <2>2. \A i \in IdLen(sl) + 1 .. IdLen(sl) + DlcOf(sl) : b[i] \in Byte
    BY <1>1, <1>4, <1>5, <1>6, <2>1
  <2> QED BY <1>4, <1>5, <2>2, SubSeqProperties
<1>9. ASSUME Echo(b) PROVE b[Used(sl, b)] \in Byte
  <2>1. Used(sl, b) = IdLen(sl) + Payload(sl) + 1
    BY <1>9 DEF Used
  <2>2. Used(sl, b) \in 1..Len(b)
    BY <1>1, <1>2, <1>4, <2>1, SMTT(30) DEF Readable
  <2> QED BY <1>6, <2>2
<1>10. FrameOf(sl, b) \in CanFrames
  <2>1. Ext(sl) \in BOOLEAN /\ Rtr(sl) \in BOOLEAN
    BY DEF Ext, Rtr, Bit
  <2>2. (IF Rtr(sl) THEN <<>>
         ELSE SubSeq(b, IdLen(sl) + 1, IdLen(sl) + DlcOf(sl))) \in Seq(Byte)
    BY <1>8
  <2>3. (IF Echo(b) THEN <<b[Used(sl, b)]>> ELSE <<>>) \in Seq(Byte)
    BY <1>9
  <2> QED BY <1>5, <1>7, <2>1, <2>2, <2>3 DEF FrameOf, CanFrames
<1>11. Behind(s) \in Seq(Byte)
  BY <1>3, <1>4, SubSeqProperties
<1> QED
  BY <1>10, <1>11 DEF FirstFrame, sl, b

\* Sequence r is s from m to n.
Stretch(S, r, s, m, n) ==
    /\ r \in Seq(S)
    /\ Len(r) = IF m <= n THEN n - m + 1 ELSE 0
    /\ \A i \in 1 .. n - m + 1 : r[i] = s[m + i - 1]

LEMMA StretchAt ==
    ASSUME NEW S, NEW s, NEW m \in Int, NEW n \in Int,
           \A i \in m..n : s[i] \in S
    PROVE  Stretch(S, SubSeq(s, m, n), s, m, n)
<1>1. SubSeq(s, m, n) \in Seq(S)
  BY SubSeqProperties
<1>2. Len(SubSeq(s, m, n)) = IF m <= n THEN n - m + 1 ELSE 0
  BY SubSeqProperties
<1>3. ASSUME NEW i \in 1 .. n - m + 1 PROVE SubSeq(s, m, n)[i] = s[m + i - 1]
  BY SubSeqProperties
<1> QED
  BY <1>1, <1>2, <1>3, Zenon DEF Stretch

\* Equal stretches of two sequences.
LEMMA SameStretch ==
    ASSUME NEW S, NEW b \in Seq(S), NEW c \in Seq(S),
           NEW m \in Nat, NEW n \in Nat, m + n <= Len(b), n <= Len(c),
           \A k \in 1..n : b[m + k] = c[k]
    PROVE  SubSeq(b, m + 1, m + n) = SubSeq(c, 1, n)
<1> DEFINE x == SubSeq(b, m + 1, m + n)
           y == SubSeq(c, 1, n)
<1>1. /\ \A i \in 1..Len(b) : b[i] \in S
      /\ \A i \in 1..Len(c) : c[i] \in S
      /\ Len(b) \in Nat /\ Len(c) \in Nat
  OBVIOUS
<1>2. \A i \in m + 1 .. m + n : b[i] \in S
  BY <1>1
<1>3. \A i \in 1..n : c[i] \in S
  BY <1>1
<1>4. m + 1 \in Int /\ m + n \in Int /\ 1 \in Int /\ n \in Int
  OBVIOUS
<1>5. Stretch(S, x, b, m + 1, m + n)
  BY <1>2, <1>4, StretchAt, Zenon
<1>6. Stretch(S, y, c, 1, n)
  BY <1>3, <1>4, StretchAt, Zenon
<1> HIDE DEF x, y
<1>7. x \in Seq(S) /\ y \in Seq(S) /\ Len(x) = n /\ Len(y) = n
  BY <1>5, <1>6 DEF Stretch
<1>8. ASSUME NEW i \in 1..n PROVE x[i] = y[i]
  <2>1. /\ i \in 1 .. (m + n) - (m + 1) + 1 /\ (m + 1) + i - 1 = m + i
        /\ i \in 1 .. n - 1 + 1 /\ 1 + i - 1 = i
    OBVIOUS
  <2>2. x[i] = b[m + i] /\ y[i] = c[i]
    BY <1>5, <1>6, <2>1, Zenon DEF Stretch
  <2> QED BY <2>2
<1> QED
  BY <1>7, <1>8, SeqEqual, Zenon DEF x, y

\* The identifier of a host's frame, read from bytes that begin with it.
LEMMA IdRead ==
    ASSUME NEW f, HostFrame(f), NEW sl, Ext(sl) <=> f.ext, NEW b,
           \A k \in 1..Len(IdBytes(f)) : b[k] = IdBytes(f)[k]
    PROVE  Id(sl, b) = f.id
<1>1. Len(f.echo) \in 0..1
  BY DEF HostFrame
<1>2. CASE f.ext
  <2> DEFINE x == ExtIdBytes(f.id, Len(f.echo))
  <2>1. f.id \in ExtIds
    BY <1>2 DEF HostFrame
  <2>2. ExtIdIs(x, f.id, Len(f.echo))
    BY <1>1, <2>1, ExtIdRead, Zenon
  <2>3. IdBytes(f) = x
    BY <1>2 DEF IdBytes
  <2> HIDE DEF x
  <2>4. \A k \in 1..4 : b[k] = x[k]
    BY <2>2, <2>3, Zenon DEF ExtIdIs
  <2> QED BY <1>2, <2>2, <2>4 DEF Id, ExtIdIs
<1>3. CASE ~f.ext
  <2> DEFINE x == StdIdBytes(f.id, Len(f.echo))
  <2>1. f.id \in StdIds
    BY <1>3 DEF HostFrame
  <2>2. StdIdIs(x, f.id, Len(f.echo))
    BY <1>1, <2>1, StdIdRead, Zenon
  <2>3. IdBytes(f) = x
    BY <1>3 DEF IdBytes
  <2> HIDE DEF x
  <2>4. \A k \in 1..2 : b[k] = x[k]
    BY <2>2, <2>3, Zenon DEF StdIdIs
  <2> QED BY <1>3, <2>2, <2>4 DEF Id, StdIdIs
<1> QED
  BY <1>2, <1>3

LEMMA EchoRead ==
    ASSUME NEW f, HostFrame(f), NEW b, b[1] = IdBytes(f)[1]
    PROVE  Echo(b) <=> Len(f.echo) = 1
<1>1. Len(f.echo) \in 0..1
  BY DEF HostFrame
<1>2. CASE f.ext
  BY <1>1, <1>2, ExtIdRead, ZenonT(40) DEF HostFrame, IdBytes, Echo, ExtIdIs
<1>3. CASE ~f.ext
  BY <1>1, <1>3, StdIdRead DEF HostFrame, IdBytes, Echo, StdIdIs
<1> QED
  BY <1>2, <1>3

\* Bytes that begin with a frame's record, as far as they go, are read as that
\* frame; or they are too few.
LEMMA RecordRead ==
    ASSUME NEW f, HostFrame(f), NEW s \in Seq(Byte), s # <<>>,
           \A k \in 1..Len(s) :
             k <= Len(RecordOf(f)) => s[k] = RecordOf(f)[k]
    PROVE  /\ FrameAhead(s) =>
                /\ Len(RecordOf(f)) <= Len(s)
                /\ FirstFrame(s) = Expected(f)
                /\ Behind(s) = SubSeq(s, Len(RecordOf(f)) + 1, Len(s))
           /\ ~FrameAhead(s) =>
                \/ Len(s) < Len(RecordOf(f))
                \/ f.rtr /\ Len(s) < 1 + Len(IdBytes(f)) + f.dlc
<1> DEFINE sl == Head(s)
           b == Tail(s)
           n == Len(b)
           r == RecordOf(f)
           id == IdBytes(f)
           L == Len(id)
           data == f.data
           echo == f.echo
           D == Len(data)
           E == Len(echo)
           dlc == f.dlc
<1>1. /\ f.ext \in BOOLEAN /\ f.rtr \in BOOLEAN /\ dlc \in 0..15
      /\ data \in Seq(Byte) /\ D = IF f.rtr THEN 0 ELSE dlc
      /\ echo \in Seq(Byte) /\ E \in 0..1
  BY DEF HostFrame
<1>2. /\ id \in Seq(Byte) /\ L = IF f.ext THEN 4 ELSE 2
      /\ id[1] \in Byte
  BY IdBytesType
<1>3. /\ b \in Seq(Byte) /\ n \in Nat /\ Len(s) = n + 1
      /\ sl = s[1]
      /\ \A i \in 1..n : b[i] = s[i + 1]
  BY HeadTailProperties
<1>4. /\ Len(r) = 1 + L + D + E
      /\ r[1] = StatusLength(dlc, f.rtr, f.ext)
      /\ \A k \in 1..L : r[1 + k] = id[k]
      /\ \A k \in 1..D : r[1 + L + k] = data[k]
      /\ \A k \in 1..E : r[1 + L + D + k] = echo[k]
  BY RecordShape, Zenon
<1>5. Expected(f) =
        [ext |-> f.ext, rtr |-> f.rtr, id |-> f.id, dlc |-> CanDlc(dlc),
         data |-> SubSeq(data, 1, CanDlc(D)), echo |-> echo]
  BY DEF Expected
<1>6. /\ FrameAhead(s) <=> ~Internal(sl) /\ Readable(sl, b)
      /\ FirstFrame(s) = FrameOf(sl, b)
      /\ Behind(s) = SubSeq(s, Used(sl, b) + 2, Len(s))
  BY DEF FrameAhead, FirstFrame, Behind
<1> HIDE DEF sl, b, n, r, id, L, data, echo, D, E, dlc
<1>7. /\ L \in {2, 4} /\ D \in 0..15 /\ E \in Nat /\ dlc \in Nat
  BY <1>1, <1>2
<1>8. \A k \in 1..Len(s) : k <= Len(r) => s[k] = r[k]
  BY DEF r
<1>9. sl = StatusLength(dlc, f.rtr, f.ext)
  BY <1>3, <1>4, <1>7, <1>8
<1>10. /\ ~Internal(sl) /\ RecLen(sl) = dlc
       /\ Ext(sl) <=> f.ext
       /\ Rtr(sl) <=> f.rtr
  BY <1>1, <1>9, StatusFields
<1>11. IdLen(sl) = L /\ Payload(sl) = D
  BY <1>1, <1>2, <1>10 DEF IdLen, Payload
<1>12. ASSUME NEW k \in 1..n, k <= L + D + E PROVE b[k] = r[1 + k]
  <2>1. 1 + k \in 1..Len(s) /\ 1 + k <= Len(r) /\ k + 1 = 1 + k
    BY <1>3, <1>4, <1>7, <1>12
  <2> QED BY <1>3, <1>8, <2>1
<1>13. ASSUME n >= 1 PROVE Used(sl, b) = L + D + E
  <2>1. 1 \in 1..n /\ 1 \in 1..L /\ 1 <= L + D + E
    BY <1>3, <1>7, <1>13
  <2>2. b[1] = id[1]
    BY <1>4, <1>12, <2>1
  <2>3. Echo(b) <=> E = 1
    BY <2>2, EchoRead DEF id, E, echo
  <2> QED BY <1>1, <1>7, <1>11, <2>3 DEF Used
<1>14. Readable(sl, b) <=>
         n >= L /\ n >= L + dlc /\ n >= L + D + E
  <2>1. CASE n >= 1
    BY <1>10, <1>11, <1>13, <2>1 DEF Readable, n
  <2>2. CASE ~(n >= 1)
    BY <1>3, <1>7, <1>11, <2>2 DEF Readable, n
  <2> QED BY <2>1, <2>2
<1>15. ASSUME ~FrameAhead(s)
       PROVE  \/ Len(s) < Len(r)
              \/ f.rtr /\ Len(s) < 1 + L + dlc
  <2>1. ~(n >= L /\ n >= L + dlc /\ n >= L + D + E)
    BY <1>6, <1>10, <1>14, <1>15
  <2> QED BY <1>1, <1>3, <1>4, <1>7, <2>1
<1>16. ASSUME FrameAhead(s)
       PROVE  /\ Len(r) <= Len(s)
              /\ FirstFrame(s) = Expected(f)
              /\ Behind(s) = SubSeq(s, Len(r) + 1, Len(s))
  <2>1. n >= L /\ n >= L + dlc /\ n >= L + D + E /\ n >= 1
    <3>1. n >= L /\ n >= L + dlc /\ n >= L + D + E
      BY <1>6, <1>14, <1>16, Zenon
    <3> QED BY <1>3, <1>7, <3>1
  <2>2. Used(sl, b) = L + D + E
    BY <1>13, <2>1
  <2>3. Len(r) <= Len(s) /\ Used(sl, b) + 2 = Len(r) + 1
    BY <1>3, <1>4, <1>7, <2>1, <2>2
  <2>4. Id(sl, b) = f.id
    <3>1. ASSUME NEW k \in 1..L PROVE b[k] = id[k]
      <4>1. k \in 1..n /\ k <= L + D + E
        BY <1>3, <1>7, <2>1
      <4> QED BY <1>4, <1>12, <4>1
    <3> QED BY <1>10, <3>1, IdRead DEF id, L
  <2>5. DlcOf(sl) = CanDlc(dlc)
    BY <1>10 DEF DlcOf, CanDlc
  <2>6. ASSUME ~f.rtr
        PROVE  SubSeq(b, IdLen(sl) + 1, IdLen(sl) + DlcOf(sl))
                 = SubSeq(data, 1, CanDlc(D))
    <3> DEFINE m == CanDlc(D)
    <3>1. m \in Nat /\ m <= D /\ D = dlc
      BY <1>1, <1>7, <2>6 DEF CanDlc
    <3> HIDE DEF m
    <3>2. ASSUME NEW k \in 1..m PROVE b[L + k] = data[k]
      <4>1. /\ L + k \in 1..n /\ L + k <= L + D + E /\ k \in 1..D
            /\ 1 + (L + k) = 1 + L + k
        BY <1>3, <1>7, <2>1, <3>1
      <4> QED BY <1>4, <1>12, <4>1
    <3>3. L \in Nat /\ L + m <= Len(b) /\ m <= Len(data)
      BY <1>3, <1>7, <2>1, <3>1 DEF n, D
    <3>4. SubSeq(b, L + 1, L + m) = SubSeq(data, 1, m)
      <4>1. b \in Seq(Byte) /\ data \in Seq(Byte) /\ m \in Nat
        BY <1>1, <1>3, <3>1, Zenon
      <4> QED BY <3>2, <3>3, <4>1, SameStretch, ZenonT(40)
    <3> QED BY <1>11, <2>5, <3>1, <3>4 DEF m
  <2>7. ASSUME f.rtr PROVE SubSeq(data, 1, CanDlc(D)) = <<>>
    <3>1. CanDlc(D) = 0
      BY <1>1, <2>7 DEF CanDlc
    <3>2. 1 \in Int /\ 0 \in Int /\ 0 < 1
      OBVIOUS
    <3> QED BY <3>1, <3>2, SubSeqEmpty, Zenon
  <2>8. (IF Echo(b) THEN <<b[Used(sl, b)]>> ELSE <<>>) = echo
    <3>1. 1 \in 1..n /\ 1 \in 1..L /\ 1 <= L + D + E
      BY <1>3, <1>7, <2>1
    <3>2. b[1] = id[1]
      BY <1>4, <1>12, <3>1
    <3>3. Echo(b) <=> E = 1
      BY <3>2, EchoRead DEF id, E, echo
    <3>4. CASE E = 1
      <4>1. L + D + E \in 1..n /\ 1 \in 1..E /\ 1 + (L + D + E) = 1 + L + D + 1
        BY <1>3, <1>7, <2>1, <3>4
      <4>2. b[Used(sl, b)] = echo[1]
        BY <1>4, <1>12, <2>2, <4>1
      <4>3. echo = <<echo[1]>>
        BY <1>1, <3>4 DEF E
      <4> QED BY <3>3, <3>4, <4>2, <4>3, Zenon
    <3>5. CASE E = 0
      <4>1. echo = <<>>
        BY <1>1, <3>5 DEF E
      <4> QED BY <3>3, <3>5, <4>1
    <3> QED BY <1>1, <3>4, <3>5
  <2>9. Ext(sl) = f.ext /\ Rtr(sl) = f.rtr
    <3>1. Ext(sl) \in BOOLEAN /\ Rtr(sl) \in BOOLEAN
      BY DEF Ext, Rtr, Bit
    <3> QED BY <1>1, <1>10, <3>1, Zenon
  <2>10. (IF Rtr(sl) THEN <<>>
          ELSE SubSeq(b, IdLen(sl) + 1, IdLen(sl) + DlcOf(sl)))
            = SubSeq(data, 1, CanDlc(D))
    BY <1>10, <2>6, <2>7, Zenon
  <2>11. FrameOf(sl, b) = Expected(f)
    BY <1>5, <2>4, <2>5, <2>8, <2>9, <2>10, Zenon DEF FrameOf
  <2> QED BY <1>6, <2>3, <2>11
<1> QED
  BY <1>15, <1>16 DEF r, L, id, dlc

------------------------------------------------------------------------------
(* Types *)

\* "t | 1" does not leave the range of the 16-bit times, as that is even.
LEMMA OddType == ASSUME NEW t \in Millis PROVE Odd(t) \in Millis
<1>1. /\ WRAP \in Nat /\ WRAP % 2 = 0
      /\ t \in Nat /\ t < WRAP
  BY LedAssumption DEF Millis
<1>2. CASE t % 2 = 0
  <2>1. t + 1 # WRAP
    BY <1>1, <1>2
  <2> QED BY <1>1, <1>2, <2>1 DEF Odd, Millis
<1>3. CASE t % 2 = 1
  BY <1>1, <1>3 DEF Odd, Millis
<1> QED
  BY <1>1, <1>2, <1>3

LEMMA SumType == ASSUME NEW t \in Nat PROVE t % WRAP \in Millis
  BY LedAssumption DEF Millis

LEMMA SetModeType ==
    ASSUME ts_ms \in Millis, NEW r \in LedRecords, NEW mode \in LedModes,
           NEW arg \in Millis
    PROVE  SetMode(r, mode, arg) \in LedRecords
<1>1. /\ Odd(ts_ms) \in Millis
      /\ Odd((ts_ms + arg) % WRAP) \in Millis
  BY OddType, SumType DEF Millis
<1>2. Delay(mode) \in {0, FAST, SLOW}
  BY DEF Delay
<1> QED
  BY <1>1, <1>2 DEF SetMode, LedRecords

LEMMA PolledType ==
    ASSUME ts_ms \in Millis, NEW r \in LedRecords
    PROVE  Polled(r) \in LedRecords
<1>1. 0 \in Millis
  BY LedAssumption DEF Millis
<1>2. Toggled(r) \in LedRecords
  <2>1. r.timestamp + r.delay \in Nat
    BY LedAssumption DEF LedRecords, Millis
  <2>2. Odd((r.timestamp + r.delay) % WRAP) \in Millis
    BY <2>1, OddType, SumType
  <2>3. 1 - r.state \in {0, 1}
    BY DEF LedRecords
  <2> QED BY <2>2, <2>3 DEF Toggled, LedRecords
<1>3. SetMode(Toggled(r), "OFF", 0) \in LedRecords
  BY <1>1, <1>2, SetModeType DEF LedModes
<1> QED
  BY <1>1, <1>2, <1>3 DEF Polled, LedRecords

LEMMA TypeOKInit == Init => TypeOK
<1> SUFFICES ASSUME Init PROVE TypeOK
  OBVIOUS
<1>1. 0 \in Millis /\ ts_ms \in Millis
  BY LedAssumption DEF Init, LedInit, Millis
<1>2. led \in [Leds -> LedRecords]
  <2> DEFINE zero == [mode |-> "NONE", arg |-> 0, delay |-> 0,
                      timestamp |-> 0, state |-> 0]
  <2>1. zero \in LedRecords
    BY <1>1 DEF LedRecords, LedModes
  <2>2. SetMode(zero, "BLINK_SLOW", 0) \in LedRecords
    BY <1>1, <2>1, SetModeType DEF LedModes
  <2> HIDE DEF zero
  <2>3. led = [l \in Leds |-> IF l = "STAT" THEN zero
                              ELSE SetMode(zero, "BLINK_SLOW", 0)]
    BY DEF Init, LedInit, zero
  <2> QED BY <2>1, <2>2, <2>3
<1>3. /\ sja1000_shadow \in [1..6 -> Byte]
      /\ sja1000_ic_mode \in {"PELICAN", "BASICCAN"}
  BY DEF Init, SjaInit, Byte
<1>4. /\ bus_active \in Byte
      /\ device \in [Fields \cup {"btr0", "btr1"} -> Byte]
  BY DEF Init, Byte, Fields
<1>5. timing \in [Prescaler : 1..1024, SyncJumpWidth : 1..4,
                  TimeSeg1 : 1..16, TimeSeg2 : 1..8]
  BY DEF Init
<1>6. /\ polled \in BOOLEAN
      /\ DOMAIN given = Names \cup {"bitrate", "device_id", "led_mode"}
      /\ want \in [Leds -> {"ON", "OFF", "BLINK"}]
      /\ events \in 0..MaxEvents
  BY CommandAssumption DEF Init, Names
<1>7. rest \in Seq(Byte) /\ left \in Byte /\ read \in Seq(CanFrames)
  BY DEF Init, Byte
<1> QED
  BY <1>1, <1>2, <1>3, <1>4, <1>5, <1>6, <1>7 DEF TypeOK

\* A step that tells LEDs something.
LEMMA LedStep ==
    ASSUME TypeOK,
           NEW M \in [Leds -> LedModes], NEW A \in [Leds -> Millis],
           NEW S \in SUBSET Leds,
           led' = [l \in Leds |-> IF l \in S
                                  THEN SetMode(led[l], M[l], A[l])
                                  ELSE led[l]]
    PROVE  led' \in [Leds -> LedRecords]
<1>1. ASSUME NEW l \in Leds PROVE SetMode(led[l], M[l], A[l]) \in LedRecords
  BY SetModeType DEF TypeOK
<1> QED
  BY <1>1 DEF TypeOK

LEMMA SetBusType ==
    ASSUME TypeOK, NEW p0 \in Byte, SetBus(p0) PROVE TypeOK'
<1> DEFINE M == [l \in Leds |->
                   IF l = "STAT" THEN IF p0 # 0 THEN "BLINK_SLOW" ELSE "OFF"
                   ELSE BusLed(p0)]
           A == [l \in Leds |-> 0]
<1>1. /\ M \in [Leds -> LedModes] /\ A \in [Leds -> Millis]
  BY LedAssumption DEF LedModes, BusLed, Millis
<1>2. led' = [l \in Leds |-> IF l \in Leds
                             THEN SetMode(led[l], M[l], A[l]) ELSE led[l]]
  BY DEF SetBus
<1> HIDE DEF M, A
<1>3. led' \in [Leds -> LedRecords]
  BY <1>1, <1>2, LedStep
<1>4. want' \in [Leds -> {"ON", "OFF", "BLINK"}]
  BY DEF SetBus, BusLed
<1>5. events' \in 0..MaxEvents
  BY CommandAssumption DEF SetBus, TypeOK
<1> QED
  BY <1>3, <1>4, <1>5 DEF SetBus, TypeOK, sjaVars, setVars, msgVars

LEMMA BlinkType ==
    ASSUME TypeOK, NEW x, NEW d \in Nat, Blink(x, d)
    PROVE  /\ led' \in [Leds -> LedRecords]
           /\ want' \in [Leds -> {"ON", "OFF", "BLINK"}]
           /\ ts_ms' \in Millis
           /\ polled' \in BOOLEAN
<1> DEFINE M == [l \in Leds |-> "BLINK_FAST"]
           A == [l \in Leds |-> BLINK]
<1>1. /\ M \in [Leds -> LedModes] /\ A \in [Leds -> Millis]
  BY CommandAssumption DEF LedModes
<1>2. led' = [l \in Leds |-> IF l \in Leds \cap {x}
                             THEN SetMode(led[l], M[l], A[l]) ELSE led[l]]
  BY DEF Blink
<1> HIDE DEF M, A
<1>3. led' \in [Leds -> LedRecords]
  BY <1>1, <1>2, LedStep
<1>4. ts_ms + d \in Nat
  BY DEF TypeOK, Millis
<1>5. ts_ms' \in Millis
  BY <1>4, SumType DEF Blink
<1>6. want' \in [Leds -> {"ON", "OFF", "BLINK"}]
  BY DEF Blink, TypeOK
<1>7. polled' \in BOOLEAN
  BY ZenonT(40) DEF Blink, TypeOK
<1> QED
  BY <1>3, <1>5, <1>6, <1>7

LEMMA VendorType == TypeOK /\ VendorInfo => TypeOK'
<1> SUFFICES ASSUME TypeOK, VendorInfo PROVE TypeOK'
  OBVIOUS
<1> DEFINE M == [l \in Leds |-> "ON"]
           A == [l \in Leds |-> 0]
           S == Leds \ {"STAT"}
<1>1. /\ M \in [Leds -> LedModes] /\ A \in [Leds -> Millis]
      /\ S \in SUBSET Leds
  BY LedAssumption DEF LedModes, Millis
<1>2. led' = [l \in Leds |-> IF l \in S
                             THEN SetMode(led[l], M[l], A[l]) ELSE led[l]]
  BY DEF VendorInfo
<1> HIDE DEF M, A, S
<1>3. led' \in [Leds -> LedRecords]
  BY <1>1, <1>2, LedStep
<1>4. want' \in [Leds -> {"ON", "OFF", "BLINK"}]
  BY DEF VendorInfo, TypeOK
<1>5. events' \in 0..MaxEvents
  BY CommandAssumption DEF VendorInfo, TypeOK
<1> QED
  BY <1>3, <1>4, <1>5 DEF VendorInfo, TypeOK, sjaVars, setVars, msgVars

LEMMA RegisterType ==
    ASSUME TypeOK, NEW p0 \in Byte, NEW p1 \in Byte, SetRegister(p0, p1)
    PROVE  TypeOK'
<1>1. sja1000_shadow' \in [1..6 -> Byte]
  <2>1. Kept(Masked(p0), p1) \in Byte
    BY DEF Kept, Byte
  <2> QED BY <2>1 DEF SetRegister, Write, TypeOK
<1>2. sja1000_ic_mode' \in {"PELICAN", "BASICCAN"}
  BY DEF SetRegister, Write, TypeOK
<1>3. DOMAIN given' = DOMAIN given
  BY DEF SetRegister
<1> QED
  BY <1>1, <1>2, <1>3 DEF SetRegister, TypeOK, ledVars, busVars, msgVars

LEMMA PacketOutType ==
    ASSUME TypeOK, NEW p \in Packets, PacketOut(p) PROVE TypeOK'
<1>1. p.bytes \in Seq(Byte)
  BY CommandAssumption
<1>2. Len(p.bytes) >= 2 => p.bytes[2] \in Byte
  BY <1>1
<1>3. left' \in Byte
  BY <1>1, <1>2 DEF PacketOut, Byte
<1>4. rest' \in Seq(Byte)
  BY <1>1, SubSeqProperties DEF PacketOut
<1>5. events' \in 0..MaxEvents
  BY CommandAssumption DEF PacketOut, TypeOK
<1>6. read' \in Seq(CanFrames)
  BY DEF PacketOut
<1> QED
  BY <1>3, <1>4, <1>5, <1>6 DEF PacketOut, TypeOK, ledVars, sjaVars, setVars

LEMMA ReadRecordType ==
    ASSUME TypeOK, NEW d \in 0..WAIT, ReadRecord(d) PROVE TypeOK'
<1>1. /\ led' \in [Leds -> LedRecords]
      /\ want' \in [Leds -> {"ON", "OFF", "BLINK"}]
      /\ ts_ms' \in Millis
      /\ polled' \in BOOLEAN
  <2>1. d \in Nat
    BY CommandAssumption
  <2> QED BY <2>1, BlinkType DEF ReadRecord
<1>2. rest \in Seq(Byte) /\ FrameAhead(rest)
  BY DEF ReadRecord, TypeOK
<1>3. rest' \in Seq(Byte) /\ read' \in Seq(CanFrames)
  BY <1>2, FirstFrameType DEF ReadRecord, TypeOK
<1>4. left' \in Byte
  BY DEF ReadRecord, TypeOK, Byte
<1> QED
  BY <1>1, <1>3, <1>4, SMTT(30) DEF ReadRecord, TypeOK, busVars, sjaVars, setVars

LEMMA TypeOKStep == TypeOK /\ [Next]_vars => TypeOK'
<1> SUFFICES ASSUME TypeOK, [Next]_vars PROVE TypeOK'
  OBVIOUS
<1>1. ASSUME NEW p0 \in Byte, NEW p1 \in Byte, SetBitrate(p0, p1)
      PROVE TypeOK'
  <2>1. device' \in [Fields \cup {"btr0", "btr1"} -> Byte]
    <3>1. device' = [device EXCEPT !["btr0"] = p1, !["btr1"] = p0]
      BY <1>1 DEF SetBitrate
    <3> QED BY <3>1 DEF TypeOK
  <2>2. timing' \in [Prescaler : 1..1024, SyncJumpWidth : 1..4,
                     TimeSeg1 : 1..16, TimeSeg2 : 1..8]
    BY <1>1, TimingFields DEF SetBitrate
  <2>3. DOMAIN given' = DOMAIN given
    BY <1>1 DEF SetBitrate
  <2> QED
    BY <1>1, <2>1, <2>2, <2>3
    DEF SetBitrate, TypeOK, sjaVars, ledVars, busVars, msgVars
<1>2. ASSUME NEW p0 \in Byte, NEW p1 \in Byte, SetRegister(p0, p1)
      PROVE TypeOK'
  BY <1>2, RegisterType
<1>3. ASSUME NEW p0 \in Byte, NEW field \in Fields, Keep(field, p0)
      PROVE TypeOK'
  <2>1. device' \in [Fields \cup {"btr0", "btr1"} -> Byte]
    BY <1>3 DEF Keep, TypeOK
  <2>2. DOMAIN given' = DOMAIN given
    BY <1>3 DEF Keep
  <2> QED
    BY <1>3, <2>1, <2>2 DEF Keep, TypeOK, sjaVars, ledVars, busVars, msgVars
<1>4. ASSUME NEW p0 \in Byte, SetBus(p0) PROVE TypeOK'
  BY <1>4, SetBusType
<1>5. ASSUME NEW p \in Packets, PacketOut(p) PROVE TypeOK'
  BY <1>5, PacketOutType
<1>6. CASE RxMessage
  <2>1. /\ led' \in [Leds -> LedRecords]
        /\ want' \in [Leds -> {"ON", "OFF", "BLINK"}]
        /\ ts_ms' \in Millis
        /\ polled' \in BOOLEAN
    BY <1>6, BlinkType DEF RxMessage
  <2>2. events' \in 0..MaxEvents
    BY <1>6, CommandAssumption DEF RxMessage, TypeOK
  <2> QED
    BY <1>6, <2>1, <2>2 DEF RxMessage, TypeOK, sjaVars, setVars, msgVars
<1>7. CASE VendorInfo BY <1>7, VendorType
<1>11. CASE StopReading
  BY <1>11, SMTT(30) DEF StopReading, TypeOK, sjaVars, ledVars, busVars, setVars, Byte
<1>12. ASSUME NEW d \in 0..WAIT, ReadRecord(d) PROVE TypeOK'
  BY <1>12, ReadRecordType
<1>8. CASE Poll
  <2>1. ASSUME NEW l \in Leds PROVE Polled(led[l]) \in LedRecords
    BY PolledType DEF TypeOK
  <2>2. led' \in [Leds -> LedRecords]
    BY <1>8, <2>1 DEF Poll, LedPoll
  <2> QED
    BY <1>8, <2>2 DEF Poll, LedPoll, TypeOK, sjaVars, busVars, setVars, msgVars
<1>9. CASE Pass
  <2>1. ts_ms + 1 \in Nat
    BY DEF TypeOK, Millis
  <2>2. ts_ms' \in Millis
    BY <1>9, <2>1, SumType DEF Pass
  <2> QED
    BY <1>9, <2>2, ZenonT(40) DEF Pass, TypeOK, sjaVars, busVars, setVars, msgVars
<1>10. CASE UNCHANGED vars
  BY <1>10 DEF vars, TypeOK, sjaVars, ledVars, busVars, setVars, msgVars
<1> QED
  BY <1>1, <1>2, <1>3, <1>4, <1>5, <1>6, <1>7, <1>8, <1>9, <1>10, <1>11,
     <1>12
  DEF Next, Set, Reading

\* Times, modes and kept values stay in their ranges, for every even range of
\* the 16-bit times and all bytes of the host.
THEOREM TypeCorrect == Spec => []TypeOK
  BY TypeOKInit, TypeOKStep, PTL DEF Spec
------------------------------------------------------------------------------
(* Packets are read as they were sent *)

\* What remains of what remains.
LEMMA RestOfRest ==
    ASSUME NEW S, NEW c \in Seq(S), NEW a \in Nat, NEW l \in Nat,
           a + l <= Len(c)
    PROVE  SubSeq(SubSeq(c, a + 1, Len(c)), l + 1, Len(c) - a)
             = SubSeq(c, (a + l) + 1, Len(c))
<1> DEFINE size == Len(c)
           s == SubSeq(c, a + 1, size)
           x == SubSeq(s, l + 1, size - a)
           y == SubSeq(c, (a + l) + 1, size)
<1>1. /\ size \in Nat /\ \A i \in 1..size : c[i] \in S
  OBVIOUS
<1> HIDE DEF size
<1>2. Stretch(S, s, c, a + 1, size)
  <2>1. a + 1 \in Int /\ size \in Int
    BY <1>1
  <2>2. \A i \in a + 1 .. size : c[i] \in S
    BY <1>1
  <2> QED BY <2>1, <2>2, StretchAt, Zenon
<1>3. Stretch(S, y, c, (a + l) + 1, size)
  <2>1. (a + l) + 1 \in Int /\ size \in Int
    BY <1>1
  <2>2. \A i \in (a + l) + 1 .. size : c[i] \in S
    BY <1>1
  <2> QED BY <2>1, <2>2, StretchAt, Zenon
<1>4. a + l <= size
  BY DEF size
<1> HIDE DEF s, y
<1>5. /\ s \in Seq(S) /\ Len(s) = size - a
      /\ \A i \in 1 .. size - a : s[i] = c[a + i]
  <2>1. s \in Seq(S) /\ Len(s) = size - a
    BY <1>1, <1>2, <1>4 DEF Stretch
  <2>2. ASSUME NEW i \in 1 .. size - a PROVE s[i] = c[a + i]
    <3>1. i \in 1 .. size - (a + 1) + 1 /\ (a + 1) + i - 1 = a + i
      BY <1>1
    <3> QED BY <1>2, <3>1 DEF Stretch
  <2> QED BY <2>1, <2>2
<1>6. Stretch(S, x, s, l + 1, size - a)
  <2>1. l + 1 \in Int /\ size - a \in Int
    BY <1>1
  <2>2. \A i \in l + 1 .. size - a : s[i] \in S
    BY <1>1, <1>5
  <2> QED BY <2>1, <2>2, StretchAt, Zenon
<1> HIDE DEF x
<1>7. /\ x \in Seq(S) /\ y \in Seq(S)
      /\ Len(x) = size - (a + l) /\ Len(y) = size - (a + l)
  BY <1>1, <1>3, <1>4, <1>6, SMTT(30) DEF Stretch
<1>8. ASSUME NEW i \in 1 .. size - (a + l) PROVE x[i] = y[i]
  <2>1. /\ i \in 1 .. (size - a) - (l + 1) + 1 /\ (l + 1) + i - 1 = l + i
        /\ i \in 1 .. size - ((a + l) + 1) + 1
        /\ ((a + l) + 1) + i - 1 = a + (l + i)
        /\ l + i \in 1 .. size - a
    BY <1>1, <1>4
  <2>2. x[i] = s[l + i]
    BY <1>6, <2>1, Zenon DEF Stretch
  <2>3. y[i] = c[a + (l + i)]
    BY <1>3, <2>1, Zenon DEF Stretch
  <2> QED BY <1>5, <2>1, <2>2, <2>3
<1> QED
  BY <1>7, <1>8, SeqEqual, Zenon DEF x, y, s, size

\* The place of frame i + 1 and the size of its record.
LEMMA PacketPlaces ==
    ASSUME NEW p, IsPacket(p), NEW i \in Nat, i < Len(p.frames)
    PROVE  /\ HostFrame(p.frames[i + 1])
           /\ p.at[i + 1] \in Nat
           /\ Len(RecordOf(p.frames[i + 1])) \in Nat
           /\ Len(RecordOf(p.frames[i + 1])) >= 3
           /\ p.at[i + 2] = p.at[i + 1] + Len(RecordOf(p.frames[i + 1]))
           /\ \A k \in 1..Len(RecordOf(p.frames[i + 1])) :
                p.at[i + 1] + k <= Len(p.bytes) =>
                  p.bytes[p.at[i + 1] + k] = RecordOf(p.frames[i + 1])[k]
<1> DEFINE f == p.frames[i + 1]
           j == i + 1
<1>1. Len(p.frames) \in Nat
  BY DEF IsPacket
<1>2. j \in 1..Len(p.frames) /\ j + 1 = i + 2
  BY <1>1
<1>3. HostFrame(p.frames[j])
  BY <1>2, Zenon DEF IsPacket
<1>4. p.at[j] \in Nat
  <2>1. p.at \in Seq(Nat) /\ Len(p.at) = Len(p.frames) + 1
    BY Zenon DEF IsPacket
  <2>2. j \in 1..Len(p.at)
    BY <1>1, <1>2, <2>1
  <2> QED BY <2>1, <2>2, ElementOfSeq, Zenon
<1>5. /\ p.at[j + 1] = p.at[j] + Len(RecordOf(p.frames[j]))
      /\ \A k \in 1..Len(RecordOf(p.frames[j])) :
           p.at[j] + k <= Len(p.bytes) =>
             p.bytes[p.at[j] + k] = RecordOf(p.frames[j])[k]
  BY <1>2, Zenon DEF IsPacket
<1>6. /\ Len(RecordOf(f)) \in Nat /\ Len(RecordOf(f)) >= 3
  <2> DEFINE L == Len(IdBytes(f))
             D == Len(f.data)
             E == Len(f.echo)
  <2>1. Len(RecordOf(f)) = 1 + L + D + E
    BY <1>3, RecordShape, Zenon
  <2>2. L = IF f.ext THEN 4 ELSE 2
    BY <1>3, IdBytesType, Zenon
  <2>3. D \in Nat /\ E \in Nat
    BY <1>3 DEF HostFrame
  <2> HIDE DEF L, D, E
  <2> QED BY <2>1, <2>2, <2>3
<1> QED
  BY <1>2, <1>3, <1>4, <1>5, <1>6, Zenon

LEMMA PacketTypes ==
    ASSUME NEW p, IsPacket(p)
    PROVE  /\ Len(p.frames) \in Nat
           /\ p.bytes \in Seq(Byte) /\ Len(p.bytes) \in Nat
           /\ p.at[1] = 2
           /\ \A i \in 1 .. Len(p.frames) + 1 : p.at[i] \in Nat
           /\ Len(p.bytes) >= 2 => p.bytes[2] \in Nat /\ p.bytes[2] >= Len(p.frames)
           /\ Len(p.bytes) >= 2 /\ p.bytes[2] > Len(p.frames)
                /\ Len(p.bytes) > p.at[Len(p.frames) + 1] =>
                  IsStatus(p.bytes[p.at[Len(p.frames) + 1] + 1])
<1>1. Len(p.frames) \in Nat /\ p.bytes \in Seq(Byte) /\ Len(p.bytes) \in Nat
  BY DEF IsPacket
<1>2. p.at[1] = 2
  BY DEF IsPacket
<1>3. \A i \in 1 .. Len(p.frames) + 1 : p.at[i] \in Nat
  BY SMTT(30) DEF IsPacket
<1>4. Len(p.bytes) >= 2 => p.bytes[2] \in Nat
  <2>1. ASSUME Len(p.bytes) >= 2 PROVE p.bytes[2] \in Byte
    BY <1>1, <2>1
  <2>2. \A v \in Byte : v \in Nat
    BY DEF Byte
  <2> QED BY <2>1, <2>2, Zenon
<1>5. Len(p.bytes) >= 2 =>
        /\ p.bytes[2] >= Len(p.frames)
        /\ p.bytes[2] > Len(p.frames)
             /\ Len(p.bytes) > p.at[Len(p.frames) + 1] =>
               IsStatus(p.bytes[p.at[Len(p.frames) + 1] + 1])
  BY Zenon DEF IsPacket
<1> QED
  BY <1>1, <1>2, <1>3, <1>4, <1>5, Zenon

\* The bytes of packet p behind its first n frames.
After(p, n) == SubSeq(p.bytes, p.at[n + 1] + 1, Len(p.bytes))

\* One round of the loop: the next frame is read as it was sent, or the packet
\* ends in it, or there is none.
LEMMA NextFrame ==
    ASSUME NEW p, IsPacket(p), NEW n \in Nat, n <= Len(p.frames),
           p.at[n + 1] <= Len(p.bytes), Len(p.bytes) >= 2,
           n = Len(p.frames) => p.bytes[2] > n
    PROVE  /\ FrameAhead(After(p, n)) =>
                /\ n < Len(p.frames)
                /\ FirstFrame(After(p, n)) = Expected(p.frames[n + 1])
                /\ p.at[n + 2] <= Len(p.bytes)
                /\ Behind(After(p, n)) = After(p, n + 1)
           /\ ~FrameAhead(After(p, n)) /\ n < Len(p.frames) =>
                EndsIn(p, n + 1)
<1> DEFINE size == Len(p.bytes)
           c == p.bytes
           a == p.at[n + 1]
           s == SubSeq(c, a + 1, size)
           N == Len(p.frames)
<1>1. N \in Nat /\ c \in Seq(Byte) /\ size \in Nat /\ a \in Nat
  <2>1. n + 1 \in 1 .. Len(p.frames) + 1
    BY PacketTypes
  <2> QED BY <2>1, PacketTypes, Zenon
<1>2. After(p, n) = s
  BY DEF After
<1>3. \A i \in 1..size : c[i] \in Byte
  BY <1>1
<1>4. a <= size
  OBVIOUS
<1> HIDE DEF a, c, size, N
<1>5. Stretch(Byte, s, c, a + 1, size)
  <2>1. a + 1 \in Int /\ size \in Int
    BY <1>1
  <2>2. \A i \in a + 1 .. size : c[i] \in Byte
    BY <1>1, <1>3
  <2> QED BY <2>1, <2>2, StretchAt, Zenon
<1> HIDE DEF s
<1>6. s \in Seq(Byte) /\ Len(s) = size - a
  BY <1>1, <1>4, <1>5 DEF Stretch
<1>7. ASSUME NEW i \in 1 .. size - a PROVE s[i] = c[a + i]
  <2>1. i \in 1 .. size - (a + 1) + 1 /\ (a + 1) + i - 1 = a + i
    BY <1>1
  <2> QED BY <1>5, <2>1 DEF Stretch
<1>8. CASE n < N
  <2> DEFINE f == p.frames[n + 1]
             r == RecordOf(f)
             l == Len(r)
  <2>1. /\ HostFrame(f) /\ l \in Nat /\ l >= 3
        /\ p.at[n + 2] = a + l
        /\ \A k \in 1..l : a + k <= size => c[a + k] = r[k]
    BY <1>8, PacketPlaces, Zenon DEF a, c, size, N
  <2>2. EndsIn(p, n + 1) <=>
          \/ size < p.at[n + 2]
          \/ f.rtr /\ size < a + 1 + Len(IdBytes(f)) + f.dlc
    <3>1. (n + 1) + 1 = n + 2
      OBVIOUS
    <3> QED BY <3>1, Zenon DEF EndsIn, a, size
  <2>3. Len(IdBytes(f)) \in Nat /\ f.dlc \in Nat
    <3>1. HostFrame(f)
      BY <2>1
    <3>2. Len(IdBytes(f)) \in Nat
      BY <3>1, IdBytesType
    <3>3. f.dlc \in 0..15
      BY <3>1, Zenon DEF HostFrame
    <3> HIDE DEF f
    <3> QED BY <3>2, <3>3
  <2>4. ASSUME NEW k \in 1..Len(s), k <= l PROVE s[k] = r[k]
    <3>1. k \in 1 .. size - a /\ k \in 1..l /\ a + k <= size
      BY <1>1, <1>4, <1>6, <2>1, <2>4
    <3> QED BY <1>7, <2>1, <3>1
  <2>5. /\ s # <<>> /\ FrameAhead(s) =>
             /\ l <= Len(s)
             /\ FirstFrame(s) = Expected(f)
             /\ Behind(s) = SubSeq(s, l + 1, Len(s))
        /\ s # <<>> /\ ~FrameAhead(s) =>
             \/ Len(s) < l
             \/ f.rtr /\ Len(s) < 1 + Len(IdBytes(f)) + f.dlc
    BY <1>6, <2>1, <2>4, RecordRead, Zenon
  <2> DEFINE L == Len(IdBytes(f))
             dlc == f.dlc
  <2>6. ASSUME FrameAhead(s)
        PROVE  /\ FirstFrame(s) = Expected(f)
               /\ p.at[n + 2] <= size
               /\ Behind(s) = After(p, n + 1)
    <3>1. s # <<>>
      BY <2>6 DEF FrameAhead
    <3>2. /\ l <= Len(s)
          /\ FirstFrame(s) = Expected(f)
          /\ Behind(s) = SubSeq(s, l + 1, Len(s))
      BY <2>5, <2>6, <3>1
    <3> HIDE DEF l
    <3>3. a + l <= size
      BY <1>1, <1>4, <1>6, <2>1, <3>2
    <3>4. SubSeq(s, l + 1, size - a) = SubSeq(c, (a + l) + 1, size)
      BY <1>1, <2>1, <3>3, RestOfRest, Zenon DEF s, size, c
    <3>5. After(p, n + 1) = SubSeq(c, (a + l) + 1, size)
      <4>1. (n + 1) + 1 = n + 2
        OBVIOUS
      <4> QED BY <2>1, <4>1, Zenon DEF After, c, size
    <3> QED BY <1>6, <2>1, <3>2, <3>3, <3>4, <3>5, Zenon
  <2>7. ASSUME ~FrameAhead(s) PROVE EndsIn(p, n + 1)
    <3>1. CASE s # <<>>
      <4>1. Len(s) < l \/ (f.rtr /\ Len(s) < 1 + L + dlc)
        BY <2>5, <2>7, <3>1
      <4>2. /\ L \in Nat /\ dlc \in Nat /\ l \in Nat
            /\ Len(s) = size - a /\ size \in Nat /\ a \in Nat
            /\ p.at[n + 2] = a + l
        BY <1>1, <1>6, <2>1, <2>3, Zenon
      <4> HIDE DEF l, L, dlc
      <4>3. Len(s) < l => size < p.at[n + 2]
        BY <4>2
      <4>4. Len(s) < 1 + L + dlc => size < a + 1 + L + dlc
        <5> DEFINE m == Len(s)
        <5>1. m = size - a
          BY <4>2
        <5> HIDE DEF m
        <5>2. m < 1 + L + dlc => size < a + 1 + L + dlc
          BY <4>2, <5>1
        <5> QED BY <5>2, Zenon DEF m
      <4> QED BY <2>2, <4>1, <4>3, <4>4, Zenon DEF L, dlc
    <3>2. CASE s = <<>>
      <4>1. size = a
        BY <1>1, <1>4, <1>6, <3>2
      <4>2. size < p.at[n + 2]
        BY <1>1, <2>1, <4>1
      <4> QED BY <2>2, <4>2
    <3> QED BY <3>1, <3>2
  <2> QED BY <1>2, <1>8, <2>6, <2>7, Zenon DEF N, size
<1>9. CASE n = N
  <2>1. ~FrameAhead(s)
    <3> SUFFICES ASSUME s # <<>> PROVE Internal(Head(s))
      BY DEF FrameAhead
    <3>1. size > a
      <4>1. Len(s) \in Nat /\ Len(s) # 0
        BY <1>6
      <4> QED BY <1>1, <1>6, <4>1
    <3>2. IsStatus(c[a + 1])
      <4>1. size > p.at[N + 1] /\ p.bytes[2] > N /\ size >= 2
        BY <1>9, <3>1 DEF a, N, size
      <4> QED BY <1>9, <4>1, PacketTypes, Zenon DEF a, c, N, size
    <3>3. Head(s) = c[a + 1]
      <4>1. 1 \in 1 .. size - a
        BY <1>1, <3>1
      <4>2. Head(s) = s[1]
        BY <1>6
      <4> QED BY <1>7, <4>1, <4>2
    <3> QED BY <3>2, <3>3 DEF IsStatus, Internal, Bit
  <2>2. ~(n < N)
    BY <1>1, <1>9
  <2> QED BY <1>2, <2>1, <2>2, Zenon DEF N
<1> QED
  BY <1>1, <1>8, <1>9 DEF N


\* Between two rounds of the loop, what remains of the packet is what lies
\* behind the frames that were read, and as many records are still to be
\* looked at as the packet counts but these.
ReadInv ==
    left > 0 =>
        /\ bus_active = 0 => packet = <<>>
        /\ bus_active # 0 =>
             /\ packet \in Packets
             /\ Len(packet.bytes) >= 2
             /\ Len(read) <= Len(packet.frames)
             /\ left + Len(read) = packet.bytes[2]
             /\ packet.at[Len(read) + 1] <= Len(packet.bytes)
             /\ rest = After(packet, Len(read))

\* What a packet's first bytes say of it.
LEMMA PacketBegins ==
    ASSUME NEW p, IsPacket(p)
    PROVE  /\ Len(p.bytes) < 2 /\ Len(p.frames) > 0 => EndsIn(p, 1)
           /\ After(p, 0) = SubSeq(p.bytes, 3, Len(p.bytes))
<1>1. /\ Len(p.frames) \in Nat /\ Len(p.bytes) \in Nat /\ p.at[1] = 2
  BY PacketTypes, Zenon
<1>2. After(p, 0) = SubSeq(p.bytes, 3, Len(p.bytes))
  <2>1. 0 + 1 = 1 /\ 2 + 1 = 3
    OBVIOUS
  <2> QED BY <1>1, <2>1, Zenon DEF After
<1>3. ASSUME Len(p.bytes) < 2, Len(p.frames) > 0 PROVE EndsIn(p, 1)
  <2> DEFINE l == Len(RecordOf(p.frames[1]))
             size == Len(p.bytes)
  <2>1. PICK i \in Nat : i < Len(p.frames) /\ i + 1 = 1 /\ i + 2 = 2
    BY <1>1, <1>3
  <2>2. l \in Nat /\ l >= 3 /\ p.at[2] = p.at[1] + l
    <3>1. /\ Len(RecordOf(p.frames[i + 1])) \in Nat
          /\ Len(RecordOf(p.frames[i + 1])) >= 3
          /\ p.at[i + 2] = p.at[i + 1] + Len(RecordOf(p.frames[i + 1]))
      <4>1. i < Len(p.frames)
        BY <2>1
      <4> QED BY <4>1, PacketPlaces, Zenon
    <3>2. i + 1 = 1 /\ i + 2 = 2
      BY <2>1
    <3> QED BY <3>1, <3>2
  <2> HIDE DEF l
  <2>3. size < p.at[2]
    BY <1>1, <1>3, <2>2
  <2>4. 1 + 1 = 2
    OBVIOUS
  <2> QED BY <2>3, <2>4, Zenon DEF EndsIn
<1> QED
  BY <1>2, <1>3

LEMMA PacketOutReads ==
    ASSUME TypeOK, NEW p \in Packets, PacketOut(p)
    PROVE  ReadInv' /\ PacketRead'
<1>1. IsPacket(p)
  BY PacketAssumption
<1>2. /\ Len(p.frames) \in Nat /\ Len(p.bytes) \in Nat /\ p.at[1] = 2
      /\ Len(p.bytes) >= 2 => p.bytes[2] \in Nat /\ p.bytes[2] >= Len(p.frames)
  BY <1>1, PacketTypes, Zenon
<1>3. /\ read' = <<>> /\ Len(read') = 0
      /\ bus_active' = bus_active
      /\ packet' = IF bus_active # 0 THEN p ELSE <<>>
      /\ left' = IF Len(p.bytes) < 2 THEN 0 ELSE p.bytes[2]
      /\ rest' = After(p, 0)
  <2>1. After(p, 0) = SubSeq(p.bytes, 3, Len(p.bytes))
    BY <1>1, PacketBegins
  <2> QED BY <2>1 DEF PacketOut
<1>4. ReadInv'
  <2>1. ASSUME left' > 0, bus_active' # 0
        PROVE  /\ packet' = p
               /\ Len(p.bytes) >= 2
               /\ Len(read') <= Len(p.frames)
               /\ left' + Len(read') = p.bytes[2]
               /\ p.at[Len(read') + 1] <= Len(p.bytes)
               /\ rest' = After(p, Len(read'))
    <3>1. packet' = p /\ Len(p.bytes) >= 2 /\ left' = p.bytes[2]
      BY <1>2, <1>3, <2>1
    <3>2. Len(read') + 1 = 1
      BY <1>3
    <3>3. rest' = After(p, Len(read'))
      BY <1>3, Zenon
    <3> QED BY <1>2, <1>3, <3>1, <3>2, <3>3
  <2>2. bus_active' = 0 => packet' = <<>>
    BY <1>3
  <2> QED BY <2>1, <2>2, Zenon DEF ReadInv
<1>5. PacketRead'
  <2>1. ASSUME packet' # <<>> PROVE packet' = p
    BY <1>3, <2>1
  <2>2. Len(read') <= Len(p.frames)
    BY <1>2, <1>3
  <2>3. \A i \in 1..Len(read') : read'[i] = Expected(p.frames[i])
    BY <1>3
  <2>4. ASSUME left' = 0, Len(read') < Len(p.frames)
        PROVE  EndsIn(p, Len(read') + 1)
    <3>1. Len(p.bytes) < 2 /\ Len(p.frames) > 0
      BY <1>2, <1>3, <2>4
    <3>2. Len(read') + 1 = 1
      BY <1>3
    <3> QED BY <1>1, <3>1, <3>2, PacketBegins, Zenon
  <2> QED BY <2>1, <2>2, <2>3, <2>4, Zenon DEF PacketRead
<1> QED
  BY <1>4, <1>5

\* The loop is in front of a frame, or of a record that is none.
LEMMA InFront ==
    ASSUME TypeOK, ReadInv, left > 0, bus_active # 0
    PROVE  LET n == Len(read)
           IN  /\ IsPacket(packet) /\ packet \in Packets
               /\ n \in Nat /\ n <= Len(packet.frames)
               /\ Len(packet.frames) \in Nat /\ Len(packet.bytes) \in Nat
               /\ Len(packet.bytes) >= 2
               /\ left + n = packet.bytes[2]
               /\ rest = After(packet, n)
               /\ FrameAhead(rest) =>
                    /\ n < Len(packet.frames)
                    /\ FirstFrame(rest) = Expected(packet.frames[n + 1])
                    /\ packet.at[n + 2] <= Len(packet.bytes)
                    /\ Behind(rest) = After(packet, n + 1)
               /\ ~FrameAhead(rest) /\ n < Len(packet.frames) =>
                    EndsIn(packet, n + 1)
<1> DEFINE n == Len(read)
<1>1. /\ packet \in Packets
      /\ Len(packet.bytes) >= 2
      /\ n <= Len(packet.frames)
      /\ left + n = packet.bytes[2]
      /\ packet.at[n + 1] <= Len(packet.bytes)
      /\ rest = After(packet, n)
  BY Zenon DEF ReadInv
<1>2. IsPacket(packet)
  BY <1>1, PacketAssumption, Zenon
<1>3. n \in Nat
  BY DEF TypeOK
<1>4. Len(packet.frames) \in Nat /\ Len(packet.bytes) \in Nat
  BY <1>2, PacketTypes, Zenon
<1>5. n = Len(packet.frames) => packet.bytes[2] > n
  <2>1. left \in Nat
    BY DEF TypeOK, Byte
  <2> HIDE DEF n
  <2> QED BY <1>1, <1>3, <2>1
<1> HIDE DEF n
<1>6. /\ FrameAhead(rest) =>
           /\ n < Len(packet.frames)
           /\ FirstFrame(rest) = Expected(packet.frames[n + 1])
           /\ packet.at[n + 2] <= Len(packet.bytes)
           /\ Behind(rest) = After(packet, n + 1)
      /\ ~FrameAhead(rest) /\ n < Len(packet.frames) => EndsIn(packet, n + 1)
  BY <1>1, <1>2, <1>3, <1>5, NextFrame, Zenon
<1> QED
  BY <1>1, <1>2, <1>3, <1>4, <1>6, Zenon DEF n

LEMMA ReadRecordReads ==
    ASSUME TypeOK, ReadInv, PacketRead, NEW d \in 0..WAIT, ReadRecord(d)
    PROVE  ReadInv' /\ PacketRead'
<1> DEFINE n == Len(read)
           N == Len(packet.frames)
           F == CanFrames
<1>1. /\ left > 0 /\ bus_active # 0 /\ FrameAhead(rest)
      /\ read' = Append(read, FirstFrame(rest))
      /\ rest' = Behind(rest)
      /\ left' = IF rest' = <<>> THEN 0 ELSE left - 1
      /\ packet' = packet /\ bus_active' = bus_active
  BY DEF ReadRecord, busVars
<1>2. /\ IsPacket(packet) /\ packet \in Packets
      /\ n \in Nat /\ N \in Nat /\ Len(packet.bytes) \in Nat
      /\ Len(packet.bytes) >= 2
      /\ left + n = packet.bytes[2]
      /\ n < N
      /\ FirstFrame(rest) = Expected(packet.frames[n + 1])
      /\ packet.at[n + 2] <= Len(packet.bytes)
      /\ Behind(rest) = After(packet, n + 1)
  BY <1>1, InFront, Zenon
<1>3. left \in Nat
  BY DEF TypeOK, Byte
<1>4. /\ Len(read') = n + 1
      /\ \A i \in 1..n : read'[i] = read[i]
      /\ read'[n + 1] = FirstFrame(rest)
  <2>1. read \in Seq(F)
    BY DEF TypeOK
  <2>2. FirstFrame(rest) \in F
    <3>1. rest \in Seq(Byte)
      BY DEF TypeOK
    <3> QED BY <1>1, <3>1, FirstFrameType, Zenon
  <2> HIDE DEF F
  <2> QED BY <1>1, <2>1, <2>2
<1>5. packet.bytes[2] >= N
  BY <1>2, PacketTypes, Zenon
<1>6. rest' = After(packet, n + 1)
  BY <1>1, <1>2, Zenon
<1>7. (n + 1) + 1 = n + 2 /\ n + 1 \in Nat /\ n + 1 <= N
  BY <1>2
<1> HIDE DEF n, N
<1>8. ReadInv'
  <2>1. ASSUME left' > 0 PROVE left' + Len(read') = packet.bytes[2]
    <3>1. left' = left - 1
      BY <1>1, <2>1
    <3>2. Len(read') = n + 1 /\ left + n = packet.bytes[2]
      BY <1>2, <1>4
    <3> QED BY <1>2, <1>3, <3>1, <3>2
  <2>2. Len(read') <= N
    BY <1>4, <1>7
  <2> QED BY <1>1, <1>2, <1>4, <1>6, <1>7, <2>1, <2>2, Zenon DEF ReadInv, N
<1>9. ASSUME packet' # <<>>
      PROVE  /\ \A i \in 1..Len(read') :
                  read'[i] = Expected(packet.frames[i])
             /\ Len(read') <= N
             /\ left' = 0 /\ Len(read') < N =>
                  EndsIn(packet, Len(read') + 1)
  <2>1. ASSUME NEW i \in 1..Len(read')
        PROVE  read'[i] = Expected(packet.frames[i])
    <3>1. i \in 1..n \/ i = n + 1
      BY <1>2, <1>4, <2>1
    <3>2. CASE i \in 1..n
      <4>1. read[i] = Expected(packet.frames[i])
        BY <1>1, <1>9, <3>2, Zenon DEF PacketRead, n
      <4> QED BY <1>4, <3>2, <4>1, Zenon
    <3>3. CASE i = n + 1
      BY <1>2, <1>4, <3>3, Zenon
    <3> QED BY <3>1, <3>2, <3>3, Zenon
  <2>2. ASSUME left' = 0, Len(read') < N
        PROVE  EndsIn(packet, Len(read') + 1)
    <3>1. rest' = <<>>
      BY <1>1, <1>2, <1>3, <1>4, <1>5, <2>2
    <3>2. n + 1 < N
      BY <1>4, <2>2
    <3>3. ~FrameAhead(After(packet, n + 1))
      BY <1>6, <3>1, Zenon DEF FrameAhead
    <3>4. n + 1 # N
      BY <1>2, <3>2
    <3>5. EndsIn(packet, (n + 1) + 1)
      BY <1>2, <1>7, <3>2, <3>3, <3>4, NextFrame, Zenon DEF N
    <3> QED BY <1>4, <3>5, Zenon
  <2>3. Len(read') <= N
    BY <1>4, <1>7
  <2> QED BY <2>1, <2>2, <2>3, Zenon
<1>10. PacketRead'
  BY <1>1, <1>9, Zenon DEF PacketRead, N
<1> QED
  BY <1>8, <1>10

LEMMA StopReads ==
    ASSUME TypeOK, ReadInv, PacketRead, StopReading
    PROVE  ReadInv' /\ PacketRead'
<1>1. /\ left > 0 /\ (bus_active = 0 \/ ~FrameAhead(rest))
      /\ left' = 0 /\ packet' = packet /\ read' = read
  BY DEF StopReading
<1>2. ReadInv'
  BY <1>1 DEF ReadInv
<1>3. CASE bus_active = 0
  <2>1. packet' = <<>>
    BY <1>1, <1>3, Zenon DEF ReadInv
  <2> QED BY <1>2, <2>1, Zenon DEF PacketRead
<1>4. CASE bus_active # 0
  <2>1. Len(read) < Len(packet.frames) => EndsIn(packet, Len(read) + 1)
    BY <1>1, <1>4, InFront, Zenon
  <2> QED BY <1>1, <1>2, <2>1, Zenon DEF PacketRead
<1> QED
  BY <1>3, <1>4

\* What changes neither the packet nor what was read of it, and the bus only
\* between two packets.
LEMMA OtherReads ==
    ASSUME ReadInv, PacketRead, UNCHANGED msgVars,
           left = 0 \/ UNCHANGED bus_active
    PROVE  ReadInv' /\ PacketRead'
<1>1. /\ packet' = packet /\ rest' = rest /\ left' = left /\ read' = read
  BY DEF msgVars
<1>2. PacketRead'
  BY <1>1, Zenon DEF PacketRead
<1>3. CASE left = 0
  BY <1>1, <1>2, <1>3 DEF ReadInv
<1>4. CASE UNCHANGED bus_active
  BY <1>1, <1>2, <1>4, Zenon DEF ReadInv
<1> QED
  BY <1>3, <1>4

LEMMA ReadInvStep ==
    TypeOK /\ ReadInv /\ PacketRead /\ [Next]_vars => ReadInv' /\ PacketRead'
<1> SUFFICES ASSUME TypeOK, ReadInv, PacketRead, [Next]_vars
             PROVE  ReadInv' /\ PacketRead'
  OBVIOUS
<1>1. CASE Set
  <2>1. UNCHANGED msgVars /\ left = 0
    BY <1>1 DEF Set, SetBitrate, SetBus, Keep, SetRegister, NotReading
  <2> QED BY <2>1, OtherReads
<1>2. CASE \E p \in Packets : PacketOut(p)
  BY <1>2, PacketOutReads
<1>3. CASE Reading
  <2>1. CASE StopReading
    BY <2>1, StopReads
  <2>2. ASSUME NEW d \in 0..WAIT, ReadRecord(d) PROVE ReadInv' /\ PacketRead'
    BY <2>2, ReadRecordReads
  <2> QED BY <1>3, <2>1, <2>2 DEF Reading
<1>4. CASE RxMessage
  BY <1>4, OtherReads DEF RxMessage
<1>5. CASE VendorInfo
  BY <1>5, OtherReads DEF VendorInfo
<1>6. CASE Poll
  BY <1>6, OtherReads DEF Poll, busVars
<1>7. CASE Pass
  BY <1>7, OtherReads DEF Pass, busVars
<1>8. CASE UNCHANGED vars
  BY <1>8, OtherReads DEF vars, busVars
<1> QED
  BY <1>1, <1>2, <1>3, <1>4, <1>5, <1>6, <1>7, <1>8, Zenon DEF Next

\* The adapter reads from every packet the frames the host put into it, in the
\* host's order and unchanged, and stops only at their end or where the packet
\* ends in a record, for every packet the documented format allows, cut
\* anywhere and with anything behind its frames, and whatever comes between two
\* records of it (pcan_protocol_process_data and pcan_decode_data_frame,
\* pcan_protocol.c:386-460 and 698-743).
THEOREM PacketsReadAsSent == Spec => []PacketRead
<1>1. Init => ReadInv /\ PacketRead
  <2> SUFFICES ASSUME Init PROVE ReadInv /\ PacketRead
    OBVIOUS
  <2>1. left = 0 /\ packet = <<>>
    BY DEF Init
  <2> QED BY <2>1 DEF ReadInv, PacketRead
<1> QED
  BY <1>1, TypeOKInit, TypeOKStep, ReadInvStep, PTL DEF Spec

------------------------------------------------------------------------------
(* LEDs at rest *)

\* An LED that is not scheduled any more shows what it was last told to come
\* to, lit or dark.
RestsAsTold ==
    \A l \in Leds :
        led[l].timestamp = 0 => led[l].state = IF want[l] = "ON" THEN 1 ELSE 0

\* The mode of record r leads to w, also when a blinking ends by itself; and a
\* blinking LED stays scheduled.
Told(r, w) ==
    /\ r.mode = "ON" => w = "ON"
    /\ r.mode = "OFF" => w = "OFF"
    /\ Blinks(r.mode) =>
         r.timestamp # 0 /\ w = IF r.arg = 0 THEN "BLINK" ELSE "OFF"
    /\ r.mode = "NONE" => r.state = 0 /\ w = "OFF"
    /\ r.timestamp = 0 => r.state = IF w = "ON" THEN 1 ELSE 0

\* What the mode of an LED should lead to.
Aim(mode, arg) ==
    IF Blinks(mode) THEN IF arg = 0 THEN "BLINK" ELSE "OFF" ELSE mode

AllTold == \A l \in Leds : Told(led[l], want[l])

\* 0 is no time: "t | 1" is never 0.
LEMMA OddNotZero == ASSUME NEW t \in Nat PROVE Odd(t) # 0
  BY DEF Odd

LEMMA SetModeTold ==
    ASSUME ts_ms \in Millis, NEW r \in LedRecords,
           NEW mode \in LedModes \ {"NONE"}, NEW arg \in Millis
    PROVE  Told(SetMode(r, mode, arg), Aim(mode, arg))
<1> DEFINE x == SetMode(r, mode, arg)
           t == (ts_ms + arg) % WRAP
           last == IF Blinks(mode) /\ arg # 0 THEN Odd(t) ELSE arg
<1>1. /\ x.mode = mode /\ x.arg = last
      /\ x.timestamp = IF r.timestamp = 0 THEN Odd(ts_ms) ELSE r.timestamp
  BY DEF SetMode, LedRecords
<1>2. ts_ms \in Nat /\ t \in Nat
  BY LedAssumption DEF Millis
<1>3. x.timestamp # 0
  BY <1>1, <1>2, OddNotZero
<1>4. Blinks(mode) => (last = 0 <=> arg = 0)
  BY <1>2, OddNotZero
<1> HIDE DEF x, last
<1> QED
  BY <1>1, <1>3, <1>4 DEF Told, Aim, Blinks, x

LEMMA PolledTold ==
    ASSUME ts_ms \in Millis, NEW r \in LedRecords, NEW w, Told(r, w)
    PROVE  Told(Polled(r), w)
<1>1. CASE ~Due(r)
  BY <1>1 DEF Polled
<1>2. CASE Due(r) /\ r.mode = "NONE"
  BY <1>2 DEF Polled, Told, Blinks, LedRecords
<1>3. CASE Due(r) /\ r.mode \in {"ON", "OFF"}
  BY <1>3 DEF Polled, Told, Blinks, LedRecords
<1>4. CASE Due(r) /\ Blinks(r.mode)
  <2> DEFINE x == Toggled(r)
             t == (r.timestamp + r.delay) % WRAP
  <2>1. x.mode = r.mode /\ x.arg = r.arg /\ x.timestamp = Odd(t)
    BY DEF Toggled, LedRecords
  <2>2. t \in Nat
    BY LedAssumption DEF LedRecords, Millis
  <2>3. x.timestamp # 0
    BY <2>1, <2>2, OddNotZero
  <2>4. Told(x, w)
    BY <1>4, <2>1, <2>3 DEF Told, Blinks
  <2>5. CASE Over(r)
    <3>1. w = "OFF"
      BY <1>4, <2>5 DEF Told, Over
    <3>2. SetMode(x, "OFF", 0).mode = "OFF"
          /\ SetMode(x, "OFF", 0).timestamp = x.timestamp
      BY <2>3 DEF SetMode, Toggled, LedRecords
    <3>3. Polled(r) = SetMode(x, "OFF", 0)
      BY <1>4, <2>5 DEF Polled, Blinks
    <3> QED BY <2>3, <3>1, <3>2, <3>3 DEF Told, Blinks
  <2>6. CASE ~Over(r)
    BY <1>4, <2>4, <2>6 DEF Polled, Blinks
  <2> QED BY <2>5, <2>6
<1>5. r.mode \in LedModes
  BY DEF LedRecords
<1> QED
  BY <1>1, <1>2, <1>3, <1>4, <1>5 DEF LedModes, Blinks

\* A step that tells LEDs something, and notes what.
LEMMA ToldStep ==
    ASSUME TypeOK, AllTold,
           NEW M \in [Leds -> LedModes \ {"NONE"}], NEW A \in [Leds -> Millis],
           NEW S \in SUBSET Leds,
           led' = [l \in Leds |-> IF l \in S
                                  THEN SetMode(led[l], M[l], A[l])
                                  ELSE led[l]],
           want' = [l \in Leds |-> IF l \in S THEN Aim(M[l], A[l])
                                   ELSE want[l]]
    PROVE  AllTold'
<1> SUFFICES ASSUME NEW l \in Leds PROVE Told(led'[l], want'[l])
  BY DEF AllTold
<1>1. led[l] \in LedRecords /\ ts_ms \in Millis
  BY DEF TypeOK
<1>2. CASE l \in S
  BY <1>1, <1>2, SetModeTold
<1>3. CASE l \notin S
  BY <1>3 DEF AllTold
<1> QED
  BY <1>2, <1>3

LEMMA SetBusTold ==
    ASSUME TypeOK, AllTold, NEW p0 \in Byte, SetBus(p0) PROVE AllTold'
<1> DEFINE M == [l \in Leds |->
                   IF l = "STAT" THEN IF p0 # 0 THEN "BLINK_SLOW" ELSE "OFF"
                   ELSE BusLed(p0)]
           A == [l \in Leds |-> 0]
<1>1. /\ M \in [Leds -> LedModes \ {"NONE"}] /\ A \in [Leds -> Millis]
  BY LedAssumption DEF LedModes, BusLed, Millis
<1>2. led' = [l \in Leds |-> IF l \in Leds
                             THEN SetMode(led[l], M[l], A[l]) ELSE led[l]]
  BY DEF SetBus
<1>3. want' = [l \in Leds |-> IF l \in Leds THEN Aim(M[l], A[l])
                              ELSE want[l]]
  BY DEF SetBus, Aim, Blinks, BusLed
<1> HIDE DEF M, A
<1> QED
  BY <1>1, <1>2, <1>3, ToldStep

LEMMA BlinkTold ==
    ASSUME TypeOK, AllTold, NEW x, NEW d \in Nat, Blink(x, d) PROVE AllTold'
<1> DEFINE M == [l \in Leds |-> "BLINK_FAST"]
           A == [l \in Leds |-> BLINK]
<1>1. /\ M \in [Leds -> LedModes \ {"NONE"}] /\ A \in [Leds -> Millis]
  BY CommandAssumption DEF LedModes
<1>2. led' = [l \in Leds |-> IF l \in Leds \cap {x}
                             THEN SetMode(led[l], M[l], A[l]) ELSE led[l]]
  BY DEF Blink
<1>3. want' = [l \in Leds |-> IF l \in Leds \cap {x} THEN Aim(M[l], A[l])
                              ELSE want[l]]
  BY CommandAssumption DEF Blink, Aim, Blinks
<1> HIDE DEF M, A
<1> QED
  BY <1>1, <1>2, <1>3, ToldStep

LEMMA VendorTold == TypeOK /\ AllTold /\ VendorInfo => AllTold'
<1> SUFFICES ASSUME TypeOK, AllTold, VendorInfo PROVE AllTold'
  OBVIOUS
<1> DEFINE M == [l \in Leds |-> "ON"]
           A == [l \in Leds |-> 0]
           S == Leds \ {"STAT"}
<1>1. /\ M \in [Leds -> LedModes \ {"NONE"}] /\ A \in [Leds -> Millis]
      /\ S \in SUBSET Leds
  BY LedAssumption DEF LedModes, Millis
<1>2. led' = [l \in Leds |-> IF l \in S
                             THEN SetMode(led[l], M[l], A[l]) ELSE led[l]]
  BY DEF VendorInfo
<1>3. want' = [l \in Leds |-> IF l \in S THEN Aim(M[l], A[l]) ELSE want[l]]
  BY DEF VendorInfo, Aim, Blinks
<1> HIDE DEF M, A, S
<1> QED
  BY <1>1, <1>2, <1>3, ToldStep

LEMMA AllToldInit == Init => AllTold
<1> SUFFICES ASSUME Init, NEW l \in Leds PROVE Told(led[l], want[l])
  BY DEF AllTold
<1> DEFINE zero == [mode |-> "NONE", arg |-> 0, delay |-> 0,
                    timestamp |-> 0, state |-> 0]
<1>1. 0 \in Millis /\ ts_ms \in Millis
  BY LedAssumption DEF Init, LedInit, Millis
<1>2. /\ led[l] = IF l = "STAT" THEN zero ELSE SetMode(zero, "BLINK_SLOW", 0)
      /\ want[l] = IF l = "STAT" THEN "OFF" ELSE "BLINK"
  BY DEF Init, LedInit
<1>3. zero \in LedRecords
  BY <1>1 DEF LedRecords, LedModes
<1>4. Told(zero, "OFF")
  BY DEF Told, Blinks
<1> HIDE DEF zero
<1>5. Told(SetMode(zero, "BLINK_SLOW", 0), Aim("BLINK_SLOW", 0))
  BY <1>1, <1>3, SetModeTold DEF LedModes
<1>6. Aim("BLINK_SLOW", 0) = "BLINK"
  BY DEF Aim, Blinks
<1> QED
  BY <1>2, <1>4, <1>5, <1>6

LEMMA AllToldStep == TypeOK /\ AllTold /\ [Next]_vars => AllTold'
<1> SUFFICES ASSUME TypeOK, AllTold, [Next]_vars PROVE AllTold'
  OBVIOUS
<1>1. ASSUME NEW p0 \in Byte, SetBus(p0) PROVE AllTold'
  BY <1>1, SetBusTold
<1>2. CASE RxMessage
  BY <1>2, BlinkTold DEF RxMessage
<1>3. ASSUME NEW d \in 0..WAIT, ReadRecord(d) PROVE AllTold'
  <2>1. d \in Nat /\ Blink("TX", d)
    BY <1>3, CommandAssumption DEF ReadRecord
  <2> QED BY <2>1, BlinkTold
<1>4. CASE VendorInfo
  BY <1>4, VendorTold
<1>5. CASE Poll
  <2> SUFFICES ASSUME NEW l \in Leds PROVE Told(led'[l], want'[l])
    BY DEF AllTold
  <2>1. led'[l] = Polled(led[l]) /\ want' = want
    BY <1>5 DEF Poll, LedPoll
  <2>2. led[l] \in LedRecords /\ ts_ms \in Millis /\ Told(led[l], want[l])
    BY DEF TypeOK, AllTold
  <2> QED BY <2>1, <2>2, PolledTold
<1>6. ASSUME UNCHANGED <<led, want>> PROVE AllTold'
  BY <1>6 DEF AllTold
<1>7. ASSUME NEW p0 \in Byte, NEW p1 \in Byte,
             \/ SetBitrate(p0, p1) \/ SetRegister(p0, p1)
             \/ \E field \in Fields : Keep(field, p0)
      PROVE  AllTold'
  BY <1>6, <1>7 DEF SetBitrate, SetRegister, Keep, ledVars
<1>8. CASE (\E p \in Packets : PacketOut(p)) \/ StopReading
  BY <1>6, <1>8 DEF PacketOut, StopReading, ledVars
<1>9. CASE Pass \/ UNCHANGED vars
  BY <1>6, <1>9 DEF Pass, vars, ledVars
<1> QED
  BY <1>1, <1>2, <1>3, <1>4, <1>5, <1>7, <1>8, <1>9 DEF Next, Set, Reading

\* An LED at rest is lit if it was last told to come to "on" and dark
\* otherwise, wherever the 16-bit time wrapped, and whether a mode was set at
\* rest, while the LED was scheduled, or between the rounds of a wait
\* (pcan_led_set_mode and pcan_led_poll, pcan_led.c:28-106).
THEOREM LedsRestAsTold == Spec => []RestsAsTold
<1>1. AllTold => RestsAsTold
  BY DEF AllTold, Told, RestsAsTold
<1> QED
  BY <1>1, TypeOKInit, TypeOKStep, AllToldInit, AllToldStep, PTL DEF Spec
==============================================================================
