----------------------------- MODULE PcanCommand -----------------------------
(***************************************************************************)
(* What the host sets and reads back through CMD OUT and CMD IN, what it   *)
(* says in MSG OUT packets, and the LEDs that show both:                   *)
(* pcan_protocol_process_command and pcan_protocol_process_data in         *)
(* src/src/c/pcan_protocol.c, the bit timing of pcan_can.c, the calls of   *)
(* pcan_led_set_mode.  The registers are those of Sja1000, the LEDs those  *)
(* of PcanLed; packets are made by HostPacket, their records read by       *)
(* MsgOut.                                                                 *)
(*                                                                         *)
(* The effects of the same commands on the bus, the record buffer and the  *)
(* endpoints are in PcanCan, PcanRecords, PcanDevice and PcanUsb.          *)
(***************************************************************************)
EXTENDS Naturals, Sequences, HostPacket, MsgOut, Sja1000, PcanLed

CONSTANTS
    BLINK,       \* how long an LED blinks for a frame, 237
    WAIT,        \* bound: milliseconds a record may wait for a slot
    Packets,     \* MSG OUT packets of the host
    MaxEvents    \* bound: commands, packets and frames that concern LEDs

ASSUME CommandAssumption ==
    /\ BLINK \in Millis \ {0}
    /\ {WAIT, MaxEvents} \subseteq Nat
    /\ \A p \in Packets : p.bytes \in Seq(Byte)

\* Packets of a host that keeps to the format.
ASSUME PacketAssumption == \A p \in Packets : IsPacket(p)

VARIABLES
    bus_active,     \* as the host gave it: active unless it is 0
    device,         \* values that are only kept: btr0, btr1, device_id, ...
    timing,         \* g_hcan.Init: prescaler and segments of the controller
    polled,         \* the loop has been round in this millisecond
    packet,         \* history: the last packet, <<>> if the bus was not active
    rest,           \* the bytes of it that were not read yet, at ptr
    left,           \* how many records the loop has still to look at
    read,           \* the frames read in it
    given,          \* history: what each SET command gave last; before the
                    \* first, what the program starts with
    want,           \* history: what each LED was last told to come to
    events          \* history: commands, packets and frames so far

sjaVars == <<sja1000_shadow, sja1000_ic_mode>>
ledVars == <<ts_ms, led, polled, want>>
busVars == <<bus_active, events>>
setVars == <<device, timing, given>>
msgVars == <<packet, rest, left, read>>
vars == <<sjaVars, ledVars, busVars, setVars, msgVars>>

------------------------------------------------------------------------------
AtMost(n, m) == IF n < m THEN n ELSE m

\* Fault: BTR0 and BTR1 are taken in the order of their names.
TimingSwapped(p0, p1) ==
    [Prescaler |-> 6 * ((p0 % 64) + 1),
     SyncJumpWidth |-> AtMost(p0 \div 64 + 1, 4),
     TimeSeg1 |-> AtMost((p1 % 16) + 1, 16),
     TimeSeg2 |-> AtMost(((p1 \div 16) % 8) + 1, 8)]

\* pcan_set_bitrate and pcan_can_set_bitrate; p0 is BTR1, and p1 is BTR0.
Timing(p0, p1) ==
    [Prescaler |-> 6 * ((p1 % 64) + 1),
     SyncJumpWidth |-> AtMost(p1 \div 64 + 1, 4),
     TimeSeg1 |-> AtMost((p0 % 16) + 1, 16),
     TimeSeg2 |-> AtMost(((p0 \div 16) % 8) + 1, 8)]

Init ==
    /\ SjaInit
    /\ LedInit
    /\ bus_active = 0
    /\ device = [btr0 |-> 0, btr1 |-> 0, device_id |-> 255, led_mode |-> 0,
                 ext_vcc_state |-> 0, err_mask |-> 0, silent |-> 0]
    /\ timing = [Prescaler |-> 16, SyncJumpWidth |-> 1,
                 TimeSeg1 |-> 1, TimeSeg2 |-> 1]
    /\ polled = TRUE
    /\ packet = <<>> /\ rest = <<>> /\ left = 0 /\ read = <<>>
    /\ given = [bitrate |-> <<>>, device_id |-> 255, led_mode |-> 0,
                ACR |-> 0, AMR |-> 0, BTR0 |-> 0, BTR1 |-> 0,
                RXERR |-> 0, TXERR |-> 0, CDR |-> 128]
    /\ want = [l \in Leds |-> IF l = "STAT" THEN "OFF" ELSE "BLINK"]
    /\ events = 0

\* The loop over the records of a packet runs inside the USB handler: only
\* the CAN driver's callbacks come between two records.
NotReading == left = 0

------------------------------------------------------------------------------
(* SET commands *)

SetBitrate(p0, p1) ==
    /\ NotReading
    /\ device' = [device EXCEPT !.btr0 = p1, !.btr1 = p0]
    /\ timing' = Timing(p0, p1)
    /\ given' = [given EXCEPT !.bitrate = <<p0, p1>>]
    /\ UNCHANGED <<sjaVars, ledVars, busVars, msgVars>>

\* The LEDs of the channel after BUS on or off.
BusLed(p0) == IF p0 # 0 THEN "OFF" ELSE "ON"

\* BUS: what it does to the controller and to the records is in PcanCan and
\* PcanRecords.
SetBus(p0) ==
    /\ NotReading
    /\ events < MaxEvents
    /\ events' = events + 1
    /\ bus_active' = p0
    /\ led' = [l \in Leds |->
                 IF l = "STAT"
                 THEN SetMode(led[l], IF p0 # 0 THEN "BLINK_SLOW" ELSE "OFF", 0)
                 ELSE SetMode(led[l], BusLed(p0), 0)]
    /\ want' = [l \in Leds |->
                  IF l = "STAT" THEN (IF p0 # 0 THEN "BLINK" ELSE "OFF")
                  ELSE BusLed(p0)]
    /\ UNCHANGED <<sjaVars, ts_ms, polled, setVars, msgVars>>

\* DEVID, LED, EXT_VCC, ERR_FR and silent mode: the value is kept.
Keep(field, p0) ==
    /\ NotReading
    /\ device' = [device EXCEPT ![field] = p0]
    /\ given' = IF field \in DOMAIN given
                THEN [given EXCEPT ![field] = p0] ELSE given
    /\ UNCHANGED <<timing, sjaVars, ledVars, busVars, msgVars>>

\* Where an SJA1000 has these registers in its two modes; BasicCAN has no
\* error counters.
Chip ==
    IF sja1000_ic_mode = "PELICAN"
    THEN [ACR |-> 16, AMR |-> 20, BTR0 |-> 6, BTR1 |-> 7,
          RXERR |-> 14, TXERR |-> 15, CDR |-> 31]
    ELSE [ACR |-> 4, AMR |-> 5, BTR0 |-> 6, BTR1 |-> 7, CDR |-> 31]

SetRegister(p0, p1) ==
    /\ NotReading
    /\ Write(p0, p1)
    /\ given' = [n \in DOMAIN given |->
                   IF n \in DOMAIN Chip /\ Chip[n] = Masked(p0)
                   THEN p1 ELSE given[n]]
    /\ UNCHANGED <<device, timing, ledVars, busVars, msgVars>>

------------------------------------------------------------------------------
(* GET commands *)

\* The parameters of the answer to each of them, p0 being the register asked
\* for; CLOCK and SN are constants.
Answer(p0) ==
    [BITRATE |-> <<device.btr1, device.btr0>>,
     CLOCK |-> <<16>>,
     DEVID |-> <<device.device_id>>,
     SN |-> <<255, 255, 255, 255>>,
     REGISTER |-> <<p0, Read(p0)>>,
     LED |-> <<device.led_mode>>]

------------------------------------------------------------------------------
(* Frames *)

\* A frame concerns an LED: it starts to blink, and the wait for a slot may
\* keep the loop for d milliseconds.
Blink(l, d) ==
    /\ led' = [x \in Leds |-> IF x = l
                              THEN SetMode(led[x], "BLINK_FAST", BLINK)
                              ELSE led[x]]
    /\ want' = [x \in Leds |-> IF x = l THEN "OFF" ELSE want[x]]
    /\ ts_ms' = (ts_ms + d) % WRAP
    /\ polled' = (polled /\ d = 0)

\* pcan_protocol_process_data, up to its loop.
PacketOut(p) ==
    LET Count == IF Len(p.bytes) < 2 THEN 0 ELSE p.bytes[2]
    IN  /\ NotReading
        /\ events < MaxEvents
        /\ events' = events + 1
        /\ packet' = IF bus_active # 0 THEN p ELSE <<>>
        /\ rest' = SubSeq(p.bytes, 3, Len(p.bytes))
        /\ left' = Count
        /\ read' = <<>>
        /\ UNCHANGED <<bus_active, ledVars, sjaVars, setVars>>

\* One round of the loop, for a frame: it may wait for a slot.  The loop ends
\* when no byte remains.
ReadRecord(d) ==
    /\ left > 0 /\ bus_active # 0
    /\ FrameAhead(rest)
    /\ read' = Append(read, FirstFrame(rest))
    /\ rest' = Behind(rest)
    /\ left' = IF rest' = <<>> THEN 0 ELSE left - 1
    /\ Blink("TX", d)
    /\ UNCHANGED <<packet, busVars, sjaVars, setVars>>

\* The rest of the packet is not looked at.
StopReading ==
    /\ left > 0
    /\ bus_active = 0 \/ ~FrameAhead(rest)
    /\ rest' = <<>>
    /\ left' = 0
    /\ UNCHANGED <<packet, read, busVars, ledVars, sjaVars, setVars>>

Reading == StopReading \/ \E d \in 0..WAIT : ReadRecord(d)

\* pcan_rx_message for a frame from the bus.
RxMessage ==
    /\ events < MaxEvents
    /\ bus_active # 0
    /\ events' = events + 1
    /\ Blink("RX", 0)
    /\ UNCHANGED <<bus_active, sjaVars, setVars, msgVars>>

\* device_setup, the vendor request.
VendorInfo ==
    /\ NotReading
    /\ events < MaxEvents
    /\ events' = events + 1
    /\ led' = [l \in Leds |-> IF l = "STAT" THEN led[l]
                              ELSE SetMode(led[l], "ON", 0)]
    /\ want' = [l \in Leds |-> IF l = "STAT" THEN want[l] ELSE "ON"]
    /\ UNCHANGED <<bus_active, ts_ms, polled, sjaVars, setVars, msgVars>>

------------------------------------------------------------------------------
(* Time *)

\* pcan_led_poll.
Poll ==
    /\ NotReading
    /\ LedPoll
    /\ polled' = TRUE
    /\ UNCHANGED <<want, sjaVars, busVars, setVars, msgVars>>

\* A millisecond passes; the loop takes less, but for the waits.
Pass ==
    /\ NotReading /\ polled
    /\ polled' = FALSE
    /\ ts_ms' = (ts_ms + 1) % WRAP
    /\ UNCHANGED <<led, want, sjaVars, busVars, setVars, msgVars>>

------------------------------------------------------------------------------
Fields == {"device_id", "led_mode", "ext_vcc_state", "err_mask", "silent"}

Set ==
    \E p0, p1 \in Byte :
        \/ SetBitrate(p0, p1)
        \/ SetBus(p0)
        \/ \E field \in Fields : Keep(field, p0)
        \/ SetRegister(p0, p1)

Next ==
    \/ Set
    \/ \E p \in Packets : PacketOut(p)
    \/ Reading
    \/ RxMessage
    \/ VendorInfo
    \/ Poll
    \/ Pass

Spec == Init /\ [][Next]_vars

------------------------------------------------------------------------------
(* Properties *)

Names == {"ACR", "AMR", "BTR0", "BTR1", "RXERR", "TXERR", "CDR"}

\* A frame that was read; the controller takes 8 bytes at most.
CanFrames == [ext : BOOLEAN, rtr : BOOLEAN, id : ExtIds, dlc : 0..8,
              data : Seq(Byte), echo : Seq(Byte)]

TypeOK ==
    /\ sja1000_shadow \in [1..6 -> Byte]
    /\ sja1000_ic_mode \in {"PELICAN", "BASICCAN"}
    /\ ts_ms \in Millis
    /\ led \in [Leds -> LedRecords]
    /\ bus_active \in Byte
    /\ device \in [Fields \cup {"btr0", "btr1"} -> Byte]
    /\ timing \in [Prescaler : 1..1024, SyncJumpWidth : 1..4,
                   TimeSeg1 : 1..16, TimeSeg2 : 1..8]
    /\ polled \in BOOLEAN
    /\ DOMAIN given = Names \cup {"bitrate", "device_id", "led_mode"}
    /\ want \in [Leds -> {"ON", "OFF", "BLINK"}]
    /\ events \in 0..MaxEvents
    /\ rest \in Seq(Byte)
    /\ left \in Byte
    /\ read \in Seq(CanFrames)

\* What a register shows of the value given to it: the clock divider shows
\* bit 7 alone, which selects the mode, and 0xFF in TXERR is kept as 0x7F.
Shown(n) ==
    CASE n = "CDR" -> 128 * (given[n] \div 128)
      [] n = "TXERR" /\ given[n] = 255 -> 127
      [] OTHER -> given[n]

\* What a GET answers is what was SET last, for the bit rate, the device id,
\* the LED value and the registers ACR, AMR, BTR0, BTR1, RXERR and TXERR, but
\* that 0xFF in TXERR reads 0x7F.  Each keeps its value when the chip's mode
\* is changed, and is then found at the address of that mode; no write
\* reaches a register that it does not name.  Of the clock divider, register
\* 31, bit 7 reads back, and nothing else; the mode register, 0, reads 1
\* whatever is written to it (pcan_protocol.c:74-184).
AnswersAsSet ==
    /\ given.bitrate # <<>> => Answer(0).BITRATE = given.bitrate
    /\ Answer(0).DEVID = <<given.device_id>>
    /\ Answer(0).LED = <<given.led_mode>>
    /\ \A n \in DOMAIN Chip : Answer(Chip[n]).REGISTER = <<Chip[n], Shown(n)>>
    /\ Answer(0).REGISTER = <<0, 1>>

\* The bit time of an SJA1000 at 16 MHz for the BTR pair that GET answers,
\* in 48 MHz clocks of the bxCAN, with the same sample point and jump width:
\* after SET BITRATE the controller runs as the host thinks it does.
TimingAsSet ==
    LET btr == Answer(0).BITRATE
        TSEG1 == btr[1] % 16
        TSEG2 == (btr[1] \div 16) % 8
        BRP == btr[2] % 64
        Quanta == timing.TimeSeg1 + timing.TimeSeg2 + 1
    IN  given.bitrate # <<>> =>
            /\ timing.Prescaler * Quanta
                 = 3 * (2 * (BRP + 1)) * (TSEG1 + TSEG2 + 3)
            /\ (timing.TimeSeg1 + 1) * (TSEG1 + TSEG2 + 3)
                 = (TSEG1 + 2) * Quanta
            /\ timing.SyncJumpWidth = btr[2] \div 64 + 1

\* What is read in a packet are the frames the host put there, each whole
\* and unchanged, in order, and from the first on.  Reading stops only at the
\* end of the frames, at a record the packet ends in, or at a remote frame that
\* is followed by fewer bytes than its length code says, though it has none
\* (line 430).
PacketRead ==
    packet # <<>> =>
        /\ Len(read) <= Len(packet.frames)
        /\ \A i \in 1..Len(read) : read[i] = Expected(packet.frames[i])
        /\ left = 0 /\ Len(read) < Len(packet.frames) =>
             EndsIn(packet, Len(read) + 1)

\* When commands and traffic end, each LED comes to rest in the state it was
\* last told to come to: lit with the bus off, dark with the bus on and quiet,
\* wherever the 16-bit time wraps (pcan_led.c:78-97, README "LEDs follow bus
\* state and traffic").
LedsSettle ==
    \A l \in Leds :
        \/ <>[](want[l] = "BLINK")
        \/ <>[](/\ led[l].timestamp = 0
                /\ led[l].state = IF want[l] = "ON" THEN 1 ELSE 0)

Fairness == WF_vars(Poll) /\ WF_vars(Pass) /\ WF_vars(Reading)

FairSpec == Spec /\ Fairness
==============================================================================
