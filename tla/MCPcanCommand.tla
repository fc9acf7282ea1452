---------------------------- MODULE MCPcanCommand ----------------------------
(***************************************************************************)
(* Instances of PcanCommand for TLC.  Bit rates, values, registers,        *)
(* packets and LEDs touch different parts of its state, so that a run need *)
(* not combine them: "part" chooses one of them at the start.              *)
(***************************************************************************)
EXTENDS PcanCommand

CONSTANTS Bytes   \* the values given in commands

VARIABLE part

------------------------------------------------------------------------------
(* Packets *)

\* Identifiers 0x5A3 and 0x0ABCDE12.
Frame(ext, rtr, echo, dlc) ==
    [ext |-> ext, rtr |-> rtr, id |-> IF ext THEN 180149778 ELSE 1443,
     dlc |-> dlc, data |-> [i \in 1 .. IF rtr THEN 0 ELSE dlc |-> 100 + i],
     echo |-> IF echo THEN <<200>> ELSE <<>>]

Frames ==
    {Frame(ext, rtr, echo, dlc) :
        ext, rtr, echo \in BOOLEAN, dlc \in {0, 2, 11}}

\* Two frames, other records behind them, and padding; cut to a size.
PacketOf(f, g, other, size) ==
    LET second == 2 + Len(RecordOf(f))
        all == <<2, 2 + other>> \o RecordOf(f) \o RecordOf(g)
                 \o [i \in 1..11 |-> 64 * other]
    IN  [frames |-> <<f, g>>,
         at |-> <<2, second, second + Len(RecordOf(g))>>,
         bytes |-> SubSeq(all, 1, IF size < Len(all) THEN size ELSE Len(all))]

Sizes == {1, 2, 3, 6, 7, 9, 10, 13, 15, 18, 24, 64}

HostPackets ==
    {PacketOf(f, g, other, n) : f, g \in Frames, other \in {0, 1}, n \in Sizes}

OnePacket ==
    PacketOf(Frame(FALSE, FALSE, FALSE, 0), Frame(FALSE, FALSE, FALSE, 0), 0, 64)

------------------------------------------------------------------------------
MCInit ==
    /\ Init
    /\ part \in {"bitrate", "values", "registers", "packets", "leds"}
    /\ part # "leds" => ts_ms = 0

Bitrate == part = "bitrate" /\ \E p0, p1 \in Bytes : SetBitrate(p0, p1)

Values ==
    part = "values" /\ \E field \in Fields, p0 \in {1, 254} : Keep(field, p0)

\* ACR in both modes, TXERR, the clock divider, the mode register, and BTR0
\* by an address with a high bit.
Registers ==
    /\ part = "registers"
    /\ \E p0 \in {0, 4, 15, 16, 31, 134}, p1 \in {1, 129, 255} :
         SetRegister(p0, p1)

PacketPart ==
    /\ part = "packets"
    /\ \/ events = 0 /\ SetBus(1)
       \/ events = 1 /\ \E p \in Packets : PacketOut(p)
       \/ ReadRecord(0)
       \/ StopReading

LedPart ==
    /\ part = "leds"
    /\ \/ \E p0 \in {0, 1} : SetBus(p0)
       \/ PacketOut(OnePacket)
       \/ Reading
       \/ RxMessage
       \/ VendorInfo
       \/ Poll
       \/ Pass

MCNext ==
    /\ Bitrate \/ Values \/ Registers \/ PacketPart \/ LedPart
    /\ UNCHANGED part

\* Under Fairness the other parts, in which no time passes, have no behaviour
\* at all, so that only the LEDs are asked to settle.
MCSpec == MCInit /\ [][MCNext]_<<vars, part>> /\ Fairness
==============================================================================
