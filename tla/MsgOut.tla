------------------------------- MODULE MsgOut -------------------------------
(***************************************************************************)
(* How the adapter reads the records of a MSG OUT packet: the decoding     *)
(* half of pcan_decode_data_frame, and the checks around it in the loop of *)
(* pcan_protocol_process_data, in src/src/c/pcan_protocol.c.  The loop     *)
(* itself is in PcanCommand; what becomes of a frame that was read (the    *)
(* wait for a slot, the echo) is in PcanDevice.                            *)
(***************************************************************************)
EXTENDS Naturals, Sequences

\* The bit of value mask in byte v.
Bit(v, mask) == (v \div mask) % 2 = 1

Internal(sl) == Bit(sl, 64)   \* PCAN_USB_STATUSLEN_INTERNAL
Ext(sl) == Bit(sl, 32)        \* PCAN_USB_STATUSLEN_EXT_ID
Rtr(sl) == Bit(sl, 16)        \* PCAN_USB_STATUSLEN_RTR
RecLen(sl) == sl % 16         \* PCAN_USB_STATUSLEN_DLC

IdLen(sl) == IF Ext(sl) THEN 4 ELSE 2

\* The identifier, little endian, without the flags in its low bits.
Id(sl, b) ==
    IF Ext(sl)
    THEN b[1] \div 8 + 32 * (b[2] + 256 * (b[3] + 256 * b[4]))
    ELSE b[1] \div 32 + 8 * b[2]

\* srr_flag: the frame is to be echoed, and a byte for it follows.
Echo(b) == Bit(b[1], 1)

\* Bytes of data in the record; a remote frame has none.
Payload(sl) == IF Rtr(sl) THEN 0 ELSE RecLen(sl)

\* Fault: the echo byte is not counted.
UsedNoEcho(sl, b) == IdLen(sl) + Payload(sl)

\* Bytes of the record behind its first one, if it is whole.
Used(sl, b) == IdLen(sl) + Payload(sl) + (IF Echo(b) THEN 1 ELSE 0)

\* The checks of pcan_decode_data_frame; the length is compared with what
\* follows the identifier also for a remote frame.
Readable(sl, b) ==
    /\ Len(b) >= IdLen(sl)
    /\ Len(b) >= IdLen(sl) + RecLen(sl)
    /\ Len(b) >= Used(sl, b)

DlcOf(sl) == IF RecLen(sl) < 8 THEN RecLen(sl) ELSE 8

FrameOf(sl, b) ==
    [ext |-> Ext(sl), rtr |-> Rtr(sl), id |-> Id(sl, b), dlc |-> DlcOf(sl),
     data |-> IF Rtr(sl) THEN <<>>
              ELSE SubSeq(b, IdLen(sl) + 1, IdLen(sl) + DlcOf(sl)),
     echo |-> IF Echo(b) THEN <<b[Used(sl, b)]>> ELSE <<>>]

\* The first record in bytes s is a frame, and whole.
FrameAhead(s) == /\ s # <<>>
                 /\ ~Internal(Head(s))
                 /\ Readable(Head(s), Tail(s))

FirstFrame(s) == FrameOf(Head(s), Tail(s))

\* What remains behind that record.
Behind(s) == SubSeq(s, Used(Head(s), Tail(s)) + 2, Len(s))
==============================================================================
