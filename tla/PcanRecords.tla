----------------------------- MODULE PcanRecords -----------------------------
(***************************************************************************)
(* The device-to-host record buffer of src/src/c/pcan_protocol.c: CAN      *)
(* frames, time-sync and error records are packed into 64-byte blocks,     *)
(* each with a two-byte header, and the whole buffer is handed to the USB  *)
(* data pump when the pump is free.                                        *)
(*                                                                         *)
(* The write position is kept as a block number and an offset in it:       *)
(*     prec->pos = blk * BLOCK_SIZE + off,   0 <= off < BLOCK_SIZE.        *)
(* A record is its kind, its place in its block and its size; its bytes    *)
(* are not modelled.  Whether pcan_flush_data accepts the buffer is the    *)
(* pump's affair (PcanUsb), so a flush here may be accepted or refused.    *)
(***************************************************************************)
EXTENDS Naturals, Sequences, SequencesExt

CONSTANTS
    BLOCK_SIZE,   \* bytes of a block, 64
    BLOCKS,       \* blocks of the buffer, PCAN_MAX_RECORD_SIZE / BLOCK_SIZE = 14
    NEXT_BLOCKS,  \* blocks an 8-bit offset can address, 256 / BLOCK_SIZE = 4
    GAP,          \* BUFFER_MINIMAL_GAP_SIZE, 16
    Frames,       \* CAN frames: [ext, rtr, echo : BOOLEAN, dlc : 0..8]
    Masks,        \* error masks the host sets, sets of flags
    MaxUnsent     \* bound: records in the buffer since its last reset

HEADER_SIZE == 2
SYNC_SIZE == 5
ERROR_SIZE == 3

Flags == {"TXFULL", "RXQOVR", "BUS_OFF"}

\* Size of the record of frame f without its timestamp, lines 285-358.
BodySize(f) ==
    1 + (IF f.ext THEN 4 ELSE 2)
      + (IF f.rtr THEN 0 ELSE f.dlc)
      + (IF f.echo THEN 1 ELSE 0)

\* The HAL hands over at most 8 data bytes, so no record exceeds the gap that
\* is requested for it; and the gap fits in an empty block.
ASSUME RecordsAssumption ==
    /\ BLOCK_SIZE \in Nat /\ GAP \in Nat
    /\ BLOCKS \in Nat \ {0}
    /\ NEXT_BLOCKS \in Nat \ {0}
    /\ MaxUnsent \in Nat
    /\ Masks \subseteq SUBSET Flags
    /\ SYNC_SIZE <= GAP /\ HEADER_SIZE + GAP <= BLOCK_SIZE
    /\ \A f \in Frames : BodySize(f) \in Nat /\ BodySize(f) + 2 <= GAP

\* The two records of a time-sync event need no more than one frame may.
ASSUME EventAssumption == SYNC_SIZE + ERROR_SIZE <= GAP

VARIABLES
    pcan_records,  \* PCAN_RECORD_BUFFER_EX: [blocks, blk, off, ts_counter]
    unsent,        \* history: records committed since the last reset
    bus_active,    \* pcan_device.bus_active
    err,           \* pcan_device.can.err, as a set of flags
    err_mask       \* pcan_device.can.err_mask, likewise

vars == <<pcan_records, unsent, bus_active, err, err_mask>>

------------------------------------------------------------------------------
(* The buffer *)

Kinds == {"wide", "narrow", "sync", "error"}
FrameKinds == {"wide", "narrow"}  \* a frame with a 16-bit or 8-bit timestamp

\* A block with a fresh header: 0x02 and a record count of 0.
EmptyBlock == [hdr |-> TRUE, recs |-> <<>>]

\* Fault: the position is not reset.
ResetKeepsPosition(r) ==
    [r EXCEPT !.blocks[0] = EmptyBlock, !.ts_counter = 0]

\* pcan_record_buffer_reset writes the first header only: other blocks keep
\* what they held.
Reset(r) ==
    [blocks |-> [r.blocks EXCEPT ![0] = EmptyBlock],
     blk |-> 0, off |-> HEADER_SIZE, ts_counter |-> 0]

\* "unused >= size": the rest of the block holds the record.  At a block
\* boundary (off = 0) "unused" is a whole block.
Fits(r, size) == r.off + size <= BLOCK_SIZE

\* Fault: rounded down instead of up.
NextBlockRoundedDown(r) == r.blk % NEXT_BLOCKS

\* The block the position is rounded up to; "next" has 8 bits.
NextBlock(r) == (r.blk + 1) % NEXT_BLOCKS

\* Fault: the end of the buffer is not checked (lines 220-221).
GrantedUnchecked(r, size) == size <= BLOCK_SIZE - HEADER_SIZE

\* pcan_record_buffer_request: whether a slot is granted...
Granted(r, size) ==
    /\ size <= BLOCK_SIZE - HEADER_SIZE
    /\ IF Fits(r, size) THEN r.blk < BLOCKS ELSE NextBlock(r) < BLOCKS

\* Fault: a new block gets no header (lines 213-214), also when the block before
\* it is not full.
RequestSkipsHeader(r, size) ==
    IF Fits(r, size)
    THEN r
    ELSE [r EXCEPT !.blocks[NextBlock(r)] = [hdr |-> FALSE, recs |-> <<>>],
                   !.blk = NextBlock(r), !.off = 0, !.ts_counter = 0]

\* Fault: a new block does not restart the timestamp counter (line 217).
RequestKeepsCounter(r, size) ==
    IF Fits(r, size)
    THEN r
    ELSE [r EXCEPT !.blocks[NextBlock(r)] = EmptyBlock,
                   !.blk = NextBlock(r), !.off = HEADER_SIZE]

\* ... and the buffer when it is.  A new block is cleared, gets a header, and
\* its first frame will carry a full timestamp.
Request(r, size) ==
    IF Fits(r, size)
    THEN r
    ELSE [blocks |-> [r.blocks EXCEPT ![NextBlock(r)] = EmptyBlock],
          blk |-> NextBlock(r), off |-> HEADER_SIZE, ts_counter |-> 0]

\* The record, written at the position and then committed by
\* pcan_record_buffer_commit.  At offset 0 the record lies where the header
\* of its block should be.
Commit(r, rec) ==
    LET end == r.off + rec.size
    IN [blocks |->
            [r.blocks EXCEPT ![r.blk] =
                IF r.off = 0 THEN [hdr |-> FALSE, recs |-> <<rec>>]
                             ELSE [hdr |-> @.hdr, recs |-> Append(@.recs, rec)]],
        blk |-> IF end = BLOCK_SIZE THEN r.blk + 1 ELSE r.blk,
        off |-> IF end = BLOCK_SIZE THEN 0 ELSE end,
        ts_counter |-> IF rec.kind \in FrameKinds THEN r.ts_counter + 1
                                                  ELSE r.ts_counter]

\* The record of frame f: 16-bit timestamp when ts_counter is 0, else 8-bit.
FrameRecord(r, f) ==
    LET wide == r.ts_counter = 0
    IN [kind |-> IF wide THEN "wide" ELSE "narrow",
        at |-> r.off,
        size |-> BodySize(f) + (IF wide THEN 2 ELSE 1),
        flags |-> {}]

SyncRecord(r) ==
    [kind |-> "sync", at |-> r.off, size |-> SYNC_SIZE, flags |-> {}]

ErrorRecord(r, flags) ==
    [kind |-> "error", at |-> r.off, size |-> ERROR_SIZE, flags |-> flags]

\* pos <= HEADER_SIZE: nothing to flush.
NothingToFlush(r) == r.blk = 0 /\ r.off <= HEADER_SIZE

\* Blocks a flush hands over: the position rounded up to a block boundary.
FlushBlocks(r) == IF r.off = 0 THEN r.blk ELSE r.blk + 1

------------------------------------------------------------------------------
\* pcan_protocol_init: the static buffer, zeroed, then reset.
Init ==
    /\ pcan_records =
         Reset([blocks |-> [b \in 0..BLOCKS - 1 |-> [hdr |-> FALSE, recs |-> <<>>]],
                blk |-> 0, off |-> 0, ts_counter |-> 0])
    /\ unsent = <<>>
    /\ bus_active = FALSE
    /\ err = {}
    /\ err_mask = {}

\* The buffer becomes r, holding s since its last reset, plus the record rec.
Put(r, s, rec) ==
    /\ pcan_records' = Commit(r, rec)
    /\ unsent' = Append(s, rec)

\* pcan_record_buffer_flush when pcan_flush_data takes the data.
Flush ==
    /\ ~NothingToFlush(pcan_records)
    /\ pcan_records' = Reset(pcan_records)
    /\ unsent' = <<>>
    /\ UNCHANGED <<bus_active, err, err_mask>>

\* pcan_rx_message and pcan_rx_can_frame, for a frame from the bus or the
\* echo of one from the host.  Without a slot the buffer is flushed and the
\* request repeated; when the flush is refused the frame is dropped and
\* flagged, and when the second request fails it is dropped.
StoreFrame(r, s, f) ==
    LET slot == Request(r, GAP) IN Put(slot, s, FrameRecord(slot, f))

RxFrame(f) ==
    /\ bus_active
    /\ UNCHANGED <<bus_active, err_mask>>
    /\ \/ /\ Granted(pcan_records, GAP)
          /\ Len(unsent) < MaxUnsent
          /\ StoreFrame(pcan_records, unsent, f)
          /\ err' = err
       \/ /\ ~Granted(pcan_records, GAP)
          /\ \/ /\ err' = err \cup {"RXQOVR"}
                /\ UNCHANGED <<pcan_records, unsent>>
             \/ /\ ~NothingToFlush(pcan_records)
                /\ Granted(Reset(pcan_records), GAP)
                /\ StoreFrame(Reset(pcan_records), <<>>, f)
                /\ err' = err
             \/ /\ ~NothingToFlush(pcan_records)
                /\ ~Granted(Reset(pcan_records), GAP)
                /\ pcan_records' = Reset(pcan_records)
                /\ unsent' = <<>>
                /\ err' = err

\* Fault: the flags are cleared although the error record has no slot.
TimesyncEventClearsEarly ==
    LET slot1 == Request(pcan_records, SYNC_SIZE)
        r1    == Commit(slot1, SyncRecord(slot1))
        s1    == Append(unsent, SyncRecord(slot1))
        slot2 == Request(r1, ERROR_SIZE)
    IN /\ Granted(pcan_records, SYNC_SIZE)
       /\ Len(s1) < MaxUnsent
       /\ err' = {}
       /\ IF Granted(r1, ERROR_SIZE)
          THEN Put(slot2, s1, ErrorRecord(slot2, err \cap err_mask))
          ELSE pcan_records' = r1 /\ unsent' = s1

\* pcan_timesync_event: a time-sync record and then an error record with the
\* flags the mask selects; only the second one clears the flags.
TimesyncEvent ==
    LET slot1 == Request(pcan_records, SYNC_SIZE)
        r1    == Commit(slot1, SyncRecord(slot1))
        s1    == Append(unsent, SyncRecord(slot1))
        slot2 == Request(r1, ERROR_SIZE)
    IN \/ /\ ~Granted(pcan_records, SYNC_SIZE)
          /\ UNCHANGED <<pcan_records, unsent, err>>
       \/ /\ Granted(pcan_records, SYNC_SIZE)
          /\ ~Granted(r1, ERROR_SIZE)
          /\ Len(s1) <= MaxUnsent
          /\ pcan_records' = r1
          /\ unsent' = s1
          /\ err' = err
       \/ /\ Granted(pcan_records, SYNC_SIZE)
          /\ Granted(r1, ERROR_SIZE)
          /\ Len(s1) < MaxUnsent
          /\ Put(slot2, s1, ErrorRecord(slot2, err \cap err_mask))
          /\ err' = {}

\* The periodic time-sync of pcan_protocol_poll.
Timesync ==
    /\ bus_active
    /\ TimesyncEvent
    /\ UNCHANGED <<bus_active, err_mask>>

\* PCAN_USB_CMD_BUS: on emits the first time-sync record.  The buffer is not
\* cleared by either.
BusOn ==
    /\ bus_active' = TRUE
    /\ TimesyncEvent
    /\ UNCHANGED err_mask

BusOff ==
    /\ bus_active' = FALSE
    /\ UNCHANGED <<pcan_records, unsent, err, err_mask>>

\* PCAN_USB_CMD_ERR_FR.
SetErrMask(m) ==
    /\ err_mask' = m
    /\ UNCHANGED <<pcan_records, unsent, bus_active, err>>

\* pcan_can_error (BUS_OFF), and the transmit path giving up (TXFULL).
RaiseError(e) ==
    /\ err' = err \cup {e}
    /\ UNCHANGED <<pcan_records, unsent, bus_active, err_mask>>

Next ==
    \/ \E f \in Frames : RxFrame(f)
    \/ Timesync
    \/ Flush
    \/ BusOn
    \/ BusOff
    \/ \E m \in Masks : SetErrMask(m)
    \/ \E e \in {"BUS_OFF", "TXFULL"} : RaiseError(e)

Spec == Init /\ [][Next]_vars

------------------------------------------------------------------------------
(* Properties *)

Records == [kind : Kinds, at : Nat, size : Nat \ {0}, flags : SUBSET Flags]
Block == [hdr : BOOLEAN, recs : Seq(Records)]

BufferOK(r) ==
    /\ r = [blocks |-> r.blocks, blk |-> r.blk, off |-> r.off,
            ts_counter |-> r.ts_counter]
    /\ r.blocks \in [0..BLOCKS - 1 -> Block]
    /\ r.blk \in 0..BLOCKS
    /\ r.off \in 0..BLOCK_SIZE - 1
    /\ r.blk = BLOCKS => r.off = 0
    /\ r.ts_counter \in Nat

TypeOK ==
    /\ BufferOK(pcan_records)
    /\ unsent \in Seq(Records)
    /\ bus_active \in BOOLEAN
    /\ err \in SUBSET Flags
    /\ err_mask \in SUBSET Flags

\* Where the records of a block begin and end.
Start(b) == IF b.hdr THEN HEADER_SIZE ELSE 0
End(b) == IF b.recs = <<>> THEN Start(b)
          ELSE b.recs[Len(b.recs)].at + b.recs[Len(b.recs)].size

\* The records of a block lie back to back, from behind the header or, in a
\* block without one, from its first byte, and none crosses its end.
LaidOut(b) ==
    /\ End(b) <= BLOCK_SIZE
    /\ \A i \in DOMAIN b.recs :
         b.recs[i].at = IF i = 1 THEN Start(b)
                        ELSE b.recs[i - 1].at + b.recs[i - 1].size

LaidOutBuffer(r) ==
    /\ \A b \in 0..BLOCKS - 1 : LaidOut(r.blocks[b])
    /\ r.off # 0 => End(r.blocks[r.blk]) = r.off

\* The records of block b fill it to its last byte.
Full(r, b) == End(r.blocks[b]) = BLOCK_SIZE

HeaderOrFull ==
    \A b \in 0..FlushBlocks(pcan_records) - 1 :
        ~pcan_records.blocks[b].hdr => b > 0 /\ Full(pcan_records, b - 1)

\* The records of a block lie back to back and inside it, behind its header
\* if it has one, and the write position is the end of the last one.  Of the
\* blocks a flush hands over one lacks its header only if the block before it
\* is filled to its last byte: that is finding 1 (BlocksHaveHeaders), and the
\* host, which expects a header, cannot read such a block
\* (pcan_record_buffer_request and _commit).
BlocksLaidOut == LaidOutBuffer(pcan_records) /\ HeaderOrFull

\* README.md:91 of the repository: the timestamp has 16 bits on the first
\* frame of a block and 8 on the others.  So it is in every block that has a
\* header, whatever internal records stand between the frames.
FrameAt(b, i) == b.recs[i].kind \in FrameKinds

WidthsOK(b) ==
    \A i \in DOMAIN b.recs :
        b.recs[i].kind = "wide" <=>
            FrameAt(b, i) /\ \A j \in 1..i - 1 : ~FrameAt(b, j)

WidthsBuffer(r) ==
    /\ \A b \in 0..BLOCKS - 1 : r.blocks[b].hdr => WidthsOK(r.blocks[b])
    /\ r.off # 0 /\ r.blocks[r.blk].hdr =>
         (r.ts_counter = 0 <=>
            \A i \in DOMAIN r.blocks[r.blk].recs : ~FrameAt(r.blocks[r.blk], i))

TimestampWidths == WidthsBuffer(pcan_records)

\* An error flag the mask selects is cleared only by an error record that
\* reports it, also when the time-sync record before it takes the last room
\* (pcan_timesync_event).
ErrorsReported ==
    [][\A e \in (err \ err') \cap err_mask :
          unsent' # <<>> /\ e \in Last(unsent').flags]_vars

\* A frame received while the bus is on is put in the buffer, behind what the
\* buffer held or in one just flushed, or RXQOVR tells the host that it was
\* not: the drop that line 281 leaves silent cannot happen, because a buffer
\* just flushed always has room.
FrameStoredOrFlagged ==
    [][\A f \in Frames : RxFrame(f) =>
          \/ "RXQOVR" \in err'
          \/ /\ unsent' # <<>>
             /\ Last(unsent').kind \in FrameKinds
             /\ Front(unsent') \in {unsent, <<>>}]_vars

\* While fewer blocks are in use than an 8-bit offset can address, a record
\* in the buffer stays there until a flush hands the buffer over.
RecordsKept ==
    [][pcan_records.blk + 1 < NEXT_BLOCKS =>
          \/ Flush
          \/ \A b \in 0..FlushBlocks(pcan_records) - 1 :
               /\ b < FlushBlocks(pcan_records')
               /\ IsPrefix(pcan_records.blocks[b].recs,
                           pcan_records'.blocks[b].recs)]_vars

\* README.md:91-92: "each block starts with 0x02 plus a record count".
BlocksHaveHeaders ==
    \A b \in 0..FlushBlocks(pcan_records) - 1 : pcan_records.blocks[b].hdr

\* pcan_protocol.c:271 says what happens when the buffer is full: "no slot
\* available: flush the current buffer and retry".  So what the next flush
\* hands over is every record committed since the last one, in order.
Payload ==
    FlattenSeq([b \in 1..FlushBlocks(pcan_records) |->
                    pcan_records.blocks[b - 1].recs])

NoRecordLost == Payload = unsent
==============================================================================
