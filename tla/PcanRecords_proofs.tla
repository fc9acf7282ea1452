------------------------- MODULE PcanRecords_proofs -------------------------
(***************************************************************************)
(* The record buffer for every block size, number of blocks, reach of the  *)
(* 8-bit offset and set of frames: it is well typed (so the write position *)
(* never leaves it), the records of a block are contiguous and inside it,  *)
(* and the timestamps of a block with a header have the documented widths. *)
(*                                                                         *)
(* The three are carried by the buffer, not by the state around it, so     *)
(* each is shown to be kept by the operators Reset, Request and Commit;    *)
(* the actions only combine these.                                         *)
(*                                                                         *)
(* What a step may not do follows from the same operators: a stored frame  *)
(* is the last record (FrameIsLast), a cleared flag is in the record that  *)
(* clears it, and Request and Commit keep the records already in the       *)
(* buffer (Keeps) until the 8-bit block offset wraps.  A block without a   *)
(* header lies behind a block filled to its last byte (HeadersBuffer).     *)
(***************************************************************************)
EXTENDS PcanRecords, TLAPS

\* What the actions keep of a buffer.
BufferInv(r) == BufferOK(r) /\ LaidOutBuffer(r) /\ WidthsBuffer(r)

\* A record that may be committed to r.
RecordFor(r, rec) ==
    /\ rec \in Records
    /\ rec.at = r.off
    /\ r.off + rec.size <= BLOCK_SIZE
    /\ rec.kind = "wide" => r.ts_counter = 0
    /\ rec.kind = "narrow" => r.ts_counter # 0

\* 8-bit offsets address NEXT_BLOCKS blocks.
LEMMA NextBlockRange ==
    ASSUME NEW r, BufferOK(r)
    PROVE  NextBlock(r) \in 0..NEXT_BLOCKS - 1
  <1>1. r.blk + 1 \in Nat /\ NEXT_BLOCKS \in Nat \ {0}
    BY RecordsAssumption DEF BufferOK
  <1> QED
    BY <1>1 DEF NextBlock

\* A fresh block is a block, and is empty.
LEMMA EmptyBlockInv ==
    /\ EmptyBlock \in Block
    /\ LaidOut(EmptyBlock)
    /\ End(EmptyBlock) = HEADER_SIZE
    /\ WidthsOK(EmptyBlock)
  <1>1. <<>> \in Seq(Records)
    OBVIOUS
  <1>2. End(EmptyBlock) = HEADER_SIZE
    BY DEF EmptyBlock, End, Start
  <1>3. DOMAIN EmptyBlock.recs = {}
    BY DEF EmptyBlock
  <1>4. HEADER_SIZE <= BLOCK_SIZE
    BY RecordsAssumption DEF HEADER_SIZE
  <1> QED
    BY <1>1, <1>2, <1>3, <1>4 DEF EmptyBlock, Block, LaidOut, WidthsOK

\* Moving to a block that was just given a header keeps a buffer well formed.
LEMMA OpenBlockInv ==
    ASSUME NEW r, BufferInv(r), NEW b \in 0..BLOCKS - 1,
           NEW q, q = [blocks |-> [r.blocks EXCEPT ![b] = EmptyBlock],
                       blk |-> b, off |-> HEADER_SIZE, ts_counter |-> 0]
    PROVE  BufferInv(q)
  <1>1. /\ q.blocks \in [0..BLOCKS - 1 -> Block]
        /\ q.blocks[b] = EmptyBlock
        /\ \A c \in 0..BLOCKS - 1 : c # b => q.blocks[c] = r.blocks[c]
    BY EmptyBlockInv DEF BufferInv, BufferOK
  <1>2. BufferOK(q)
    <2>1. HEADER_SIZE \in 0..BLOCK_SIZE - 1
      BY RecordsAssumption DEF HEADER_SIZE, SYNC_SIZE
    <2>2. b \in 0..BLOCKS /\ b # BLOCKS
      BY RecordsAssumption
    <2> QED
      BY <1>1, <2>1, <2>2 DEF BufferOK
  <1>3. LaidOutBuffer(q)
    BY <1>1, EmptyBlockInv DEF BufferInv, LaidOutBuffer
  <1>4. WidthsBuffer(q)
    <2>1. \A c \in 0..BLOCKS - 1 : q.blocks[c].hdr => WidthsOK(q.blocks[c])
      BY <1>1, EmptyBlockInv DEF BufferInv, WidthsBuffer
    <2>2. q.blocks[q.blk].recs = <<>> /\ q.ts_counter = 0
      BY <1>1 DEF EmptyBlock
    <2> QED
      BY <2>1, <2>2 DEF WidthsBuffer
  <1> QED
    BY <1>2, <1>3, <1>4 DEF BufferInv

\* pcan_record_buffer_reset.
LEMMA ResetInv ==
    ASSUME NEW r, BufferInv(r)
    PROVE  BufferInv(Reset(r))
  <1>1. 0 \in 0..BLOCKS - 1
    BY RecordsAssumption
  <1> QED
    BY <1>1, OpenBlockInv DEF Reset

\* pcan_record_buffer_request: a granted slot has the room that was asked for
\* and lies in the buffer.
LEMMA RequestInv ==
    ASSUME NEW r, BufferInv(r), NEW size \in Nat, Granted(r, size)
    PROVE  /\ BufferInv(Request(r, size))
           /\ Request(r, size).blk < BLOCKS
           /\ Request(r, size).off + size <= BLOCK_SIZE
  <1>1. CASE Fits(r, size)
    BY <1>1 DEF Request, Granted, Fits
  <1>2. CASE ~Fits(r, size)
    <2>1. NextBlock(r) \in 0..BLOCKS - 1
      BY <1>2, NextBlockRange, RecordsAssumption DEF Granted, BufferInv
    <2>2. BufferInv(Request(r, size))
      BY <1>2, <2>1, OpenBlockInv DEF Request
    <2>3. HEADER_SIZE + size <= BLOCK_SIZE
      BY RecordsAssumption DEF Granted, HEADER_SIZE
    <2>4. Request(r, size).blk = NextBlock(r) /\ Request(r, size).off = HEADER_SIZE
      BY <1>2 DEF Request
    <2> QED
      BY <2>1, <2>2, <2>3, <2>4, RecordsAssumption
  <1> QED
    BY <1>1, <1>2

\* The block that a record is committed to.
Extended(r, rec) ==
    IF r.off = 0 THEN [hdr |-> FALSE, recs |-> <<rec>>]
                 ELSE [hdr |-> r.blocks[r.blk].hdr,
                       recs |-> Append(r.blocks[r.blk].recs, rec)]

LEMMA ExtendedBlock ==
    ASSUME NEW r, BufferInv(r), r.blk < BLOCKS, NEW rec, RecordFor(r, rec)
    PROVE  /\ Extended(r, rec) \in Block
           /\ LaidOut(Extended(r, rec))
           /\ End(Extended(r, rec)) = r.off + rec.size
  <1> DEFINE old == r.blocks[r.blk]
             new == Extended(r, rec)
  <1> USE RecordsAssumption
  <1>0. /\ r.off \in Nat /\ rec \in Records /\ rec.at = r.off
        /\ r.off + rec.size <= BLOCK_SIZE
        /\ old \in Block /\ LaidOut(old)
        /\ r.off # 0 => End(old) = r.off
    BY DEF BufferInv, BufferOK, LaidOutBuffer, RecordFor
  <1>1. CASE r.off = 0
    <2>1. new = [hdr |-> FALSE, recs |-> <<rec>>] /\ rec \in Records
      BY <1>0, <1>1 DEF Extended
    <2>2. /\ new.recs \in Seq(Records) /\ Len(new.recs) = 1
          /\ DOMAIN new.recs = {1} /\ new.recs[1] = rec /\ new.recs # <<>>
      BY <2>1
    <2>3. new \in Block
      BY <2>1, <2>2 DEF Block
    <2>4. End(new) = r.off + rec.size
      BY <1>0, <1>1, <2>2 DEF End, Records
    <2> QED
      BY <1>0, <1>1, <2>1, <2>2, <2>3, <2>4 DEF LaidOut, Start
  <1>2. CASE r.off # 0
    <2>1. new = [hdr |-> old.hdr, recs |-> Append(old.recs, rec)]
      BY <1>2 DEF Extended
    <2>2. LaidOut(old) /\ End(old) = r.off
      BY <1>0, <1>2
    <2>3. old.recs \in Seq(Records) /\ old.hdr \in BOOLEAN /\ rec \in Records
      BY <1>0 DEF Block
    <2> HIDE DEF old
    <2>4. /\ Append(old.recs, rec) \in Seq(Records)
          /\ Len(Append(old.recs, rec)) = Len(old.recs) + 1
          /\ DOMAIN Append(old.recs, rec) = 1..Len(old.recs) + 1
          /\ Append(old.recs, rec)[Len(old.recs) + 1] = rec
          /\ \A i \in 1..Len(old.recs) : Append(old.recs, rec)[i] = old.recs[i]
          /\ Len(old.recs) \in Nat /\ DOMAIN old.recs = 1..Len(old.recs)
      BY <2>3
    <2>5. new \in Block
      BY <2>1, <2>3, <2>4 DEF Block
    <2>6. /\ new.recs = Append(old.recs, rec)
          /\ new.recs # <<>>
          /\ Start(new) = Start(old)
      BY <2>1, <2>3 DEF Start
    <2> HIDE DEF new
    <2>7. End(new) = r.off + rec.size
      BY <1>0, <2>4, <2>6 DEF End
    <2>8. ASSUME NEW i \in DOMAIN new.recs
          PROVE  new.recs[i].at = IF i = 1 THEN Start(new)
                                  ELSE new.recs[i - 1].at + new.recs[i - 1].size
      <3>1. CASE i \in 1..Len(old.recs)
        <4>1. /\ new.recs[i] = old.recs[i]
              /\ i # 1 => new.recs[i - 1] = old.recs[i - 1]
          BY <2>4, <2>6, <3>1
        <4>2. old.recs[i].at = IF i = 1 THEN Start(old)
                               ELSE old.recs[i - 1].at + old.recs[i - 1].size
          BY <2>2, <2>4, <3>1 DEF LaidOut
        <4> QED
          BY <2>6, <4>1, <4>2
      <3>2. CASE i = Len(old.recs) + 1
        <4>1. new.recs[i] = rec /\ rec.at = End(old)
          BY <1>0, <2>2, <2>4, <2>6, <3>2
        <4>2. CASE i = 1
          <5>1. Len(old.recs) = 0
            BY <2>4, <3>2, <4>2
          <5>2. old.recs = <<>>
            BY <2>3, <5>1
          <5> QED
            BY <2>6, <4>1, <4>2, <5>2 DEF End
        <4>3. CASE i # 1
          <5>1. old.recs # <<>> /\ i - 1 = Len(old.recs) /\ i - 1 \in 1..Len(old.recs)
            BY <2>3, <2>4, <3>2, <4>3
          <5>2. new.recs[i - 1] = old.recs[Len(old.recs)]
            BY <2>4, <2>6, <5>1
          <5> QED
            BY <4>1, <4>3, <5>1, <5>2 DEF End
        <4> QED
          BY <4>2, <4>3
      <3> QED
        BY <2>4, <2>6, <3>1, <3>2
    <2>9. LaidOut(new)
      BY <1>0, <2>7, <2>8 DEF LaidOut
    <2> QED
      BY <2>5, <2>7, <2>9 DEF new
  <1> QED
    BY <1>1, <1>2

\* The timestamps of the block stay right, and so does what ts_counter says of
\* them.
LEMMA ExtendedWidths ==
    ASSUME NEW r, BufferInv(r), r.blk < BLOCKS, NEW rec, RecordFor(r, rec),
           Extended(r, rec).hdr
    PROVE  /\ WidthsOK(Extended(r, rec))
           /\ (r.ts_counter = 0 /\ rec.kind \notin FrameKinds) <=>
                 \A i \in DOMAIN Extended(r, rec).recs :
                     ~FrameAt(Extended(r, rec), i)
  <1> DEFINE old == r.blocks[r.blk]
             new == Extended(r, rec)
  <1>1. r.off # 0
    BY DEF Extended
  <1>2. new = [hdr |-> old.hdr, recs |-> Append(old.recs, rec)]
    BY <1>1 DEF Extended
  <1>3. old \in Block /\ rec \in Records
    BY RecordsAssumption DEF BufferInv, BufferOK, RecordFor
  <1>4. /\ old.recs \in Seq(Records) /\ Len(old.recs) \in Nat
        /\ new.recs = Append(old.recs, rec)
        /\ old.hdr
    BY <1>2, <1>3, SMTT(30) DEF Block
  <1>5. WidthsOK(old)
    BY <1>4, RecordsAssumption DEF BufferInv, BufferOK, WidthsBuffer
  <1>6. r.ts_counter = 0 <=> \A i \in DOMAIN old.recs : ~FrameAt(old, i)
    BY <1>1, <1>4 DEF BufferInv, WidthsBuffer
  <1> HIDE DEF old, new
  <1>7. /\ DOMAIN old.recs = 1..Len(old.recs)
        /\ DOMAIN new.recs = 1..Len(old.recs) + 1
        /\ new.recs[Len(old.recs) + 1] = rec
        /\ \A i \in 1..Len(old.recs) : new.recs[i] = old.recs[i]
    BY <1>3, <1>4
  <1>8. /\ FrameAt(new, Len(old.recs) + 1) <=> rec.kind \in FrameKinds
        /\ \A i \in 1..Len(old.recs) : FrameAt(new, i) <=> FrameAt(old, i)
    BY <1>7 DEF FrameAt
  <1>9. /\ rec.kind = "wide" => r.ts_counter = 0
        /\ rec.kind = "narrow" => r.ts_counter # 0
    BY DEF RecordFor
  <1>10. ASSUME NEW i \in DOMAIN new.recs
         PROVE  new.recs[i].kind = "wide" <=>
                  FrameAt(new, i) /\ \A j \in 1..i - 1 : ~FrameAt(new, j)
    <2>1. CASE i \in 1..Len(old.recs)
      <3>1. \A j \in 1..i - 1 : j \in 1..Len(old.recs)
        BY <1>4, <2>1
      <3>2. old.recs[i].kind = "wide" <=>
              FrameAt(old, i) /\ \A j \in 1..i - 1 : ~FrameAt(old, j)
        BY <1>5, <1>7, <2>1 DEF WidthsOK
      <3> QED
        BY <1>7, <1>8, <2>1, <3>1, <3>2
    <2>2. CASE i = Len(old.recs) + 1
      <3>1. 1..i - 1 = 1..Len(old.recs)
        BY <1>4, <2>2
      <3>2. (\A j \in 1..i - 1 : ~FrameAt(new, j)) <=> r.ts_counter = 0
        BY <1>6, <1>7, <1>8, <3>1
      <3> QED
        BY <1>7, <1>8, <1>9, <2>2, <3>2 DEF FrameKinds
    <2> QED
      BY <1>4, <1>7, <2>1, <2>2
  <1>11. (r.ts_counter = 0 /\ rec.kind \notin FrameKinds) <=>
           \A i \in DOMAIN new.recs : ~FrameAt(new, i)
    <2>1. \A i \in DOMAIN new.recs :
            i \in DOMAIN old.recs \/ i = Len(old.recs) + 1
      BY <1>4, <1>7
    <2>2. /\ Len(old.recs) + 1 \in DOMAIN new.recs
          /\ \A i \in DOMAIN old.recs : i \in DOMAIN new.recs
      BY <1>4, <1>7
    <2> QED
      BY <1>6, <1>7, <1>8, <2>1, <2>2
  <1>12. WidthsOK(new)
    BY <1>10 DEF WidthsOK
  <1> QED
    BY <1>11, <1>12 DEF new

\* pcan_record_buffer_commit.
LEMMA CommitInv ==
    ASSUME NEW r, BufferInv(r), r.blk < BLOCKS, NEW rec, RecordFor(r, rec)
    PROVE  BufferInv(Commit(r, rec))
  <1> DEFINE q == Commit(r, rec)
             end == r.off + rec.size
  <1> USE RecordsAssumption
  <1>1. r.blk \in 0..BLOCKS - 1 /\ r.blocks \in [0..BLOCKS - 1 -> Block]
    BY DEF BufferInv, BufferOK
  <1>2. /\ q.blocks = [r.blocks EXCEPT ![r.blk] = Extended(r, rec)]
        /\ q.blk = IF end = BLOCK_SIZE THEN r.blk + 1 ELSE r.blk
        /\ q.off = IF end = BLOCK_SIZE THEN 0 ELSE end
        /\ q.ts_counter = IF rec.kind \in FrameKinds THEN r.ts_counter + 1
                                                      ELSE r.ts_counter
        /\ q = [blocks |-> q.blocks, blk |-> q.blk, off |-> q.off,
                ts_counter |-> q.ts_counter]
    BY DEF Commit, Extended
  <1>3. end \in Nat /\ end # 0 /\ end <= BLOCK_SIZE /\ r.ts_counter \in Nat
    BY DEF BufferInv, BufferOK, RecordFor, Records
  <1> HIDE DEF q
  <1>4. /\ q.blocks \in [0..BLOCKS - 1 -> Block]
        /\ q.blocks[r.blk] = Extended(r, rec)
        /\ \A c \in 0..BLOCKS - 1 : c # r.blk => q.blocks[c] = r.blocks[c]
    BY <1>1, <1>2, ExtendedBlock
  <1>5. BufferOK(q)
    <2>1. q.blk \in 0..BLOCKS /\ q.off \in 0..BLOCK_SIZE - 1
      BY <1>1, <1>2, <1>3, SMTT(30)
    <2>2. q.blk = BLOCKS => q.off = 0
      BY <1>1, <1>2
    <2>3. q.ts_counter \in Nat
      BY <1>2, <1>3
    <2> QED
      BY <1>2, <1>4, <2>1, <2>2, <2>3 DEF BufferOK
  <1>6. LaidOutBuffer(q)
    <2>1. \A c \in 0..BLOCKS - 1 : LaidOut(q.blocks[c])
      BY <1>4, ExtendedBlock DEF BufferInv, LaidOutBuffer
    <2>2. q.off # 0 => q.blk = r.blk /\ q.off = end
      BY <1>2
    <2> QED
      BY <1>4, <2>1, <2>2, ExtendedBlock DEF LaidOutBuffer
  <1>7. WidthsBuffer(q)
    <2>1. \A c \in 0..BLOCKS - 1 : q.blocks[c].hdr => WidthsOK(q.blocks[c])
      BY <1>4, ExtendedWidths DEF BufferInv, WidthsBuffer
    <2>2. q.ts_counter = 0 <=> r.ts_counter = 0 /\ rec.kind \notin FrameKinds
      BY <1>2, <1>3
    <2>3. q.off # 0 => q.blk = r.blk
      BY <1>2
    <2> QED
      BY <1>4, <2>1, <2>2, <2>3, ExtendedWidths DEF WidthsBuffer
  <1> QED
    BY <1>5, <1>6, <1>7 DEF BufferInv, q

------------------------------------------------------------------------------
(* The records the code commits fit the slots it requests *)

LEMMA FrameFits ==
    ASSUME NEW r, BufferInv(r), NEW f \in Frames, r.off + GAP <= BLOCK_SIZE
    PROVE  RecordFor(r, FrameRecord(r, f))
  <1>1. /\ r.off \in Nat /\ r.ts_counter \in Nat
        /\ BodySize(f) \in Nat /\ BodySize(f) + 2 <= GAP
        /\ GAP \in Nat /\ BLOCK_SIZE \in Nat
    BY RecordsAssumption DEF BufferInv, BufferOK
  <1>2. \A b \in {1, 2} : BodySize(f) + b \in Nat \ {0}
    BY <1>1
  <1> DEFINE rec == FrameRecord(r, f)
  <1>3. rec \in Records
    BY <1>1, <1>2 DEF FrameRecord, Records, Kinds
  <1>4. rec.at = r.off /\ r.off + rec.size <= BLOCK_SIZE
    BY <1>1 DEF FrameRecord
  <1>5. /\ rec.kind = "wide" => r.ts_counter = 0
        /\ rec.kind = "narrow" => r.ts_counter # 0
    BY DEF FrameRecord
  <1> QED
    BY <1>3, <1>4, <1>5 DEF RecordFor

LEMMA SyncFits ==
    ASSUME NEW r, BufferInv(r), r.off + SYNC_SIZE <= BLOCK_SIZE
    PROVE  RecordFor(r, SyncRecord(r))
  BY DEF BufferInv, BufferOK, RecordFor, SyncRecord, Records, Kinds, SYNC_SIZE

LEMMA ErrorFits ==
    ASSUME NEW r, BufferInv(r), NEW fs \in SUBSET Flags,
           r.off + ERROR_SIZE <= BLOCK_SIZE
    PROVE  RecordFor(r, ErrorRecord(r, fs))
  BY DEF BufferInv, BufferOK, RecordFor, ErrorRecord, Records, Kinds, ERROR_SIZE

------------------------------------------------------------------------------
(* The state machine *)

IInv == TypeOK /\ BufferInv(pcan_records)

LEMMA InitIInv == Init => IInv
  <1> SUFFICES ASSUME Init PROVE IInv
    OBVIOUS
  <1> DEFINE blank == [hdr |-> FALSE, recs |-> <<>>]
             zero == [blocks |-> [b \in 0..BLOCKS - 1 |-> blank],
                      blk |-> 0, off |-> 0, ts_counter |-> 0]
  <1>1. <<>> \in Seq(Records)
    OBVIOUS
  <1>2. blank \in Block /\ LaidOut(blank) /\ ~blank.hdr
    <2>1. blank \in Block /\ End(blank) = 0 /\ DOMAIN blank.recs = {}
      BY <1>1 DEF Block, End, Start
    <2> QED
      BY <2>1, RecordsAssumption DEF LaidOut
  <1>3. BufferInv(zero)
    <2>1. BLOCK_SIZE \in Nat /\ 0 \in 0..BLOCK_SIZE - 1 /\ 0 \in 0..BLOCKS
      BY RecordsAssumption DEF HEADER_SIZE, SYNC_SIZE
    <2>2. \A c \in 0..BLOCKS - 1 : zero.blocks[c] = blank
      OBVIOUS
    <2>3. BufferOK(zero)
      BY <1>2, <2>1 DEF BufferOK
    <2>4. LaidOutBuffer(zero)
      BY <1>2, <2>2 DEF LaidOutBuffer
    <2>5. WidthsBuffer(zero)
      BY <1>2, <2>2 DEF WidthsBuffer
    <2> QED
      BY <2>3, <2>4, <2>5 DEF BufferInv
  <1>4. BufferInv(pcan_records)
    BY <1>3, ResetInv DEF Init
  <1> QED
    BY <1>1, <1>4 DEF Init, IInv, TypeOK, BufferInv

\* Storing a frame in a buffer that grants it a slot.
LEMMA StoreFrameInv ==
    ASSUME NEW r, BufferInv(r), NEW s \in Seq(Records), NEW f \in Frames,
           Granted(r, GAP), StoreFrame(r, s, f)
    PROVE  BufferInv(pcan_records') /\ unsent' \in Seq(Records)
  <1> DEFINE slot == Request(r, GAP)
  <1>1. /\ BufferInv(slot) /\ slot.blk < BLOCKS /\ slot.off + GAP <= BLOCK_SIZE
    BY RequestInv, RecordsAssumption
  <1>2. RecordFor(slot, FrameRecord(slot, f))
    BY <1>1, FrameFits
  <1>3. /\ pcan_records' = Commit(slot, FrameRecord(slot, f))
        /\ unsent' = Append(s, FrameRecord(slot, f))
    BY DEF StoreFrame, Put
  <1> HIDE DEF slot
  <1>4. FrameRecord(slot, f) \in Records
    BY <1>2 DEF RecordFor
  <1> QED
    BY <1>1, <1>2, <1>3, <1>4, CommitInv

LEMMA RxFrameIInv ==
    ASSUME IInv, NEW f \in Frames, RxFrame(f)
    PROVE  IInv'
  <1>1. BufferInv(pcan_records) /\ unsent \in Seq(Records)
    BY DEF IInv, TypeOK
  <1>2. BufferInv(Reset(pcan_records)) /\ <<>> \in Seq(Records)
    BY <1>1, ResetInv
  <1>3. BufferInv(pcan_records') /\ unsent' \in Seq(Records)
    <2>1. CASE UNCHANGED <<pcan_records, unsent>>
      BY <1>1, <2>1
    <2>2. CASE Granted(pcan_records, GAP) /\ StoreFrame(pcan_records, unsent, f)
      BY <1>1, <2>2, StoreFrameInv
    <2>3. CASE /\ Granted(Reset(pcan_records), GAP)
               /\ StoreFrame(Reset(pcan_records), <<>>, f)
      BY <1>2, <2>3, StoreFrameInv
    <2>4. CASE pcan_records' = Reset(pcan_records) /\ unsent' = <<>>
      BY <1>2, <2>4
    <2> QED
      BY <2>1, <2>2, <2>3, <2>4 DEF RxFrame
  <1>4. /\ bus_active' \in BOOLEAN /\ err' \in SUBSET Flags
        /\ err_mask' \in SUBSET Flags
    BY DEF IInv, TypeOK, RxFrame, Flags
  <1> QED
    BY <1>3, <1>4 DEF IInv, TypeOK, BufferInv

\* pcan_timesync_event: both records go where a slot was granted.
LEMMA TimesyncEventInv ==
    ASSUME IInv, TimesyncEvent
    PROVE  /\ BufferInv(pcan_records') /\ unsent' \in Seq(Records)
           /\ err' \in SUBSET Flags
  <1> DEFINE slot1 == Request(pcan_records, SYNC_SIZE)
             r1    == Commit(slot1, SyncRecord(slot1))
             s1    == Append(unsent, SyncRecord(slot1))
             slot2 == Request(r1, ERROR_SIZE)
  <1>1. /\ BufferInv(pcan_records) /\ unsent \in Seq(Records)
        /\ err \in SUBSET Flags /\ err_mask \in SUBSET Flags
        /\ SYNC_SIZE \in Nat /\ ERROR_SIZE \in Nat
    BY DEF IInv, TypeOK, SYNC_SIZE, ERROR_SIZE
  <1>2. ASSUME Granted(pcan_records, SYNC_SIZE)
        PROVE  BufferInv(r1) /\ s1 \in Seq(Records)
    <2>1. /\ BufferInv(slot1) /\ slot1.blk < BLOCKS
          /\ slot1.off + SYNC_SIZE <= BLOCK_SIZE
      BY <1>1, <1>2, RequestInv
    <2>2. RecordFor(slot1, SyncRecord(slot1))
      BY <2>1, SyncFits
    <2> HIDE DEF slot1
    <2>3. SyncRecord(slot1) \in Records
      BY <2>2 DEF RecordFor
    <2> QED
      BY <1>1, <2>1, <2>2, <2>3, CommitInv
  <1>3. CASE ~Granted(pcan_records, SYNC_SIZE)
    BY <1>1, <1>3 DEF TimesyncEvent
  <1>4. CASE Granted(pcan_records, SYNC_SIZE) /\ ~Granted(r1, ERROR_SIZE)
    <2>1. pcan_records' = r1 /\ unsent' = s1 /\ err' = err
      BY <1>4 DEF TimesyncEvent
    <2> QED
      BY <1>1, <1>2, <1>4, <2>1
  <1>5. CASE Granted(pcan_records, SYNC_SIZE) /\ Granted(r1, ERROR_SIZE)
    <2> DEFINE rec == ErrorRecord(slot2, err \cap err_mask)
    <2>1. /\ pcan_records' = Commit(slot2, rec)
          /\ unsent' = Append(s1, rec)
          /\ err' = {}
      BY <1>5 DEF TimesyncEvent, Put
    <2>2. BufferInv(r1) /\ s1 \in Seq(Records)
      BY <1>2, <1>5
    <2> HIDE DEF r1, s1
    <2>3. /\ BufferInv(slot2) /\ slot2.blk < BLOCKS
          /\ slot2.off + ERROR_SIZE <= BLOCK_SIZE
      BY <1>1, <1>5, <2>2, RequestInv
    <2> HIDE DEF slot2
    <2>4. RecordFor(slot2, rec)
      BY <1>1, <2>3, ErrorFits
    <2> HIDE DEF rec
    <2>5. rec \in Records
      BY <2>4 DEF RecordFor
    <2> QED
      BY <2>1, <2>2, <2>3, <2>4, <2>5, CommitInv
  <1> QED
    BY <1>3, <1>4, <1>5

LEMMA NextIInv == IInv /\ [Next]_vars => IInv'
  <1> SUFFICES ASSUME IInv, [Next]_vars PROVE IInv'
    OBVIOUS
  <1>1. CASE \E f \in Frames : RxFrame(f)
    BY <1>1, RxFrameIInv
  <1>2. CASE Timesync
    BY <1>2, TimesyncEventInv DEF Timesync, IInv, TypeOK, BufferInv
  <1>3. CASE BusOn
    BY <1>3, TimesyncEventInv DEF BusOn, IInv, TypeOK, BufferInv
  <1>4. CASE Flush
    <2>1. BufferInv(pcan_records') /\ unsent' \in Seq(Records)
      BY <1>4, ResetInv DEF Flush, IInv
    <2> QED
      BY <1>4, <2>1 DEF Flush, IInv, TypeOK, BufferInv
  <1>5. CASE BusOff
    BY <1>5 DEF BusOff, IInv, TypeOK
  <1>6. ASSUME NEW m \in Masks, SetErrMask(m) PROVE IInv'
    BY <1>6, RecordsAssumption DEF SetErrMask, IInv, TypeOK
  <1>7. ASSUME NEW e \in {"BUS_OFF", "TXFULL"}, RaiseError(e) PROVE IInv'
    BY <1>7 DEF RaiseError, IInv, TypeOK, Flags
  <1>8. CASE UNCHANGED vars
    BY <1>8 DEF vars, IInv, TypeOK
  <1> QED
    BY <1>1, <1>2, <1>3, <1>4, <1>5, <1>6, <1>7, <1>8 DEF Next

\* The record buffer is well typed in every reachable state: the write
\* position and every record committed lie inside the buffer.
THEOREM TypeCorrect == Spec => []TypeOK
  <1>1. IInv => TypeOK
    BY DEF IInv
  <1> QED
    BY InitIInv, NextIInv, <1>1, PTL DEF Spec

\* In a block with a header the first frame has the 16-bit timestamp and the
\* others the 8-bit one.
THEOREM WidthsAsDocumented == Spec => []TimestampWidths
  <1>1. IInv => TimestampWidths
    BY DEF IInv, BufferInv, TimestampWidths
  <1> QED
    BY InitIInv, NextIInv, <1>1, PTL DEF Spec

------------------------------------------------------------------------------
(* What a step may not do *)

\* A record put behind others is the last, and they are in front of it.
LEMMA LastOfAppend ==
    ASSUME NEW s \in Seq(Records), NEW rec \in Records
    PROVE  /\ Append(s, rec) # <<>>
           /\ Last(Append(s, rec)) = rec
           /\ Front(Append(s, rec)) = s
  <1> DEFINE t == Append(s, rec)
  <1>1. /\ t \in Seq(Records) /\ Len(t) = Len(s) + 1 /\ Len(s) \in Nat
        /\ t[Len(t)] = rec
        /\ \A i \in 1..Len(s) : t[i] = s[i]
    OBVIOUS
  <1> HIDE DEF t
  <1>2. SubSeq(t, 1, Len(t) - 1) = s
    <2>1. Len(t) - 1 = Len(s)
      BY <1>1
    <2>2. SubSeq(t, 1, Len(s)) = s
      BY <1>1
    <2> QED
      BY <2>1, <2>2
  <1> QED
    BY <1>1, <1>2 DEF Last, Front, t

\* An error record carries the flags that were up and selected.
LEMMA StepReports ==
    ASSUME IInv, [Next]_vars, NEW e \in (err \ err') \cap err_mask
    PROVE  unsent' # <<>> /\ e \in Last(unsent').flags
  <1>1. ASSUME TimesyncEvent
        PROVE  unsent' # <<>> /\ e \in Last(unsent').flags
    <2> DEFINE slot1 == Request(pcan_records, SYNC_SIZE)
               r1    == Commit(slot1, SyncRecord(slot1))
               s1    == Append(unsent, SyncRecord(slot1))
               slot2 == Request(r1, ERROR_SIZE)
               rec   == ErrorRecord(slot2, err \cap err_mask)
    <2>1. unsent' = Append(s1, rec)
      BY <1>1 DEF TimesyncEvent, Put
    <2>2. e \in rec.flags
      BY DEF ErrorRecord
    <2>3. s1 = Append(unsent, SyncRecord(slot1)) /\ Len(unsent) \in Nat
      BY DEF IInv, TypeOK
    <2> HIDE DEF s1, rec
    <2>4. unsent' # <<>> /\ Last(unsent') = rec
      <3>1. unsent \in Seq(Records)
        BY DEF IInv, TypeOK
      <3> DEFINE Elems == Records \cup {SyncRecord(slot1), rec}
      <3>2. s1 \in Seq(Elems)
        BY <2>3, <3>1
      <3>3. rec \in Elems
        OBVIOUS
      <3> HIDE DEF Elems
      <3> QED
        BY <2>1, <3>2, <3>3 DEF Last
    <2> QED
      BY <2>2, <2>4
  <1>2. err' # err /\ e \in err /\ e \notin err'
    OBVIOUS
  <1>3. CASE \E f \in Frames : RxFrame(f)
    BY <1>2, <1>3 DEF RxFrame
  <1>4. CASE Timesync \/ BusOn
    BY <1>1, <1>4 DEF Timesync, BusOn
  <1>5. CASE \/ Flush \/ BusOff \/ UNCHANGED vars
             \/ \E m \in Masks : SetErrMask(m)
    BY <1>2, <1>5 DEF Flush, BusOff, SetErrMask, vars
  <1>6. CASE \E x \in {"BUS_OFF", "TXFULL"} : RaiseError(x)
    BY <1>2, <1>6 DEF RaiseError
  <1> QED
    BY <1>3, <1>4, <1>5, <1>6 DEF Next

\* A flag the host asked to hear of is cleared only by a record that tells it.
THEOREM FlagsReported == Spec => ErrorsReported
  <1>1. IInv /\ [Next]_vars =>
          [\A e \in (err \ err') \cap err_mask :
              unsent' # <<>> /\ e \in Last(unsent').flags]_vars
    BY StepReports
  <1> QED
    BY InitIInv, NextIInv, <1>1, PTL DEF Spec, ErrorsReported

\* A buffer just reset grants every slot of the gap: there is no silent drop.
LEMMA ResetGrants == ASSUME NEW r PROVE Granted(Reset(r), GAP)
  BY RecordsAssumption DEF Granted, Fits, Reset, HEADER_SIZE

\* A stored frame is the last record of what the buffer holds.
LEMMA FrameIsLast ==
    ASSUME NEW r, BufferInv(r), NEW s \in Seq(Records), NEW f \in Frames,
           Granted(r, GAP), StoreFrame(r, s, f)
    PROVE  /\ unsent' # <<>>
           /\ Last(unsent').kind \in FrameKinds
           /\ Front(unsent') = s
  <1> DEFINE slot == Request(r, GAP)
             rec  == FrameRecord(slot, f)
  <1>1. BufferInv(slot) /\ slot.off + GAP <= BLOCK_SIZE
    BY RequestInv, RecordsAssumption
  <1>2. rec \in Records
    BY <1>1, FrameFits DEF RecordFor
  <1>3. rec.kind \in FrameKinds
    BY DEF FrameRecord, FrameKinds
  <1>4. unsent' = Append(s, rec)
    BY DEF StoreFrame, Put
  <1> HIDE DEF rec
  <1> QED
    BY <1>2, <1>3, <1>4, LastOfAppend

\* A frame received while the bus is on is stored, or RXQOVR says it was not,
\* for every size of buffer and reach of the offset.
THEOREM NoSilentDrop == Spec => FrameStoredOrFlagged
  <1>1. ASSUME IInv, NEW f \in Frames, RxFrame(f)
        PROVE  \/ "RXQOVR" \in err'
               \/ /\ unsent' # <<>>
                  /\ Last(unsent').kind \in FrameKinds
                  /\ Front(unsent') \in {unsent, <<>>}
    <2>0. BufferInv(pcan_records)
      BY <1>1 DEF IInv
    <2>1. /\ BufferInv(pcan_records) /\ unsent \in Seq(Records)
          /\ BufferInv(Reset(pcan_records)) /\ <<>> \in Seq(Records)
      BY <1>1, <2>0, ResetInv DEF IInv, TypeOK
    <2>2. CASE Granted(pcan_records, GAP) /\ StoreFrame(pcan_records, unsent, f)
      BY <2>1, <2>2, FrameIsLast
    <2>3. CASE "RXQOVR" \in err'
      BY <2>3
    <2>4. CASE StoreFrame(Reset(pcan_records), <<>>, f)
      BY <2>1, <2>4, FrameIsLast, ResetGrants
    <2> QED
      BY <1>1, <2>2, <2>3, <2>4, ResetGrants DEF RxFrame
  <1>2. IInv /\ [Next]_vars =>
          [\A f \in Frames : RxFrame(f) =>
              \/ "RXQOVR" \in err'
              \/ /\ unsent' # <<>>
                 /\ Last(unsent').kind \in FrameKinds
                 /\ Front(unsent') \in {unsent, <<>>}]_vars
    BY <1>1
  <1> QED
    BY InitIInv, NextIInv, <1>2, PTL DEF Spec, FrameStoredOrFlagged

------------------------------------------------------------------------------
(* What is kept until a flush *)

\* Every record a flush of r would hand over, a flush of q would, too.
Keeps(r, q) ==
    \A b \in 0..FlushBlocks(r) - 1 :
        /\ b < FlushBlocks(q)
        /\ IsPrefix(r.blocks[b].recs, q.blocks[b].recs)

\* A prefix, element by element.
LEMMA PrefixMeaning ==
    ASSUME NEW s \in Seq(Records), NEW t \in Seq(Records)
    PROVE  IsPrefix(s, t) <=>
             Len(s) <= Len(t) /\ \A i \in 1..Len(s) : s[i] = t[i]
  <1>1. /\ Len(s) \in Nat /\ Len(t) \in Nat
        /\ SubSeq(s, 1, Len(s)) = s
    OBVIOUS
  <1>2. ASSUME Len(s) <= Len(t)
        PROVE  SubSeq(t, 1, Len(s)) = s <=> \A i \in 1..Len(s) : s[i] = t[i]
    <2> DEFINE u == SubSeq(t, 1, Len(s))
    <2>1. /\ u \in Seq(Records) /\ Len(u) = Len(s)
          /\ \A i \in 1..Len(s) : u[i] = t[i]
      BY <1>1, <1>2
    <2> HIDE DEF u
    <2>2. u = s <=> \A i \in 1..Len(s) : s[i] = u[i]
      BY <2>1
    <2>3. u = s <=> \A i \in 1..Len(s) : s[i] = t[i]
      BY <2>1, <2>2
    <2> QED
      BY <2>3 DEF u
  <1> QED
    BY <1>1, <1>2 DEF IsPrefix

\* What the buffer is made of.
LEMMA BufferRange ==
    ASSUME NEW r, BufferInv(r)
    PROVE  /\ r.blk \in 0..BLOCKS /\ r.off \in 0..BLOCK_SIZE - 1
           /\ r.blk = BLOCKS => r.off = 0
           /\ FlushBlocks(r) \in 0..BLOCKS
           /\ \A b \in 0..BLOCKS - 1 : r.blocks[b].recs \in Seq(Records)
           /\ BLOCKS \in Nat /\ BLOCK_SIZE \in Nat
  <1>1. /\ r.blk \in 0..BLOCKS /\ r.off \in 0..BLOCK_SIZE - 1
        /\ r.blk = BLOCKS => r.off = 0
        /\ r.blocks \in [0..BLOCKS - 1 -> Block]
    BY DEF BufferInv, BufferOK
  <1>2. BLOCKS \in Nat /\ BLOCK_SIZE \in Nat
    BY RecordsAssumption
  <1>3. FlushBlocks(r) \in 0..BLOCKS
    BY <1>1, <1>2 DEF FlushBlocks
  <1> QED
    BY <1>1, <1>2, <1>3 DEF Block

LEMMA KeepsSelf ==
    ASSUME NEW r, BufferInv(r)
    PROVE  Keeps(r, r)
  <1> SUFFICES ASSUME NEW b \in 0..FlushBlocks(r) - 1
               PROVE  b < FlushBlocks(r) /\ IsPrefix(r.blocks[b].recs, r.blocks[b].recs)
    BY DEF Keeps
  <1>1. /\ b \in 0..BLOCKS - 1 /\ b < FlushBlocks(r)
        /\ r.blocks[b].recs \in Seq(Records)
    BY BufferRange
  <1>2. Len(r.blocks[b].recs) <= Len(r.blocks[b].recs)
    BY <1>1
  <1> QED
    BY <1>1, <1>2, PrefixMeaning

LEMMA KeepsOn ==
    ASSUME NEW r, BufferInv(r), NEW q, BufferInv(q), NEW p, BufferInv(p),
           Keeps(r, q), Keeps(q, p)
    PROVE  Keeps(r, p)
  <1> SUFFICES ASSUME NEW b \in 0..FlushBlocks(r) - 1
               PROVE  b < FlushBlocks(p) /\ IsPrefix(r.blocks[b].recs, p.blocks[b].recs)
    BY DEF Keeps
  <1>1. /\ b \in 0..BLOCKS - 1 /\ FlushBlocks(q) \in Nat
        /\ r.blocks[b].recs \in Seq(Records)
        /\ q.blocks[b].recs \in Seq(Records)
        /\ p.blocks[b].recs \in Seq(Records)
    BY BufferRange
  <1>2. b < FlushBlocks(q) /\ IsPrefix(r.blocks[b].recs, q.blocks[b].recs)
    BY DEF Keeps
  <1>3. b \in 0..FlushBlocks(q) - 1
    BY <1>1, <1>2
  <1>4. b < FlushBlocks(p) /\ IsPrefix(q.blocks[b].recs, p.blocks[b].recs)
    BY <1>3 DEF Keeps
  <1> DEFINE s == r.blocks[b].recs
             t == q.blocks[b].recs
             u == p.blocks[b].recs
  <1>5. s \in Seq(Records) /\ t \in Seq(Records) /\ u \in Seq(Records)
    BY <1>1
  <1> HIDE DEF s, t, u
  <1>6. Len(s) \in Nat /\ Len(t) \in Nat /\ Len(u) \in Nat
    BY <1>5
  <1>7. IsPrefix(s, t) /\ IsPrefix(t, u)
    BY <1>2, <1>4 DEF s, t, u
  <1>8. /\ Len(s) <= Len(t) /\ \A i \in 1..Len(s) : s[i] = t[i]
        /\ Len(t) <= Len(u) /\ \A i \in 1..Len(t) : t[i] = u[i]
    BY <1>5, <1>7, PrefixMeaning
  <1>9. Len(s) <= Len(u) /\ \A i \in 1..Len(s) : s[i] = u[i]
    BY <1>6, <1>8
  <1>10. IsPrefix(s, u)
    BY <1>5, <1>9, PrefixMeaning
  <1> QED
    BY <1>4, <1>10 DEF s, u

\* A slot in the block being written, or in one the 8-bit offset reaches.
LEMMA RequestKeeps ==
    ASSUME NEW r, BufferInv(r), NEW size \in Nat, Granted(r, size),
           Fits(r, size) \/ r.blk + 1 < NEXT_BLOCKS
    PROVE  /\ Keeps(r, Request(r, size))
           /\ ~Fits(r, size) => /\ Request(r, size).blk = r.blk + 1
                                /\ Request(r, size).off = HEADER_SIZE
  <1>1. CASE Fits(r, size)
    BY <1>1, KeepsSelf DEF Request
  <1>2. CASE ~Fits(r, size)
    <2> DEFINE q == Request(r, size)
    <2>1. r.blk \in 0..BLOCKS /\ NEXT_BLOCKS \in Nat
      BY BufferRange, RecordsAssumption
    <2>2. NextBlock(r) = r.blk + 1
      BY <1>2, <2>1 DEF NextBlock
    <2>3. /\ q.blocks = [r.blocks EXCEPT ![r.blk + 1] = EmptyBlock]
          /\ q.blk = r.blk + 1 /\ q.off = HEADER_SIZE
      BY <1>2, <2>2 DEF Request
    <2> HIDE DEF q
    <2>4. FlushBlocks(q) = r.blk + 2
      BY <2>1, <2>3 DEF FlushBlocks, HEADER_SIZE
    <2>5. FlushBlocks(r) \in {r.blk, r.blk + 1}
      BY DEF FlushBlocks
    <2>6. Keeps(r, r)
      BY KeepsSelf
    <2>7. ASSUME NEW b \in 0..FlushBlocks(r) - 1
          PROVE  b < FlushBlocks(q) /\ IsPrefix(r.blocks[b].recs, q.blocks[b].recs)
      <3>1. b < FlushBlocks(q) /\ b # r.blk + 1 /\ b \in 0..BLOCKS - 1
        BY <2>1, <2>4, <2>5, BufferRange, SMTT(30)
      <3>2. q.blocks[b] = r.blocks[b]
        BY <2>3, <3>1 DEF BufferInv, BufferOK
      <3> QED
        BY <2>6, <3>1, <3>2 DEF Keeps
    <2>8. Keeps(r, q)
      BY <2>7 DEF Keeps
    <2> QED
      BY <2>3, <2>8 DEF q
  <1> QED
    BY <1>1, <1>2

\* A commit only appends to the block at the write position.
LEMMA CommitKeeps ==
    ASSUME NEW r, BufferInv(r), r.blk < BLOCKS, NEW rec, RecordFor(r, rec)
    PROVE  Keeps(r, Commit(r, rec))
  <1> DEFINE q == Commit(r, rec)
             end == r.off + rec.size
  <1>1. /\ q.blocks = [r.blocks EXCEPT ![r.blk] = Extended(r, rec)]
        /\ q.blk = IF end = BLOCK_SIZE THEN r.blk + 1 ELSE r.blk
        /\ q.off = IF end = BLOCK_SIZE THEN 0 ELSE end
    BY DEF Commit, Extended
  <1>2. r.off \in Nat /\ rec.size \in Nat \ {0} /\ rec \in Records /\ r.blk \in Nat
    BY BufferRange DEF RecordFor, Records
  <1>3. FlushBlocks(q) = r.blk + 1
    <2>1. CASE end = BLOCK_SIZE
      BY <1>1, <2>1 DEF FlushBlocks
    <2>2. CASE end # BLOCK_SIZE
      BY <1>1, <1>2, <2>2 DEF FlushBlocks
    <2> QED
      BY <2>1, <2>2
  <1>4. Keeps(r, r)
    BY KeepsSelf
  <1>5. ASSUME NEW b \in 0..FlushBlocks(r) - 1
        PROVE  b < FlushBlocks(q) /\ IsPrefix(r.blocks[b].recs, q.blocks[b].recs)
    <2>1. /\ b \in 0..BLOCKS - 1 /\ b \in 0..r.blk
          /\ r.off = 0 => b # r.blk
      BY <1>2, BufferRange DEF FlushBlocks
    <2>2. b < FlushBlocks(q)
      BY <1>2, <1>3, <2>1
    <2>3. CASE b # r.blk
      <3>1. q.blocks[b] = r.blocks[b]
        BY <1>1, <2>1, <2>3 DEF BufferInv, BufferOK
      <3> QED
        BY <1>4, <2>2, <3>1 DEF Keeps
    <2>4. CASE b = r.blk
      <3> DEFINE s == r.blocks[b].recs
      <3>1. q.blocks[b] = Extended(r, rec)
        BY <1>1, <2>1, <2>4 DEF BufferInv, BufferOK
      <3>2. q.blocks[b].recs = Append(s, rec)
        <4>1. r.off # 0
          BY <2>1, <2>4
        <4>2. Extended(r, rec).recs = Append(r.blocks[r.blk].recs, rec)
          BY <4>1 DEF Extended
        <4> QED
          BY <2>4, <3>1, <4>2
      <3>3. s \in Seq(Records)
        BY <2>1, BufferRange
      <3> HIDE DEF s
      <3>4. /\ Append(s, rec) \in Seq(Records)
            /\ Len(s) <= Len(Append(s, rec))
            /\ \A i \in 1..Len(s) : s[i] = Append(s, rec)[i]
        BY <1>2, <3>3
      <3>5. IsPrefix(s, Append(s, rec))
        BY <3>3, <3>4, PrefixMeaning
      <3> QED
        BY <2>2, <3>2, <3>5 DEF s
    <2> QED
      BY <2>3, <2>4
  <1> HIDE DEF q
  <1>6. Keeps(r, q)
    BY <1>5 DEF Keeps
  <1> QED
    BY <1>6 DEF q

\* A frame stored without a flush in between.
LEMMA StoreFrameKeeps ==
    ASSUME NEW r, BufferInv(r), r.blk + 1 < NEXT_BLOCKS, NEW s,
           NEW f \in Frames, Granted(r, GAP), StoreFrame(r, s, f)
    PROVE  Keeps(r, pcan_records')
  <1> DEFINE slot == Request(r, GAP)
             rec  == FrameRecord(slot, f)
  <1>1. GAP \in Nat
    BY RecordsAssumption
  <1>2. /\ BufferInv(slot) /\ slot.blk < BLOCKS /\ slot.off + GAP <= BLOCK_SIZE
        /\ Keeps(r, slot)
    BY <1>1, RequestInv, RequestKeeps
  <1>3. pcan_records' = Commit(slot, rec)
    BY DEF StoreFrame, Put
  <1> HIDE DEF slot
  <1>4. RecordFor(slot, rec)
    BY <1>2, FrameFits
  <1> HIDE DEF rec
  <1>5. BufferInv(Commit(slot, rec)) /\ Keeps(slot, Commit(slot, rec))
    BY <1>2, <1>4, CommitInv, CommitKeeps
  <1> QED
    BY <1>2, <1>3, <1>5, KeepsOn

\* The error record of a time-sync event never needs a second new block: when
\* the time-sync record opened one, both have room in it.
LEMMA TimesyncKeeps ==
    ASSUME IInv, pcan_records.blk + 1 < NEXT_BLOCKS, TimesyncEvent
    PROVE  Keeps(pcan_records, pcan_records')
  <1> DEFINE r     == pcan_records
             slot1 == Request(r, SYNC_SIZE)
             r1    == Commit(slot1, SyncRecord(slot1))
             slot2 == Request(r1, ERROR_SIZE)
             rec   == ErrorRecord(slot2, err \cap err_mask)
  <1>1. /\ BufferInv(r) /\ err \in SUBSET Flags
        /\ SYNC_SIZE \in Nat /\ ERROR_SIZE \in Nat
        /\ r.blk \in Nat /\ BLOCK_SIZE \in Nat /\ GAP \in Nat
    BY BufferRange, RecordsAssumption DEF IInv, TypeOK, SYNC_SIZE, ERROR_SIZE
  <1>2. CASE UNCHANGED pcan_records
    BY <1>1, <1>2, KeepsSelf
  <1>3. ASSUME Granted(r, SYNC_SIZE)
        PROVE  /\ BufferInv(r1) /\ Keeps(r, r1)
               /\ Fits(r1, ERROR_SIZE) \/ r1.blk + 1 < NEXT_BLOCKS
    <2>1. /\ BufferInv(slot1) /\ slot1.blk < BLOCKS
          /\ slot1.off + SYNC_SIZE <= BLOCK_SIZE
          /\ Keeps(r, slot1)
          /\ ~Fits(r, SYNC_SIZE) => slot1.off = HEADER_SIZE
          /\ Fits(r, SYNC_SIZE) => slot1 = r
      BY <1>1, <1>3, RequestInv, RequestKeeps DEF Request
    <2> HIDE DEF slot1
    <2>2. RecordFor(slot1, SyncRecord(slot1))
      BY <2>1, SyncFits
    <2>3. BufferInv(r1) /\ Keeps(slot1, r1)
      BY <2>1, <2>2, CommitInv, CommitKeeps
    <2>4. Keeps(r, r1)
      BY <1>1, <2>1, <2>3, KeepsOn
    <2>5. LET end == slot1.off + SYNC_SIZE
          IN  /\ r1.blk = IF end = BLOCK_SIZE THEN slot1.blk + 1 ELSE slot1.blk
              /\ r1.off = IF end = BLOCK_SIZE THEN 0 ELSE end
      BY DEF Commit, SyncRecord
    <2> HIDE DEF r1, r
    <2>6. CASE Fits(r, SYNC_SIZE)
      <3>1. CASE slot1.off + SYNC_SIZE = BLOCK_SIZE
        <4>1. r1.off = 0 /\ ERROR_SIZE <= BLOCK_SIZE
          BY <1>1, <2>5, <3>1, RecordsAssumption
          DEF SYNC_SIZE, ERROR_SIZE, HEADER_SIZE
        <4>2. Fits(r1, ERROR_SIZE)
          BY <1>1, <4>1 DEF Fits
        <4> QED
          BY <2>3, <2>4, <4>2
      <3>2. CASE slot1.off + SYNC_SIZE # BLOCK_SIZE
        <4>1. r1.blk = r.blk
          BY <2>1, <2>5, <2>6, <3>2
        <4> QED
          BY <2>3, <2>4, <4>1 DEF r
      <3> QED
        BY <3>1, <3>2
    <2>7. CASE ~Fits(r, SYNC_SIZE)
      <3>1. slot1.off + SYNC_SIZE + ERROR_SIZE <= BLOCK_SIZE
        BY <2>1, <2>7, RecordsAssumption, EventAssumption
        DEF SYNC_SIZE, ERROR_SIZE, HEADER_SIZE
      <3>2. Fits(r1, ERROR_SIZE)
        BY <2>1, <2>5, <2>7, <3>1, RecordsAssumption
        DEF Fits, SYNC_SIZE, ERROR_SIZE, HEADER_SIZE
      <3> QED
        BY <2>3, <2>4, <3>2
    <2> QED
      BY <2>6, <2>7
  <1>4. CASE Granted(r, SYNC_SIZE) /\ ~Granted(r1, ERROR_SIZE)
    <2>1. pcan_records' = r1
      BY <1>4 DEF TimesyncEvent
    <2> QED
      BY <1>3, <1>4, <2>1
  <1>5. CASE Granted(r, SYNC_SIZE) /\ Granted(r1, ERROR_SIZE)
    <2>1. pcan_records' = Commit(slot2, rec)
      BY <1>5 DEF TimesyncEvent, Put
    <2>2. /\ BufferInv(r1) /\ Keeps(r, r1) /\ Granted(r1, ERROR_SIZE)
          /\ Fits(r1, ERROR_SIZE) \/ r1.blk + 1 < NEXT_BLOCKS
      BY <1>3, <1>5
    <2> HIDE DEF r1
    <2>3. /\ BufferInv(slot2) /\ slot2.blk < BLOCKS
          /\ slot2.off + ERROR_SIZE <= BLOCK_SIZE
          /\ Keeps(r1, slot2)
      BY <1>1, <2>2, RequestInv, RequestKeeps
    <2> HIDE DEF slot2
    <2>4. RecordFor(slot2, rec)
      BY <1>1, <2>3, ErrorFits
    <2> HIDE DEF rec
    <2>5. BufferInv(Commit(slot2, rec)) /\ Keeps(slot2, Commit(slot2, rec))
      BY <2>3, <2>4, CommitInv, CommitKeeps
    <2>6. Keeps(r, slot2)
      BY <1>1, <2>2, <2>3, KeepsOn
    <2>7. Keeps(r, Commit(slot2, rec))
      BY <1>1, <2>3, <2>5, <2>6, KeepsOn
    <2> QED
      BY <2>1, <2>7
  <1> QED
    BY <1>2, <1>4, <1>5 DEF TimesyncEvent

\* While the 8-bit offset reaches further blocks the code never flushes a
\* buffer to make room, for it has at least as many blocks as that.
LEMMA RoomForFrame ==
    ASSUME NEXT_BLOCKS <= BLOCKS, NEW r, BufferInv(r), r.blk + 1 < NEXT_BLOCKS
    PROVE  Granted(r, GAP)
  <1>1. /\ r.blk \in Nat /\ BLOCKS \in Nat /\ NEXT_BLOCKS \in Nat
        /\ BLOCK_SIZE \in Nat /\ GAP \in Nat /\ HEADER_SIZE + GAP <= BLOCK_SIZE
    BY BufferRange, RecordsAssumption
  <1>2. NextBlock(r) = r.blk + 1
    BY <1>1 DEF NextBlock
  <1> QED
    BY <1>1, <1>2 DEF Granted, HEADER_SIZE

\* Without the wrap of the 8-bit offset nothing in the buffer is overwritten:
\* a record stays until a flush, for every geometry of the buffer.
THEOREM RecordsStay ==
    ASSUME NEXT_BLOCKS <= BLOCKS
    PROVE  Spec => RecordsKept
  <1>1. ASSUME IInv, [Next]_vars, pcan_records.blk + 1 < NEXT_BLOCKS
        PROVE  Flush \/ Keeps(pcan_records, pcan_records')
    <2>1. BufferInv(pcan_records)
      BY <1>1 DEF IInv
    <2>2. CASE UNCHANGED pcan_records
      BY <2>1, <2>2, KeepsSelf
    <2>3. ASSUME NEW f \in Frames, RxFrame(f)
          PROVE  Keeps(pcan_records, pcan_records')
      <3>1. Granted(pcan_records, GAP)
        BY <1>1, <2>1, RoomForFrame
      <3>2. StoreFrame(pcan_records, unsent, f)
        BY <2>3, <3>1 DEF RxFrame
      <3> QED
        BY <1>1, <2>1, <3>1, <3>2, StoreFrameKeeps
    <2>4. CASE Timesync \/ BusOn
      BY <1>1, <2>4, TimesyncKeeps DEF Timesync, BusOn
    <2>5. CASE \/ BusOff \/ UNCHANGED vars
               \/ \E m \in Masks : SetErrMask(m)
               \/ \E e \in {"BUS_OFF", "TXFULL"} : RaiseError(e)
      BY <2>2, <2>5 DEF BusOff, SetErrMask, RaiseError, vars
    <2> QED
      BY <1>1, <2>3, <2>4, <2>5 DEF Next
  <1>2. IInv /\ [Next]_vars =>
          [pcan_records.blk + 1 < NEXT_BLOCKS =>
             \/ Flush
             \/ \A b \in 0..FlushBlocks(pcan_records) - 1 :
                  /\ b < FlushBlocks(pcan_records')
                  /\ IsPrefix(pcan_records.blocks[b].recs,
                              pcan_records'.blocks[b].recs)]_vars
    BY <1>1 DEF Keeps
  <1> QED
    BY InitIInv, NextIInv, <1>2, PTL DEF Spec, RecordsKept
------------------------------------------------------------------------------
(* Blocks without a header *)

\* A position at a block boundary lies behind a full block, and so does every
\* block without a header.
HeadersBuffer(r) ==
    /\ r.off = 0 => r.blk > 0 /\ Full(r, r.blk - 1)
    /\ \A b \in 0..FlushBlocks(r) - 1 :
         ~r.blocks[b].hdr => b > 0 /\ Full(r, b - 1)

\* The first block has a header after a reset.
LEMMA ResetHeaders ==
    ASSUME NEW r, BufferInv(r)
    PROVE  HeadersBuffer(Reset(r))
  <1>1. 0 \in 0..BLOCKS - 1 /\ r.blocks \in [0..BLOCKS - 1 -> Block]
    BY RecordsAssumption DEF BufferInv, BufferOK
  <1>2. Reset(r).blocks[0].hdr
    BY <1>1 DEF Reset, EmptyBlock
  <1>3. Reset(r).blk = 0 /\ Reset(r).off # 0
    BY DEF Reset, HEADER_SIZE
  <1>4. 0..FlushBlocks(Reset(r)) - 1 = {0}
    BY <1>3 DEF FlushBlocks
  <1> QED
    BY <1>2, <1>3, <1>4 DEF HeadersBuffer

\* A block that a request opens gets one.
LEMMA RequestHeaders ==
    ASSUME NEW r, BufferInv(r), HeadersBuffer(r), NEW size \in Nat,
           Granted(r, size)
    PROVE  HeadersBuffer(Request(r, size))
  <1>1. CASE Fits(r, size)
    BY <1>1 DEF Request
  <1>2. CASE ~Fits(r, size)
    <2> DEFINE q == Request(r, size)
               n == NextBlock(r)
    <2>1. /\ r.blk \in Nat /\ r.off \in Nat /\ NEXT_BLOCKS \in Nat \ {0}
          /\ BLOCK_SIZE \in Nat /\ BLOCKS \in Nat
          /\ r.blocks \in [0..BLOCKS - 1 -> Block]
      BY RecordsAssumption DEF BufferInv, BufferOK
    <2>2. n \in 0..BLOCKS - 1
      BY <1>2, <2>1, NextBlockRange DEF Granted, BufferInv
    <2>3. n <= r.blk + 1
      <3>1. ASSUME r.blk + 1 < NEXT_BLOCKS PROVE NextBlock(r) = r.blk + 1
        <4>1. r.blk + 1 \in Nat /\ NEXT_BLOCKS \in Nat
          BY <2>1
        <4> QED
          BY <3>1, <4>1, SMTT(20) DEF NextBlock
      <3>2. NextBlock(r) \in 0..NEXT_BLOCKS - 1
        BY NextBlockRange DEF BufferInv
      <3> QED
        BY <2>1, <3>1, <3>2
    <2>4. r.off # 0
      BY <1>2, <2>1 DEF Granted, Fits, HEADER_SIZE
    <2>5. /\ q.blk = n /\ q.off = HEADER_SIZE /\ q.off # 0
          /\ q.blocks[n].hdr
          /\ \A c \in 0..n - 1 : q.blocks[c] = r.blocks[c]
      BY <1>2, <2>1, <2>2 DEF Request, EmptyBlock, HEADER_SIZE
    <2> HIDE DEF q, n
    <2>6. FlushBlocks(r) = r.blk + 1 /\ FlushBlocks(q) = n + 1
      BY <2>4, <2>5 DEF FlushBlocks
    <2>7. ASSUME NEW c \in 0..FlushBlocks(q) - 1, ~q.blocks[c].hdr
          PROVE  c > 0 /\ Full(q, c - 1)
      <3>1. c \in 0..n - 1
        BY <2>2, <2>5, <2>6, <2>7
      <3>2. c \in 0..FlushBlocks(r) - 1 /\ ~r.blocks[c].hdr
        BY <2>1, <2>2, <2>3, <2>5, <2>6, <2>7, <3>1
      <3>3. c > 0 /\ Full(r, c - 1)
        BY <3>2 DEF HeadersBuffer
      <3>4. c - 1 \in 0..n - 1
        BY <2>2, <3>1, <3>3
      <3> QED
        BY <2>5, <3>3, <3>4 DEF Full
    <2>8. HeadersBuffer(q)
      BY <2>5, <2>7 DEF HeadersBuffer
    <2> QED
      BY <2>8 DEF q
  <1> QED
    BY <1>1, <1>2

\* A record written where a header should be lies behind a full block, and a
\* record that ends with its block fills it.
LEMMA CommitHeaders ==
    ASSUME NEW r, BufferInv(r), HeadersBuffer(r), r.blk < BLOCKS,
           NEW rec, RecordFor(r, rec)
    PROVE  HeadersBuffer(Commit(r, rec))
  <1> DEFINE q == Commit(r, rec)
             end == r.off + rec.size
  <1>1. /\ r.blk \in 0..BLOCKS - 1 /\ r.off \in Nat /\ BLOCKS \in Nat
        /\ r.blocks \in [0..BLOCKS - 1 -> Block] /\ end \in Nat \ {0}
    BY RecordsAssumption DEF BufferInv, BufferOK, RecordFor, Records
  <1>2. /\ q.blocks = [r.blocks EXCEPT ![r.blk] = Extended(r, rec)]
        /\ q.blk = IF end = BLOCK_SIZE THEN r.blk + 1 ELSE r.blk
        /\ q.off = IF end = BLOCK_SIZE THEN 0 ELSE end
    BY DEF Commit, Extended
  <1>3. End(Extended(r, rec)) = end
    BY ExtendedBlock
  <1>4. Extended(r, rec).hdr = (r.off # 0 /\ r.blocks[r.blk].hdr)
    <2>1. r.blocks[r.blk].hdr \in BOOLEAN
      BY <1>1 DEF Block
    <2> QED
      BY <2>1 DEF Extended
  <1> HIDE DEF q, end
  <1>5. /\ q.blocks[r.blk] = Extended(r, rec)
        /\ \A c \in 0..BLOCKS - 1 : c # r.blk => q.blocks[c] = r.blocks[c]
    BY <1>1, <1>2
  <1>6. q.off = 0 => q.blk > 0 /\ Full(q, q.blk - 1)
    BY <1>1, <1>2, <1>3, <1>5 DEF Full
  <1>7. FlushBlocks(q) = r.blk + 1
    BY <1>1, <1>2 DEF FlushBlocks
  <1>8. ASSUME NEW c \in 0..FlushBlocks(q) - 1, ~q.blocks[c].hdr
        PROVE  c > 0 /\ Full(q, c - 1)
    <2>1. c \in 0..r.blk
      BY <1>1, <1>7
    <2>2. c > 0 /\ Full(r, c - 1)
      <3>1. CASE c = r.blk /\ r.off = 0
        BY <3>1 DEF HeadersBuffer
      <3>2. CASE ~(c = r.blk /\ r.off = 0)
        <4>1. c \in 0..FlushBlocks(r) - 1
          BY <1>1, <2>1, <3>2 DEF FlushBlocks
        <4>2. ~r.blocks[c].hdr
          <5>1. CASE c = r.blk
            BY <1>4, <1>5, <1>8, <3>2, <5>1
          <5>2. CASE c # r.blk
            BY <1>1, <1>5, <1>8, <2>1, <5>2
          <5> QED
            BY <5>1, <5>2
        <4> QED
          BY <4>1, <4>2 DEF HeadersBuffer
      <3> QED
        BY <3>1, <3>2
    <2>3. c - 1 \in 0..BLOCKS - 1 /\ c - 1 # r.blk
      BY <1>1, <2>1, <2>2
    <2> QED
      BY <1>5, <2>2, <2>3 DEF Full
  <1>9. HeadersBuffer(q)
    BY <1>6, <1>8 DEF HeadersBuffer
  <1> QED
    BY <1>9 DEF q

LEMMA StoreFrameHeaders ==
    ASSUME NEW r, BufferInv(r), HeadersBuffer(r), NEW s, NEW f \in Frames,
           Granted(r, GAP), StoreFrame(r, s, f)
    PROVE  HeadersBuffer(pcan_records')
  <1> DEFINE slot == Request(r, GAP)
             rec  == FrameRecord(slot, f)
  <1>1. GAP \in Nat
    BY RecordsAssumption
  <1>2. /\ BufferInv(slot) /\ slot.blk < BLOCKS /\ slot.off + GAP <= BLOCK_SIZE
        /\ HeadersBuffer(slot)
    BY <1>1, RequestInv, RequestHeaders
  <1>3. pcan_records' = Commit(slot, rec)
    BY DEF StoreFrame, Put
  <1> HIDE DEF slot
  <1>4. RecordFor(slot, rec)
    BY <1>2, FrameFits
  <1> HIDE DEF rec
  <1> QED
    BY <1>2, <1>3, <1>4, CommitHeaders

LEMMA TimesyncHeaders ==
    ASSUME IInv, HeadersBuffer(pcan_records), TimesyncEvent
    PROVE  HeadersBuffer(pcan_records')
  <1> DEFINE slot1 == Request(pcan_records, SYNC_SIZE)
             r1    == Commit(slot1, SyncRecord(slot1))
             slot2 == Request(r1, ERROR_SIZE)
             rec   == ErrorRecord(slot2, err \cap err_mask)
  <1>1. /\ BufferInv(pcan_records) /\ err \in SUBSET Flags
        /\ SYNC_SIZE \in Nat /\ ERROR_SIZE \in Nat
    BY DEF IInv, TypeOK, SYNC_SIZE, ERROR_SIZE
  <1>2. CASE UNCHANGED pcan_records
    BY <1>2
  <1>3. ASSUME Granted(pcan_records, SYNC_SIZE)
        PROVE  BufferInv(r1) /\ HeadersBuffer(r1)
    <2>1. /\ BufferInv(slot1) /\ slot1.blk < BLOCKS
          /\ slot1.off + SYNC_SIZE <= BLOCK_SIZE
          /\ HeadersBuffer(slot1)
      BY <1>1, <1>3, RequestInv, RequestHeaders
    <2> HIDE DEF slot1
    <2>2. RecordFor(slot1, SyncRecord(slot1))
      BY <2>1, SyncFits
    <2> QED
      BY <2>1, <2>2, CommitInv, CommitHeaders
  <1>4. CASE Granted(pcan_records, SYNC_SIZE) /\ ~Granted(r1, ERROR_SIZE)
    <2>1. pcan_records' = r1
      BY <1>4 DEF TimesyncEvent
    <2> QED
      BY <1>3, <1>4, <2>1
  <1>5. CASE Granted(pcan_records, SYNC_SIZE) /\ Granted(r1, ERROR_SIZE)
    <2>1. pcan_records' = Commit(slot2, rec)
      BY <1>5 DEF TimesyncEvent, Put
    <2>2. BufferInv(r1) /\ HeadersBuffer(r1) /\ Granted(r1, ERROR_SIZE)
      BY <1>3, <1>5
    <2> HIDE DEF r1
    <2>3. /\ BufferInv(slot2) /\ slot2.blk < BLOCKS
          /\ slot2.off + ERROR_SIZE <= BLOCK_SIZE
          /\ HeadersBuffer(slot2)
      BY <1>1, <2>2, RequestInv, RequestHeaders
    <2> HIDE DEF slot2
    <2>4. RecordFor(slot2, rec)
      BY <1>1, <2>3, ErrorFits
    <2> HIDE DEF rec
    <2> QED
      BY <2>1, <2>3, <2>4, CommitHeaders
  <1> QED
    BY <1>2, <1>4, <1>5 DEF TimesyncEvent

\* A flush hands over blocks whose records lie back to back inside them, and a
\* header is missing only behind a block filled to its last byte, for every
\* size of block, number of blocks and reach of the 8-bit offset.
THEOREM EveryBlockLaidOut == Spec => []BlocksLaidOut
  <1> DEFINE Headed == HeadersBuffer(pcan_records)
  <1>1. Init => Headed
    <2> DEFINE blank == [hdr |-> FALSE, recs |-> <<>>]
               zero == [blocks |-> [b \in 0..BLOCKS - 1 |-> blank],
                        blk |-> 0, off |-> 0, ts_counter |-> 0]
    <2> SUFFICES ASSUME Init PROVE HeadersBuffer(Reset(zero))
      BY DEF Init
    <2>1. 0 \in 0..BLOCKS - 1
      BY RecordsAssumption
    <2>2. /\ Reset(zero).blocks[0].hdr
          /\ Reset(zero).blk = 0 /\ Reset(zero).off # 0
      BY <2>1 DEF Reset, EmptyBlock, HEADER_SIZE
    <2>3. 0..FlushBlocks(Reset(zero)) - 1 = {0}
      BY <2>2 DEF FlushBlocks
    <2> QED
      BY <2>2, <2>3 DEF HeadersBuffer
  <1>2. IInv /\ Headed /\ [Next]_vars => Headed'
    <2> SUFFICES ASSUME IInv, Headed, [Next]_vars
                 PROVE  HeadersBuffer(pcan_records')
      OBVIOUS
    <2>1. BufferInv(pcan_records) /\ HeadersBuffer(pcan_records)
      BY DEF IInv
    <2>2. BufferInv(Reset(pcan_records)) /\ HeadersBuffer(Reset(pcan_records))
      BY <2>1, ResetInv, ResetHeaders
    <2>3. ASSUME NEW f \in Frames, RxFrame(f)
          PROVE  HeadersBuffer(pcan_records')
      <3>1. CASE Granted(pcan_records, GAP) /\ StoreFrame(pcan_records, unsent, f)
        BY <2>1, <3>1, StoreFrameHeaders
      <3>2. CASE /\ Granted(Reset(pcan_records), GAP)
                 /\ StoreFrame(Reset(pcan_records), <<>>, f)
        BY <2>2, <3>2, StoreFrameHeaders
      <3>3. CASE pcan_records' \in {pcan_records, Reset(pcan_records)}
        BY <2>1, <2>2, <3>3
      <3> QED
        BY <2>3, <3>1, <3>2, <3>3 DEF RxFrame
    <2>4. CASE Timesync \/ BusOn
      BY <2>1, <2>4, TimesyncHeaders DEF Timesync, BusOn
    <2>5. CASE Flush
      BY <2>2, <2>5 DEF Flush
    <2>6. CASE \/ BusOff \/ UNCHANGED vars
               \/ \E m \in Masks : SetErrMask(m)
               \/ \E e \in {"BUS_OFF", "TXFULL"} : RaiseError(e)
      BY <2>1, <2>6 DEF BusOff, SetErrMask, RaiseError, vars
    <2> QED
      BY <2>3, <2>4, <2>5, <2>6 DEF Next
  <1>3. IInv /\ Headed => BlocksLaidOut
    BY DEF IInv, BufferInv, HeadersBuffer, HeaderOrFull, BlocksLaidOut
  <1> HIDE DEF Headed
  <1> QED
    BY InitIInv, NextIInv, <1>1, <1>2, <1>3, PTL DEF Spec
==============================================================================
