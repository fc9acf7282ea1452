----------------------------- MODULE EthRx_proofs -----------------------------
(***************************************************************************)
(* Proofs about EthRx: the receive half of the bridge is well typed, every *)
(* buffer has one owner, the main loop looks at one frame at a time,       *)
(* no frame waits for another to be looked at, and the ring between the    *)
(* interrupt and the main loop is a bounded queue.                         *)
(***************************************************************************)
EXTENDS EthRx, BufferQueues

\* PoolAccounted, and there are as many filled and armed buffers as
\* descriptors at most, those just read included.
Pool ==
    /\ PoolAccounted
    /\ Len(armed) + Len(ready) <= ETH_RX_DESC_CNT
    /\ isr = "read" =>
         Len(rx_frame_bufs) + Len(armed) + Len(ready) <= ETH_RX_DESC_CNT

\* SlotStable, and the frame the main loop has seen stays in the ring.
Seen ==
    /\ SlotStable
    /\ pc # "pending" => frame_head # frame_tail

\* Descriptors hold frames in order of arrival; a good frame is alone in its
\* descriptor, and the rest of a long one is the next to come.
InOrder ==
    /\ rest # 0 => rest = arrived
    /\ \A i \in 1 .. Len(ready) : ready[i].frame <= arrived
    /\ \A i \in 1 .. Len(ready), j \in 1 .. Len(ready) : i < j =>
         /\ ready[i].frame <= ready[j].frame
         /\ ready[j].kind = "good" => ready[i].frame < ready[j].frame
    /\ \A i \in 1 .. Len(ready) :
         /\ ready[i].kind = "good" => ready[i].last
         /\ ~ready[i].last => IF i < Len(ready)
                              THEN ready[i + 1].kind = "long"
                              ELSE rest # 0

\* The frame ReadData has come to the end of is older than those that are
\* ready, and if it is good it is the one that was copied into one buffer.
Reading ==
    /\ isr \in {"idle", "read"} => got = None
    /\ isr = "deliver" => got # None
    /\ isr = "read" /\ rx_frame_bufs # <<>> => pRxStart # 0
    /\ pRxStart # 0 /\ got = None =>
         IF ready # <<>> THEN ready[1].kind = "long" ELSE rest # 0
    /\ got # None =>
         /\ got.frame <= arrived
         /\ \A i \in 1 .. Len(ready) :
              /\ got.frame <= ready[i].frame
              /\ ready[i].kind = "good" => got.frame < ready[i].frame
         /\ got.kind = "good" =>
              /\ last < got.frame
              /\ pRxStart = got.frame
              /\ Len(rx_frame_bufs) = 1

\* Every good frame that is ready is newer than those seen.
Newer ==
    /\ last <= arrived
    /\ \A i \in 1 .. Len(ready) : ready[i].kind = "good" => last < ready[i].frame

IInv == TypeOK /\ Pool /\ Seen /\ InOrder /\ Reading /\ Newer

------------------------------------------------------------------------------
(* The ring *)

LEMMA SuccType ==
    ASSUME NEW i \in Slots
    PROVE  /\ Succ(i) \in Slots
           /\ Succ(i) = IF i = ETH_FRAME_RING_SIZE - 1 THEN 0 ELSE i + 1
<1> USE RxAssumption
<1>1. CASE i = ETH_FRAME_RING_SIZE - 1
  BY <1>1 DEF Succ, Slots
<1>2. CASE i # ETH_FRAME_RING_SIZE - 1
  BY <1>2 DEF Succ, Slots
<1> QED
  BY <1>1, <1>2

LEMMA QueuedType ==
    ASSUME frame_head \in Slots, frame_tail \in Slots
    PROVE  /\ Queued \in Slots
           /\ (Queued = 0 <=> frame_head = frame_tail)
           /\ (Queued = ETH_FRAME_RING_SIZE - 1 <=> RingFull)
           /\ \A k \in Slots : Slot(k) \in Slots
           /\ Slot(0) = frame_tail /\ Slot(Queued) = frame_head
           /\ \A k \in Slots : k < Queued => Slot(k) # frame_head
BY RxAssumption, SuccType DEF Queued, RingFull, Slot, Slots

------------------------------------------------------------------------------
(* Initial states *)

LEMMA InitIInv == Init => IInv
<1> SUFFICES ASSUME Init PROVE IInv
  OBVIOUS
<1> USE RxAssumption
<1>1. /\ rx_pool_busy \subseteq Bufs /\ armed \in Seq(Bufs)
      /\ ready \in Seq(Descriptors) /\ rx_frame_bufs \in Seq(Bufs)
      /\ 0 \in Slots
  BY DEF Init, Bufs, Slots
<1>2. TypeOK
  BY <1>1 DEF Init, TypeOK
<1>3. /\ Range(armed) = rx_pool_busy /\ IsInjective(armed) /\ Filled = {}
      /\ Len(armed) = ETH_RX_DESC_CNT
  BY DEF Init, Range, IsInjective, Filled
<1>4. Pool
  BY <1>1, <1>3 DEF Init, Pool, PoolAccounted, InHand
<1> QED
  BY <1>2, <1>4 DEF Init, IInv, Seen, SlotStable, InOrder, Reading, Newer

------------------------------------------------------------------------------
(* Types *)

LEMMA NextType == IInv /\ [Next]_vars => TypeOK'
<1> SUFFICES ASSUME IInv, [Next]_vars PROVE TypeOK'
  OBVIOUS
<1> USE RxAssumption DEF dmaVars, isrVars, headVars, mainVars
<1>0. TypeOK
  BY DEF IInv
<1>1. ASSUME NEW f \in Frames, NEW kind \in Kinds, NEW end \in BOOLEAN,
             Fill(f, kind, end), rest' \in 0..MaxFrames,
             arrived' \in 0..MaxFrames
      PROVE  TypeOK'
  <2> DEFINE d == [buf |-> Head(armed), frame |-> f, kind |-> kind, last |-> end]
  <2>1. /\ armed \in Seq(Bufs) /\ ready \in Seq(Descriptors) /\ armed # <<>>
        /\ irq \in BOOLEAN
    BY <1>0, <1>1 DEF TypeOK, Fill
  <2>2. Head(armed) \in Bufs /\ Tail(armed) \in Seq(Bufs)
    BY <2>1, HeadIn
  <2>3. d \in Descriptors
    BY <2>2 DEF Descriptors
  <2>4. ready' = Append(ready, d)
    BY <1>1 DEF Fill
  <2>5. ready' \in Seq(Descriptors)
    BY <2>1, <2>3, <2>4, AppendType
  <2>6. armed' \in Seq(Bufs)
    BY <1>1, <2>2 DEF Fill
  <2>7. irq' \in BOOLEAN
    BY <1>1, Zenon DEF Fill
  <2> QED
    BY <1>0, <1>1, <2>5, <2>6, <2>7 DEF Fill, TypeOK
<1>2. ASSUME NEW kind \in Kinds, Arrive(kind) PROVE TypeOK'
  <2>1. arrived + 1 \in Frames /\ (kind # "long") \in BOOLEAN
    BY <1>0, <1>2, SMTT(30) DEF Arrive, TypeOK, Frames
  <2>2. arrived' \in 0..MaxFrames /\ rest' \in 0..MaxFrames
    BY <1>2, <2>1 DEF Arrive, Frames
  <2>3. Fill(arrived + 1, kind, kind # "long")
    BY <1>2 DEF Arrive
  <2> QED
    BY <1>1, <2>1, <2>2, <2>3, Zenon
<1>3. CASE ArriveRest
  <2>1. /\ rest \in Frames /\ "long" \in Kinds
        /\ arrived' \in 0..MaxFrames /\ rest' \in 0..MaxFrames
    BY <1>0, <1>3 DEF ArriveRest, TypeOK, Frames, Kinds
  <2>2. Fill(rest, "long", TRUE)
    BY <1>3 DEF ArriveRest
  <2> QED
    BY <1>1, <2>1, <2>2, Zenon
<1>4. CASE Interrupt
  <2>0. irq' = FALSE /\ isr' = "read" /\ rx_frame_bufs' = <<>>
    BY <1>4 DEF Interrupt
  <2>1. irq' \in BOOLEAN
    BY <2>0, Zenon
  <2>2. rx_frame_bufs' \in Seq(Bufs) /\ isr' \in {"idle", "read", "build", "deliver"}
    BY <2>0
  <2> QED
    BY <1>0, <1>4, <2>1, <2>2 DEF Interrupt, TypeOK
<1>5. CASE Link
  <2>1. /\ ready \in Seq(Descriptors) /\ ready # <<>>
        /\ rx_frame_bufs \in Seq(Bufs) /\ pRxStart \in 0..MaxFrames
        /\ got \in Descriptors \cup {None}
    BY <1>0, <1>5 DEF TypeOK, Link
  <2>2. Head(ready) \in Descriptors /\ Tail(ready) \in Seq(Descriptors)
    BY <2>1, HeadIn
  <2>3. Head(ready).buf \in Bufs /\ Head(ready).frame \in Frames
    BY <2>2 DEF Descriptors
  <2>4. /\ rx_frame_bufs' = Append(rx_frame_bufs, Head(ready).buf)
           \/ rx_frame_bufs' = rx_frame_bufs
        /\ pRxStart' = Head(ready).frame \/ pRxStart' = pRxStart
        /\ ready' = Tail(ready)
        /\ got' = got \/ got' = Head(ready)
        /\ isr' = isr \/ isr' = "build"
    BY <1>5, Zenon DEF Link
  <2>5. rx_frame_bufs' \in Seq(Bufs)
    BY <2>1, <2>3, <2>4, AppendType
  <2>6. pRxStart' \in 0..MaxFrames
    BY <2>1, <2>3, <2>4 DEF Frames
  <2>7. ready' \in Seq(Descriptors) /\ got' \in Descriptors \cup {None}
    BY <2>1, <2>2, <2>4
  <2>8. isr' \in {"idle", "read", "build", "deliver"}
    BY <1>0, <2>4 DEF TypeOK
  <2>9. /\ UNCHANGED <<armed, rest, irq, arrived, parked>>
        /\ UNCHANGED <<rx_pool_busy, headVars, mainVars>>
    BY <1>5 DEF Link
  <2> QED
    BY <1>0, <2>5, <2>6, <2>7, <2>8, <2>9 DEF TypeOK
<1>6. CASE NoMore
  BY <1>0, <1>6 DEF NoMore, TypeOK
<1>7. CASE Allocate
  <2>1. PICK b \in Bufs \ rx_pool_busy :
             /\ rx_pool_busy' = rx_pool_busy \cup {b}
             /\ armed' = Append(armed, b)
    BY <1>7 DEF Allocate
  <2>2. armed' \in Seq(Bufs)
    BY <1>0, <2>1, AppendType DEF TypeOK
  <2> QED
    BY <1>0, <1>7, <2>1, <2>2 DEF Allocate, TypeOK
<1>8. CASE Return
  <2>1. Range(rx_frame_bufs) \subseteq Bufs
    BY <1>0 DEF TypeOK, Range
  <2> QED
    BY <1>0, <1>8, <2>1 DEF Return, TypeOK
<1>9. CASE Deliver
  <2>1. /\ frame_ring' \in [Slots -> 0..MaxFrames]
        /\ frame_head' \in Slots
    BY <1>0, <1>9, SuccType DEF Deliver, Push, TypeOK
  <2>2. last' \in 0..MaxFrames
    BY <1>0, <1>9 DEF Deliver, Reading, IInv, TypeOK, Descriptors, Frames
  <2>3. /\ isr' = "read" /\ rx_frame_bufs' = <<>> /\ pRxStart' = 0
        /\ got' = None
        /\ rx_pool_busy' = rx_pool_busy \ Range(rx_frame_bufs)
    BY <1>9 DEF Deliver, NextRound, Release
  <2>4. /\ rx_pool_busy' \subseteq Bufs /\ rx_frame_bufs' \in Seq(Bufs)
        /\ got' \in Descriptors \cup {None} /\ pRxStart' \in 0..MaxFrames
        /\ isr' \in {"idle", "read", "build", "deliver"}
    <3>1. rx_pool_busy \subseteq Bufs
      BY <1>0 DEF TypeOK
    <3> QED
      BY <2>3, <3>1
  <2> QED
    BY <1>0, <1>9, <2>1, <2>2, <2>4 DEF Deliver, TypeOK
<1>10. CASE Main
  <2>1. Succ(frame_tail) \in Slots /\ frame_ring[frame_tail] \in 0..MaxFrames
    BY <1>0, SuccType DEF TypeOK
  <2>2. CASE MainPending \/ MainLen \/ MainCopied \/ MainPop
    BY <1>0, <2>1, <2>2, SMTT(30)
    DEF MainPending, MainLen, MainCopied, MainPop, TypeOK
  <2>3. ASSUME NEW room \in BOOLEAN, MainCanXmit(room) PROVE TypeOK'
    <3>1. /\ pc' \in {"copy", "pending"} /\ len' \in {len, 0}
          /\ isr = isr
      BY <2>3, Zenon DEF MainCanXmit
    <3> QED
      BY <1>0, <2>3, <3>1 DEF MainCanXmit, TypeOK
  <2> QED
    BY <1>10, <2>2, <2>3 DEF Main
<1>11. CASE UNCHANGED vars
  BY <1>0, <1>11 DEF vars, TypeOK
<1> QED
  BY <1>2, <1>3, <1>4, <1>5, <1>6, <1>7, <1>8, <1>9, <1>10, <1>11
  DEF Next, Dma, Isr
------------------------------------------------------------------------------
(* The buffers *)

LEMMA FilledTail ==
    ASSUME ready \in Seq(Descriptors), ready # <<>>, ready' = Tail(ready),
           \A i, j \in DOMAIN ready : ready[i].buf = ready[j].buf => i = j
    PROVE  /\ Head(ready).buf \in Filled
           /\ Filled' = Filled \ {Head(ready).buf}
           /\ \A i, j \in DOMAIN ready' : ready'[i].buf = ready'[j].buf => i = j
           /\ Len(ready') = Len(ready) - 1 /\ Len(ready) \in Nat
<1> DEFINE s == [i \in 1 .. Len(ready) |-> ready[i].buf]
           t == [i \in 1 .. Len(ready) - 1 |-> ready[i + 1].buf]
<1>1. /\ Len(ready) \in Nat /\ Len(ready) >= 1 /\ DOMAIN ready = 1 .. Len(ready)
      /\ Head(ready) = ready[1] /\ Len(ready') = Len(ready) - 1
      /\ DOMAIN ready' = 1 .. Len(ready) - 1
      /\ \A i \in 1 .. Len(ready) - 1 : ready'[i] = ready[i + 1]
  OBVIOUS
<1>2. /\ 1 \in DOMAIN ready
      /\ \A i \in DOMAIN ready' : i + 1 \in DOMAIN ready /\ i + 1 # 1
      /\ \A j \in DOMAIN ready : j # 1 => j - 1 \in DOMAIN ready'
                                       /\ ready[j] = ready'[j - 1]
  BY <1>1
<1>3. Head(ready).buf \in Filled
  BY <1>1, <1>2 DEF Filled
<1>4. \A i, j \in DOMAIN ready' : ready'[i].buf = ready'[j].buf => i = j
  BY <1>1, <1>2
<1>5. ASSUME NEW b \in Filled' PROVE b \in Filled \ {Head(ready).buf}
  <2>1. PICK i \in DOMAIN ready' : b = ready'[i].buf
    BY <1>5 DEF Filled
  <2> QED
    BY <1>1, <1>2, <2>1 DEF Filled
<1>6. ASSUME NEW b \in Filled \ {Head(ready).buf} PROVE b \in Filled'
  <2>1. PICK j \in DOMAIN ready : b = ready[j].buf
    BY <1>6 DEF Filled
  <2> QED
    BY <1>1, <1>2, <2>1, ZenonT(40) DEF Filled
<1> QED
  BY <1>1, <1>3, <1>4, <1>5, <1>6

LEMMA FilledAppend ==
    ASSUME ready \in Seq(Descriptors), NEW d \in Descriptors,
           ready' = Append(ready, d)
    PROVE  /\ Filled' = Filled \cup {d.buf}
           /\ /\ d.buf \notin Filled
              /\ \A i, j \in DOMAIN ready : ready[i].buf = ready[j].buf => i = j
              => \A i, j \in DOMAIN ready' : ready'[i].buf = ready'[j].buf => i = j
           /\ Len(ready') = Len(ready) + 1 /\ Len(ready) \in Nat
<1>1. /\ Len(ready) \in Nat /\ Len(ready') = Len(ready) + 1
      /\ ready'[Len(ready) + 1] = d
      /\ DOMAIN ready = 1 .. Len(ready) /\ DOMAIN ready' = 1 .. Len(ready) + 1
      /\ \A i \in DOMAIN ready : ready'[i] = ready[i]
  OBVIOUS
<1>2. DOMAIN ready' = DOMAIN ready \cup {Len(ready) + 1}
      /\ Len(ready) + 1 \notin DOMAIN ready
  BY <1>1
<1>3. Filled' = Filled \cup {d.buf}
  BY <1>1, <1>2 DEF Filled
<1>4. ASSUME d.buf \notin Filled,
             \A i, j \in DOMAIN ready : ready[i].buf = ready[j].buf => i = j
      PROVE  \A i, j \in DOMAIN ready' : ready'[i].buf = ready'[j].buf => i = j
  BY <1>1, <1>2, <1>4 DEF Filled
<1> QED
  BY <1>1, <1>3, <1>4

LEMMA NextPool == IInv /\ [Next]_vars => Pool'
<1> SUFFICES ASSUME IInv, [Next]_vars PROVE Pool'
  OBVIOUS
<1> USE RxAssumption DEF dmaVars, isrVars, headVars, mainVars
<1>0. /\ armed \in Seq(Bufs) /\ ready \in Seq(Descriptors)
      /\ rx_frame_bufs \in Seq(Bufs)
      /\ Len(armed) \in Nat /\ Len(ready) \in Nat /\ Len(rx_frame_bufs) \in Nat
      /\ isr \in {"idle", "read", "build", "deliver"}
      /\ Pool
  BY DEF IInv, TypeOK
<1>1. ASSUME NEW f \in Frames, NEW kind \in Kinds, NEW end \in BOOLEAN,
             Fill(f, kind, end)
      PROVE  Pool'
  <2> DEFINE d == [buf |-> Head(armed), frame |-> f, kind |-> kind, last |-> end]
  <2>1. /\ armed # <<>> /\ armed' = Tail(armed) /\ ready' = Append(ready, d)
        /\ UNCHANGED <<rx_pool_busy, isrVars>>
    BY <1>1 DEF Fill
  <2>2. Head(armed) \in Bufs /\ Len(armed') = Len(armed) - 1
    BY <1>0, <2>1
  <2>3. d \in Descriptors /\ d.buf = Head(armed)
    BY <2>2 DEF Descriptors
  <2> HIDE DEF d
  <2>4. /\ Head(armed) \in Range(armed)
        /\ Range(armed') = Range(armed) \ {Head(armed)}
        /\ IsInjective(armed')
    BY <1>0, <2>1, TailRange DEF Pool, PoolAccounted
  <2>5. Head(armed) \notin Filled
    BY <1>0, <2>4 DEF Pool, PoolAccounted
  <2>6. /\ Filled' = Filled \cup {Head(armed)}
        /\ \A i, j \in DOMAIN ready' : ready'[i].buf = ready'[j].buf => i = j
        /\ Len(ready') = Len(ready) + 1
    BY <1>0, <2>1, <2>3, <2>5, FilledAppend, SMTT(30) DEF Pool, PoolAccounted
  <2>7. InHand' = InHand
    BY <2>1 DEF InHand
  <2> QED
    BY <1>0, <2>1, <2>2, <2>4, <2>6, <2>7 DEF Pool, PoolAccounted
<1>2. ASSUME NEW kind \in Kinds, Arrive(kind) PROVE Pool'
  <2>1. arrived + 1 \in Frames /\ (kind # "long") \in BOOLEAN
    BY <1>2, SMTT(30) DEF Arrive, IInv, TypeOK, Frames
  <2>2. Fill(arrived + 1, kind, kind # "long")
    BY <1>2 DEF Arrive
  <2> QED
    BY <1>1, <2>1, <2>2, Zenon
<1>3. CASE ArriveRest
  <2>1. rest \in Frames /\ "long" \in Kinds
    BY <1>3 DEF ArriveRest, IInv, TypeOK, Frames, Kinds
  <2>2. Fill(rest, "long", TRUE)
    BY <1>3 DEF ArriveRest
  <2> QED
    BY <1>1, <2>1, <2>2, Zenon
<1>4. CASE Interrupt
  <2>1. Range(<<>>) = {} /\ Len(<<>>) = 0
    BY EmptyRange
  <2>2. InHand = {} /\ InHand' = {}
    BY <1>4, <2>1 DEF Interrupt, InHand
  <2> QED
    BY <1>0, <1>4, <2>1, <2>2 DEF Interrupt, Pool, PoolAccounted, Filled
<1>5. CASE Link
  <2> DEFINE b == Head(ready).buf
  <2>1. /\ ready # <<>> /\ ready' = Tail(ready) /\ isr = "read"
        /\ isr' = "build" \/ isr' = "read"
        /\ UNCHANGED <<armed, parked, rx_pool_busy>>
    BY <1>5 DEF Link
  <2>2. /\ b \in Filled /\ Filled' = Filled \ {b}
        /\ \A i, j \in DOMAIN ready' : ready'[i].buf = ready'[j].buf => i = j
        /\ Len(ready') = Len(ready) - 1
    BY <1>0, <2>1, FilledTail DEF Pool, PoolAccounted
  <2>3. Len(ready) >= 1 /\ b \in Bufs
    <3>1. ready \in Seq(Descriptors) /\ ready # <<>>
      BY <1>0, <2>1
    <3>2. Head(ready) \in Descriptors /\ Len(ready) >= 1
      BY <3>1
    <3> QED
      BY <3>2 DEF Descriptors
  <2>4. Len(rx_frame_bufs) < ETH_RX_DESC_CNT
    BY <1>0, <2>1, <2>3 DEF Pool
  <2>5. rx_frame_bufs' = Append(rx_frame_bufs, b)
    BY <1>5, <2>4 DEF Link
  <2> HIDE DEF b
  <2>6. /\ Range(rx_frame_bufs') = Range(rx_frame_bufs) \cup {b}
        /\ Len(rx_frame_bufs') = Len(rx_frame_bufs) + 1
    BY <1>0, <2>3, <2>5, AppendRange
  <2>7. InHand = Range(rx_frame_bufs) /\ InHand' = Range(rx_frame_bufs')
    BY <2>1 DEF InHand
  <2> QED
    BY <1>0, <2>1, <2>2, <2>6, <2>7 DEF Pool, PoolAccounted
<1>6. CASE NoMore
  <2>1. InHand' = InHand
    BY <1>6 DEF NoMore, InHand
  <2> QED
    BY <1>0, <1>6, <2>1 DEF NoMore, Pool, PoolAccounted, Filled
<1>7. CASE Allocate
  <2>1. PICK b \in Bufs \ rx_pool_busy :
             /\ rx_pool_busy' = rx_pool_busy \cup {b}
             /\ armed' = Append(armed, b)
    BY <1>7 DEF Allocate
  <2>2. b \notin Range(armed)
    BY <1>0, <2>1 DEF Pool, PoolAccounted
  <2>3. /\ Range(armed') = Range(armed) \cup {b} /\ IsInjective(armed')
        /\ Len(armed') = Len(armed) + 1
    BY <1>0, <2>1, <2>2, AppendRange DEF Pool, PoolAccounted
  <2>4. /\ Len(armed) + Len(ready) < ETH_RX_DESC_CNT
        /\ isr' = "build" /\ InHand' = InHand /\ Filled' = Filled
        /\ UNCHANGED <<ready, parked>>
    BY <1>0, <1>7 DEF Allocate, Unbuilt, InHand, Filled
  <2> QED
    BY <1>0, <2>1, <2>3, <2>4 DEF Pool, PoolAccounted
<1>8. CASE Return
  <2>1. /\ UNCHANGED <<rx_frame_bufs, armed, ready, rx_pool_busy>>
        /\ isr = "build" /\ isr' # "read"
        /\ \/ isr' = "idle" /\ parked' = parked \cup Range(rx_frame_bufs)
           \/ isr' = "deliver" /\ parked' = parked
    BY <1>8 DEF Return
  <2>2. InHand' \cup parked' = InHand \cup parked /\ InHand' \cap parked' = {}
    BY <1>0, <2>1 DEF InHand, Pool, PoolAccounted
  <2>3. Filled' = Filled
    BY <2>1 DEF Filled
  <2> QED
    BY <1>0, <2>1, <2>2, <2>3 DEF Pool, PoolAccounted
<1>9. CASE Deliver
  <2>1. /\ rx_frame_bufs' = <<>> /\ isr' = "read" /\ isr = "deliver"
        /\ rx_pool_busy' = rx_pool_busy \ Range(rx_frame_bufs)
        /\ UNCHANGED <<armed, ready, parked>>
    BY <1>9 DEF Deliver, NextRound, Release
  <2>2. InHand = Range(rx_frame_bufs) /\ InHand' = {} /\ Filled' = Filled
        /\ Len(rx_frame_bufs') = 0
    BY <2>1, EmptyRange DEF InHand, Filled
  <2> QED
    BY <1>0, <2>1, <2>2 DEF Pool, PoolAccounted
<1>10. CASE Main \/ UNCHANGED vars
  <2>1. UNCHANGED <<rx_pool_busy, armed, ready, rx_frame_bufs, isr, parked>>
    BY <1>10
    DEF Main, MainPending, MainLen, MainCanXmit, MainCopied, MainPop, vars
  <2> QED
    BY <1>0, <2>1 DEF Pool, PoolAccounted, Filled, InHand
<1> QED
  BY <1>2, <1>3, <1>4, <1>5, <1>6, <1>7, <1>8, <1>9, <1>10 DEF Next, Dma, Isr

------------------------------------------------------------------------------
(* The frame the main loop looks at *)

LEMMA NextSeen == IInv /\ [Next]_vars => Seen'
<1> SUFFICES ASSUME IInv, [Next]_vars PROVE Seen'
  OBVIOUS
<1> USE RxAssumption DEF dmaVars, isrVars, headVars, mainVars
<1>0. /\ frame_head \in Slots /\ frame_tail \in Slots
      /\ frame_ring \in [Slots -> 0..MaxFrames]
      /\ pc \in {"pending", "len", "can_xmit", "copy", "pop"}
      /\ Seen
  BY DEF IInv, TypeOK
<1>1. CASE Dma \/ Interrupt \/ Link \/ NoMore \/ Allocate \/ Return
           \/ UNCHANGED vars
  <2>1. UNCHANGED <<frame_head, frame_tail, frame_ring, pc, len>>
    BY <1>1
    DEF Dma, Arrive, ArriveRest, Fill, Interrupt, Link, NoMore, Allocate, Return,
        vars
  <2> QED
    BY <1>0, <2>1 DEF Seen, SlotStable
<1>2. CASE Deliver
  <2>1. UNCHANGED <<frame_tail, pc, len>> /\ Push
    BY <1>2 DEF Deliver
  <2> QED
    BY <1>0, <2>1 DEF Push, RingFull, Seen, SlotStable
<1>3. CASE MainPending \/ MainLen \/ MainCopied \/ MainPop
  BY <1>0, <1>3
  DEF MainPending, MainLen, MainCopied, MainPop, Seen, SlotStable
<1>4. ASSUME NEW room \in BOOLEAN, MainCanXmit(room) PROVE Seen'
  <2>1. /\ UNCHANGED <<frame_head, frame_tail, frame_ring>> /\ pc = "can_xmit"
        /\ pc' = "pending" \/ (pc' = "copy" /\ len' = len)
    BY <1>4 DEF MainCanXmit
  <2> QED
    BY <1>0, <2>1 DEF Seen, SlotStable
<1> QED
  BY <1>1, <1>2, <1>3, <1>4 DEF Next, Isr, Main
------------------------------------------------------------------------------
(* The order of the frames *)

LEMMA FrameNumbers == \A d \in Descriptors : d.frame \in Nat \ {0}
BY RxAssumption DEF Descriptors, Frames

LEMMA ReadyElement ==
    ready \in Seq(Descriptors) => \A i \in 1 .. Len(ready) : ready[i] \in Descriptors
OBVIOUS

LEMMA NextOrder == IInv /\ [Next]_vars => InOrder' /\ Newer'
<1> SUFFICES ASSUME IInv, [Next]_vars PROVE InOrder' /\ Newer'
  OBVIOUS
<1> USE RxAssumption DEF dmaVars, isrVars, headVars, mainVars
<1>0. /\ ready \in Seq(Descriptors) /\ Len(ready) \in Nat
      /\ arrived \in Nat /\ rest \in Nat /\ last \in Nat
      /\ InOrder /\ Newer /\ Reading
  BY DEF IInv, TypeOK
<1>00. \A i \in 1 .. Len(ready) : ready[i] \in Descriptors /\ ready[i].frame \in Nat
  BY <1>0, FrameNumbers, ReadyElement
<1>1. ASSUME NEW kind \in Kinds, Arrive(kind) PROVE InOrder' /\ Newer'
  <2> DEFINE d == [buf |-> Head(armed), frame |-> arrived + 1,
                   kind |-> kind, last |-> kind # "long"]
  <2>1. /\ rest = 0 /\ arrived' = arrived + 1 /\ last' = last
        /\ rest' = IF kind = "long" THEN arrived + 1 ELSE 0
        /\ ready' = Append(ready, d)
    BY <1>1 DEF Arrive, Fill
  <2>2. /\ Len(ready') = Len(ready) + 1 /\ ready'[Len(ready) + 1] = d
        /\ \A i \in 1 .. Len(ready) : ready'[i] = ready[i]
    BY <1>0, <2>1
  <2>3. d.frame = arrived + 1 /\ d.kind = kind /\ (d.last <=> kind # "long")
    OBVIOUS
  <2> HIDE DEF d
  <2>4. \A i \in 1 .. Len(ready') : i \in 1 .. Len(ready) \/ i = Len(ready) + 1
    BY <1>0, <2>2
  <2>5. InOrder'
    <3>1. \A i \in 1 .. Len(ready') : ready'[i].frame <= arrived'
      BY <1>0, <1>00, <2>1, <2>2, <2>3, <2>4 DEF InOrder
    <3>2. ASSUME NEW i \in 1 .. Len(ready'), NEW j \in 1 .. Len(ready'), i < j
          PROVE  /\ ready'[i].frame <= ready'[j].frame
                 /\ ready'[j].kind = "good" => ready'[i].frame < ready'[j].frame
      BY <1>0, <1>00, <2>1, <2>2, <2>3, <2>4, <3>2 DEF InOrder
    <3>3. ASSUME NEW i \in 1 .. Len(ready')
          PROVE  /\ ready'[i].kind = "good" => ready'[i].last
                 /\ ~ready'[i].last => IF i < Len(ready')
                                       THEN ready'[i + 1].kind = "long"
                                       ELSE rest' # 0
      <4>1. CASE i \in 1 .. Len(ready)
        BY <1>0, <2>1, <2>2, <4>1 DEF InOrder
      <4>2. CASE i = Len(ready) + 1
        <5>1. ready'[i] = d /\ ~(i < Len(ready')) /\ (kind = "long" => rest' # 0)
          BY <1>0, <2>1, <2>2, <4>2
        <5> QED
          BY <2>3, <5>1
      <4> QED
        BY <2>4, <4>1, <4>2
    <3>4. rest' # 0 => rest' = arrived'
      BY <2>1
    <3> QED
      BY <3>1, <3>2, <3>3, <3>4 DEF InOrder
  <2>6. Newer'
    BY <1>0, <1>00, <2>1, <2>2, <2>3, <2>4 DEF Newer
  <2> QED
    BY <2>5, <2>6
<1>2. CASE ArriveRest
  <2> DEFINE d == [buf |-> Head(armed), frame |-> rest,
                   kind |-> "long", last |-> TRUE]
  <2>1. /\ rest # 0 /\ arrived' = arrived /\ last' = last /\ rest' = 0
        /\ ready' = Append(ready, d)
    BY <1>2 DEF ArriveRest, Fill
  <2>2. /\ Len(ready') = Len(ready) + 1 /\ ready'[Len(ready) + 1] = d
        /\ \A i \in 1 .. Len(ready) : ready'[i] = ready[i]
    BY <1>0, <2>1
  <2>3. d.frame = arrived /\ d.kind = "long" /\ d.last
    BY <1>0, <2>1 DEF InOrder
  <2> HIDE DEF d
  <2>4. \A i \in 1 .. Len(ready') : i \in 1 .. Len(ready) \/ i = Len(ready) + 1
    BY <1>0, <2>2
  <2>5. InOrder'
    <3>1. \A i \in 1 .. Len(ready') : ready'[i].frame <= arrived'
      BY <1>0, <1>00, <2>1, <2>2, <2>3, <2>4 DEF InOrder
    <3>2. ASSUME NEW i \in 1 .. Len(ready'), NEW j \in 1 .. Len(ready'), i < j
          PROVE  /\ ready'[i].frame <= ready'[j].frame
                 /\ ready'[j].kind = "good" => ready'[i].frame < ready'[j].frame
      BY <1>0, <1>00, <2>1, <2>2, <2>3, <2>4, <3>2 DEF InOrder
    <3>3. ASSUME NEW i \in 1 .. Len(ready')
          PROVE  /\ ready'[i].kind = "good" => ready'[i].last
                 /\ ~ready'[i].last => IF i < Len(ready')
                                       THEN ready'[i + 1].kind = "long"
                                       ELSE rest' # 0
      <4>1. CASE i \in 1 .. Len(ready)
        BY <1>0, <2>1, <2>2, <2>3, <4>1 DEF InOrder
      <4>2. CASE i = Len(ready) + 1
        BY <2>2, <2>3, <4>2
      <4> QED
        BY <2>4, <4>1, <4>2
    <3>4. rest' # 0 => rest' = arrived'
      BY <2>1
    <3> QED
      BY <3>1, <3>2, <3>3, <3>4 DEF InOrder
  <2>6. Newer'
    BY <1>0, <1>00, <2>1, <2>2, <2>3, <2>4 DEF Newer
  <2> QED
    BY <2>5, <2>6
<1>3. CASE Link
  <2>1. /\ ready # <<>> /\ ready' = Tail(ready)
        /\ UNCHANGED <<rest, arrived, last>>
    BY <1>3 DEF Link
  <2>2. /\ Len(ready') = Len(ready) - 1
        /\ \A i \in 1 .. Len(ready') : /\ i + 1 \in 1 .. Len(ready)
                                       /\ ready'[i] = ready[i + 1]
    BY <1>0, <2>1
  <2>3. InOrder'
    BY <1>0, <1>00, <2>1, <2>2 DEF InOrder
  <2>4. Newer'
    BY <1>0, <1>00, <2>1, <2>2 DEF Newer
  <2> QED
    BY <2>3, <2>4
<1>4. CASE Deliver
  <2>1. /\ UNCHANGED <<ready, rest, arrived>>
        /\ last' = IF got.kind = "good" THEN got.frame ELSE last
        /\ got # None
    BY <1>0, <1>4 DEF Deliver, Reading
  <2> QED
    BY <1>0, <1>00, <2>1 DEF InOrder, Newer, Reading
<1>5. CASE Interrupt \/ NoMore \/ Allocate \/ Return \/ Main \/ UNCHANGED vars
  <2>1. UNCHANGED <<ready, rest, arrived, last>>
    BY <1>5
    DEF Interrupt, NoMore, Allocate, Return, Main, MainPending, MainLen,
        MainCanXmit, MainCopied, MainPop, vars
  <2> QED
    BY <1>0, <2>1 DEF InOrder, Newer
<1> QED
  BY <1>1, <1>2, <1>3, <1>4, <1>5 DEF Next, Dma, Isr

LEMMA NextReading == IInv /\ [Next]_vars => Reading'
<1> SUFFICES ASSUME IInv, [Next]_vars PROVE Reading'
  OBVIOUS
<1> USE RxAssumption DEF dmaVars, isrVars, headVars, mainVars
<1>0. /\ ready \in Seq(Descriptors) /\ Len(ready) \in Nat
      /\ rx_frame_bufs \in Seq(Bufs)
      /\ arrived \in Nat /\ rest \in Nat /\ last \in Nat
      /\ got \in Descriptors \cup {None}
      /\ isr \in {"idle", "read", "build", "deliver"}
      /\ InOrder /\ Newer /\ Reading
  BY DEF IInv, TypeOK
<1>00. /\ \A i \in 1 .. Len(ready) : /\ ready[i] \in Descriptors
                                     /\ ready[i].frame \in Nat \ {0}
       /\ got # None => got.frame \in Nat
  BY <1>0, FrameNumbers, ReadyElement
<1>1. ASSUME NEW f \in Nat, NEW kind, NEW end, Fill(f, kind, end),
             \A i \in 1 .. Len(ready) : ready[i].frame <= f,
             arrived <= f, f <= arrived', arrived' \in Nat, arrived <= arrived',
             kind # "long" => rest = 0 /\ arrived < f
      PROVE  Reading'
  <2> DEFINE d == [buf |-> Head(armed), frame |-> f, kind |-> kind, last |-> end]
  <2>1. /\ ready' = Append(ready, d)
        /\ UNCHANGED <<isrVars, last>>
    BY <1>1 DEF Fill
  <2>2. /\ Len(ready') = Len(ready) + 1 /\ ready'[Len(ready) + 1] = d
        /\ \A i \in 1 .. Len(ready) : ready'[i] = ready[i]
        /\ ready' # <<>>
    BY <1>0, <2>1
  <2>3. d.frame = f /\ d.kind = kind
    OBVIOUS
  <2> HIDE DEF d
  <2>4. \A i \in 1 .. Len(ready') : i \in 1 .. Len(ready) \/ i = Len(ready) + 1
    BY <1>0, <2>2
  <2>5. ready # <<>> => Len(ready) >= 1
    BY <1>0
  <2>6. pRxStart' # 0 /\ got' = None => ready'[1].kind = "long"
    BY <1>0, <1>1, <2>1, <2>2, <2>3, <2>5 DEF Reading
  <2>7. got' # None =>
          \A i \in 1 .. Len(ready') :
              /\ got'.frame <= ready'[i].frame
              /\ ready'[i].kind = "good" => got'.frame < ready'[i].frame
    BY <1>0, <1>00, <1>1, <2>1, <2>2, <2>3, <2>4 DEF Reading
  <2> QED
    BY <1>0, <1>00, <1>1, <2>1, <2>2, <2>6, <2>7 DEF Reading
<1>2. ASSUME NEW kind \in Kinds, Arrive(kind) PROVE Reading'
  <2>1. /\ Fill(arrived + 1, kind, kind # "long") /\ rest = 0
        /\ arrived' = arrived + 1
    BY <1>2 DEF Arrive
  <2>2. /\ \A i \in 1 .. Len(ready) : ready[i].frame <= arrived + 1
        /\ arrived + 1 \in Nat /\ arrived <= arrived + 1
        /\ arrived + 1 <= arrived' /\ arrived < arrived + 1
        /\ arrived' \in Nat /\ arrived <= arrived'
    BY <1>0, <1>00, <2>1 DEF InOrder
  <2> QED
    BY <1>1, <2>1, <2>2, Zenon
<1>3. CASE ArriveRest
  <2>1. Fill(rest, "long", TRUE) /\ rest = arrived /\ arrived' = arrived
    BY <1>0, <1>3 DEF ArriveRest, InOrder
  <2>2. /\ \A i \in 1 .. Len(ready) : ready[i].frame <= rest
        /\ arrived <= rest /\ rest <= arrived'
        /\ arrived' \in Nat /\ arrived <= arrived'
    BY <1>0, <1>00, <2>1 DEF InOrder
  <2>3. rest \in Nat
    BY <1>0
  <2> QED
    BY <1>1, <2>1, <2>2, <2>3, Zenon
<1>4. CASE Interrupt
  BY <1>0, <1>4 DEF Interrupt, Reading
<1>5. CASE Link
  <2> DEFINE h == ready[1]
  <2>1. /\ ready # <<>> /\ ready' = Tail(ready) /\ isr = "read" /\ got = None
        /\ Head(ready) = h /\ 1 \in 1 .. Len(ready) /\ Len(ready) >= 1
        /\ UNCHANGED <<rest, arrived, last>>
    BY <1>0, <1>5 DEF Link, Reading
  <2>2. /\ Len(ready') = Len(ready) - 1
        /\ (ready' # <<>>) <=> (Len(ready) > 1)
        /\ \A i \in 1 .. Len(ready') : /\ i + 1 \in 1 .. Len(ready)
                                       /\ ready'[i] = ready[i + 1]
    <3>1. /\ ready' \in Seq(Descriptors)
          /\ Len(ready') = Len(ready) - 1
          /\ \A i \in 1 .. Len(ready) - 1 : ready'[i] = ready[i + 1]
      BY <1>0, <2>1
    <3>2. ready' # <<>> <=> Len(ready') > 0
      BY <3>1
    <3> QED
      BY <1>0, <3>1, <3>2
  <2>3. pRxStart' # 0 /\ (pRxStart = 0 => pRxStart' = h.frame)
    BY <1>00, <1>5, <2>1 DEF Link
  <2>4. CASE ~h.last
    <3>1. got' = None /\ isr' = "read"
      BY <1>5, <2>1, <2>4 DEF Link
    <3>2. IF ready' # <<>> THEN ready'[1].kind = "long" ELSE rest' # 0
      BY <1>0, <2>1, <2>2, <2>4 DEF InOrder
    <3> QED
      BY <2>3, <3>1, <3>2 DEF Reading
  <2>5. CASE h.last
    <3>1. got' = h /\ isr' = "build" /\ h \in Descriptors /\ h # None
      BY <1>00, <1>5, <2>1, <2>5, NoneAssumption DEF Link
    <3>2. /\ h.frame <= arrived'
          /\ \A i \in 1 .. Len(ready') :
                /\ h.frame <= ready'[i].frame
                /\ ready'[i].kind = "good" => h.frame < ready'[i].frame
      BY <1>0, <1>00, <2>1, <2>2 DEF InOrder
    <3>3. ASSUME h.kind = "good"
          PROVE  last' < h.frame /\ pRxStart' = h.frame /\ Len(rx_frame_bufs') = 1
      <4>1. pRxStart = 0 /\ rx_frame_bufs = <<>>
        BY <1>0, <2>1, <3>3 DEF Reading
      <4>2. rx_frame_bufs' = Append(rx_frame_bufs, Head(ready).buf)
        BY <1>5, <4>1 DEF Link
      <4> QED
        BY <1>0, <2>1, <2>3, <3>3, <4>1, <4>2 DEF Newer
    <3> QED
      BY <3>1, <3>2, <3>3 DEF Reading
  <2> QED
    BY <2>4, <2>5
<1>6. CASE NoMore \/ Return
  BY <1>0, <1>6 DEF NoMore, Return, Reading
<1>7. CASE Allocate
  BY <1>0, <1>7 DEF Allocate, Reading
<1>8. CASE Deliver
  BY <1>0, <1>8 DEF Deliver, NextRound, Reading
<1>9. CASE Main \/ UNCHANGED vars
  <2>1. UNCHANGED <<ready, rest, arrived, last, isr, got, pRxStart, rx_frame_bufs>>
    BY <1>9
    DEF Main, MainPending, MainLen, MainCanXmit, MainCopied, MainPop, vars
  <2> QED
    BY <1>0, <2>1 DEF Reading
<1> QED
  BY <1>2, <1>3, <1>4, <1>5, <1>6, <1>7, <1>8, <1>9 DEF Next, Dma, Isr

LEMMA NextIInv == IInv /\ [Next]_vars => IInv'
BY NextType, NextPool, NextSeen, NextOrder, NextReading DEF IInv

------------------------------------------------------------------------------
(* Theorems *)

\* Every reachable state of the receive half is well typed, whatever the
\* numbers of buffers, descriptors and slots.
THEOREM TypeCorrect == Spec => []TypeOK
<1>1. IInv => TypeOK
  BY DEF IInv
<1> QED
  BY InitIInv, NextIInv, <1>1, PTL DEF Spec

\* No buffer of rx_pool has two owners, and none is lost but those of frames
\* that were read in parts.
THEOREM EveryBufferAccounted == Spec => []PoolAccounted
<1>1. IInv => PoolAccounted
  BY DEF IInv, Pool
<1> QED
  BY InitIInv, NextIInv, <1>1, PTL DEF Spec

\* The main loop looks at one frame from its length to its removal, whatever
\* the interrupt pushes meanwhile.
THEOREM OneFrameAtATime == Spec => []SlotStable
<1>1. IInv => SlotStable
  BY DEF IInv, Seen
<1> QED
  BY InitIInv, NextIInv, <1>1, PTL DEF Spec

------------------------------------------------------------------------------
(* The receiver at rest *)

\* Nothing waits that no interrupt will look at, and the DMA has every buffer
\* it can have: while no interrupt is due or running and no long frame is on its
\* way, no descriptor is left filled, and one is armed unless every buffer was
\* lost to frames that were read in parts.
RestsReady ==
    isr = "idle" /\ ~irq /\ rest = 0 =>
        ready = <<>> /\ (armed # <<>> \/ parked = Bufs)

\* A frame that is complete will be looked at; the youngest descriptor is that
\* of a complete frame unless more of it is due; and the interrupt does not end
\* before every descriptor has a buffer, or there is none.
Served ==
    /\ \A i \in 1 .. Len(ready) : ready[i].last =>
         irq \/ isr \in {"read", "deliver"} \/ (isr = "build" /\ got # None)
    /\ rest = 0 /\ ready # <<>> => ready[Len(ready)].last
    /\ isr = "idle" => Unbuilt = 0 \/ Bufs \subseteq rx_pool_busy

LEMMA FillServed ==
    ASSUME IInv, Served, NEW f \in Frames, NEW kind \in Kinds,
           NEW end \in BOOLEAN, Fill(f, kind, end), rest' = 0 => end
    PROVE  Served'
<1> DEFINE d == [buf |-> Head(armed), frame |-> f, kind |-> kind, last |-> end]
<1>1. /\ armed # <<>> /\ armed' = Tail(armed) /\ ready' = Append(ready, d)
      /\ irq' = (irq \/ end)
      /\ UNCHANGED <<rx_pool_busy, isr, got>>
  BY DEF Fill, isrVars
<1>2. armed \in Seq(Bufs) /\ ready \in Seq(Descriptors)
  BY DEF IInv, TypeOK
<1>3. d \in Descriptors /\ d.last = end
  BY <1>1, <1>2 DEF Descriptors
<1> HIDE DEF d
<1>4. /\ Len(ready') = Len(ready) + 1 /\ Len(ready) \in Nat
      /\ ready'[Len(ready) + 1] = d
      /\ \A i \in 1 .. Len(ready) : ready'[i] = ready[i]
  BY <1>1, <1>2, <1>3
<1>5. Len(armed') = Len(armed) - 1 /\ Len(armed) \in Nat
  BY <1>1, <1>2
<1>6. Unbuilt' = Unbuilt
  BY <1>4, <1>5, RxAssumption DEF Unbuilt
<1>7. ASSUME NEW i \in 1 .. Len(ready'), ready'[i].last
      PROVE  irq' \/ isr' \in {"read", "deliver"} \/ (isr' = "build" /\ got' # None)
  <2>1. CASE i \in 1 .. Len(ready)
    BY <1>1, <1>4, <1>7, <2>1 DEF Served
  <2>2. CASE i = Len(ready) + 1
    BY <1>1, <1>3, <1>4, <1>7, <2>2
  <2> QED BY <1>4, <2>1, <2>2
<1>8. rest' = 0 => ready'[Len(ready')].last
  BY <1>3, <1>4
<1>9. isr' = "idle" => Unbuilt' = 0 \/ Bufs \subseteq rx_pool_busy'
  BY <1>1, <1>6 DEF Served
<1> QED
  BY <1>7, <1>8, <1>9 DEF Served

LEMMA NextServed == IInv /\ Served /\ [Next]_vars => Served'
<1> SUFFICES ASSUME IInv, Served, [Next]_vars PROVE Served'
  OBVIOUS
<1>0. /\ ready \in Seq(Descriptors) /\ Len(ready) \in Nat
      /\ isr \in {"idle", "read", "build", "deliver"}
  BY DEF IInv, TypeOK
<1>1. ASSUME NEW kind \in Kinds, Arrive(kind) PROVE Served'
  <2>1. /\ arrived + 1 \in Frames /\ (kind # "long") \in BOOLEAN
        /\ arrived + 1 # 0
    <3>1. arrived \in 0 .. MaxFrames /\ arrived < MaxFrames
      BY <1>1 DEF Arrive, IInv, TypeOK
    <3> QED BY <3>1, RxAssumption DEF Frames
  <2>2. /\ Fill(arrived + 1, kind, kind # "long")
        /\ rest' = 0 => kind # "long"
    BY <1>1, <2>1 DEF Arrive
  <2> QED BY <2>1, <2>2, FillServed, Zenon
<1>2. CASE ArriveRest
  <2>1. rest \in Frames /\ "long" \in Kinds
    BY <1>2 DEF ArriveRest, IInv, TypeOK, Frames, Kinds
  <2>2. Fill(rest, "long", TRUE)
    BY <1>2 DEF ArriveRest
  <2> QED BY <2>1, <2>2, FillServed, Zenon
<1>3. CASE Interrupt
  BY <1>3 DEF Interrupt, Served
<1>4. CASE Link
  <2>1. /\ ready # <<>> /\ ready' = Tail(ready) /\ isr = "read"
        /\ \/ isr' = "build" /\ got' = Head(ready)
           \/ isr' = "read"
        /\ UNCHANGED rest
    BY <1>4 DEF Link
  <2>2. Head(ready) \in Descriptors
    BY <1>0, <2>1
  <2>3. isr' = "read" \/ (isr' = "build" /\ got' # None)
    BY <2>1, <2>2, NoneAssumption
  <2>4. /\ ready' \in Seq(Descriptors) /\ Len(ready') = Len(ready) - 1
        /\ \A i \in 1 .. Len(ready') : ready'[i] = ready[i + 1]
    BY <1>0, <2>1
  <2>5. ready' # <<>> => ready'[Len(ready')] = ready[Len(ready)]
    <3>1. ready' # <<>> => Len(ready') \in 1 .. Len(ready')
      BY <2>4
    <3> QED BY <1>0, <2>4, <3>1
  <2> QED BY <2>1, <2>3, <2>5 DEF Served
<1>5. CASE NoMore
  BY <1>5 DEF NoMore, Served, dmaVars
<1>6. CASE Allocate
  BY <1>6 DEF Allocate, Served, isrVars
<1>7. CASE Return
  <2>1. /\ isr = "build" /\ (Unbuilt = 0 \/ Bufs \subseteq rx_pool_busy)
        /\ IF got = None THEN isr' = "idle" ELSE isr' = "deliver"
        /\ UNCHANGED <<got, rx_pool_busy, armed, ready, rest, irq>>
    BY <1>7 DEF Return, dmaVars
  <2>2. Unbuilt' = Unbuilt
    BY <2>1 DEF Unbuilt
  <2> QED BY <2>1, <2>2 DEF Served
<1>8. CASE Deliver
  BY <1>8 DEF Deliver, NextRound, Served, dmaVars
<1>9. CASE Main \/ UNCHANGED vars
  <2>1. UNCHANGED <<rx_pool_busy, armed, ready, rest, irq, isr, got>>
    BY <1>9
    DEF Main, MainPending, MainLen, MainCanXmit, MainCopied, MainPop, vars,
        dmaVars, isrVars
  <2>2. Unbuilt' = Unbuilt
    BY <2>1 DEF Unbuilt
  <2> QED BY <2>1, <2>2 DEF Served
<1> QED
  BY <1>1, <1>2, <1>3, <1>4, <1>5, <1>6, <1>7, <1>8, <1>9 DEF Next, Dma, Isr

\* The receiver does not come to rest with a frame in a descriptor or with a
\* free buffer that no descriptor has got, in any interleaving of DMA and
\* interrupt and for every number of buffers and descriptors: what the callback
\* leaves behind is done (eth_bridge.c:93-149).
THEOREM NothingLeftBehind == Spec => []RestsReady
<1>1. Init => Served
  <2> SUFFICES ASSUME Init PROVE Served
    OBVIOUS
  <2>1. Len(armed) = ETH_RX_DESC_CNT /\ ready = <<>>
    BY RxAssumption DEF Init
  <2>2. Unbuilt = 0
    BY <2>1, RxAssumption DEF Unbuilt
  <2> QED BY <2>1, <2>2 DEF Served
<1>2. IInv /\ Served => RestsReady
  <2> SUFFICES ASSUME IInv, Served, isr = "idle", ~irq, rest = 0
               PROVE  ready = <<>> /\ (armed # <<>> \/ parked = Bufs)
    BY DEF RestsReady
  <2>1. ready \in Seq(Descriptors) /\ parked \subseteq Bufs
    BY DEF IInv, TypeOK
  <2>2. ready = <<>>
    <3> SUFFICES ASSUME ready # <<>> PROVE FALSE
      OBVIOUS
    <3>1. Len(ready) \in 1 .. Len(ready)
      BY <2>1
    <3>2. ready[Len(ready)].last
      BY DEF Served
    <3> QED BY <3>1, <3>2 DEF Served
  <2>3. ASSUME armed = <<>> PROVE parked = Bufs
    <3>1. Unbuilt # 0
      BY <2>2, <2>3, RxAssumption DEF Unbuilt
    <3>2. Bufs \subseteq rx_pool_busy
      BY <3>1 DEF Served
    <3>3. Range(armed) = {} /\ Filled = {} /\ InHand = {}
      BY <2>2, <2>3, EmptyRange DEF Filled, InHand
    <3> QED BY <2>1, <3>2, <3>3 DEF IInv, Pool, PoolAccounted
  <2> QED BY <2>2, <2>3
<1> QED
  BY <1>1, <1>2, InitIInv, NextIInv, NextServed, PTL DEF Spec

------------------------------------------------------------------------------
(* The ring as a queue *)

\* What is waiting to be forwarded, as the abstract queue has it.
Queue == IF pc = "pop" THEN Tail(Waiting) ELSE Waiting

LEMMA WaitingType ==
    ASSUME TypeOK
    PROVE  /\ Waiting \in Seq(0..MaxFrames) /\ Len(Waiting) = Queued
           /\ Queued \in Nat
           /\ (frame_head # frame_tail) => /\ Queued >= 1 /\ Waiting # <<>>
                                          /\ Head(Waiting) = frame_ring[frame_tail]
<1> USE RxAssumption
<1>1. /\ frame_head \in Slots /\ frame_tail \in Slots
      /\ frame_ring \in [Slots -> 0..MaxFrames]
  BY DEF TypeOK
<1>2. /\ Queued \in Slots /\ (Queued = 0 <=> frame_head = frame_tail)
      /\ \A k \in Slots : Slot(k) \in Slots
      /\ Slot(0) = frame_tail
  BY <1>1, QueuedType
<1>3. Queued \in Nat /\ \A k \in 1 .. Queued : k - 1 \in Slots
  BY <1>2 DEF Slots
<1>4. Waiting \in Seq(0..MaxFrames) /\ Len(Waiting) = Queued
  <2>1. \A k \in 1 .. Queued : frame_ring[Slot(k - 1)] \in 0..MaxFrames
    BY <1>1, <1>2, <1>3
  <2>2. Waiting \in [1 .. Queued -> 0..MaxFrames]
    BY <2>1 DEF Waiting
  <2> QED
    BY <1>3, <2>2
<1>5. ASSUME frame_head # frame_tail
      PROVE  Queued >= 1 /\ Waiting # <<>> /\ Head(Waiting) = frame_ring[frame_tail]
  <2>1. Queued >= 1
    BY <1>2, <1>3, <1>5
  <2>2. Waiting[1] = frame_ring[frame_tail]
    BY <1>2, <1>3, <2>1 DEF Waiting
  <2> QED
    BY <1>4, <2>1, <2>2
<1> QED
  BY <1>3, <1>4, <1>5

LEMMA WaitingPush ==
    ASSUME TypeOK, ~RingFull, NEW x \in 0..MaxFrames,
           frame_ring' = [frame_ring EXCEPT ![frame_head] = x],
           frame_head' = Succ(frame_head), frame_tail' = frame_tail
    PROVE  Waiting' = Append(Waiting, x) /\ Queued < ETH_FRAME_RING_SIZE - 1
<1> USE RxAssumption
<1>1. /\ frame_head \in Slots /\ frame_tail \in Slots
      /\ frame_ring \in [Slots -> 0..MaxFrames]
  BY DEF TypeOK
<1>2. /\ Queued \in Slots /\ Queued # ETH_FRAME_RING_SIZE - 1
      /\ \A k \in Slots : Slot(k) \in Slots
      /\ Slot(Queued) = frame_head
      /\ \A k \in Slots : k < Queued => Slot(k) # frame_head
  BY <1>1, QueuedType
<1>3. Queued \in Nat /\ Queued < ETH_FRAME_RING_SIZE - 1
  BY <1>2 DEF Slots
<1>4. Queued' = Queued + 1
  <2>1. /\ frame_head' # frame_tail
        /\ frame_head' = IF frame_head = ETH_FRAME_RING_SIZE - 1
                         THEN 0 ELSE frame_head + 1
    BY <1>1, SuccType DEF RingFull
  <2> QED
    BY <1>1, <2>1 DEF Queued, Slots
<1>5. \A k \in 0 .. Queued : k \in Slots /\ Slot(k)' = Slot(k)
  BY <1>3 DEF Slot, Slots
<1>6. \A k \in 1 .. Queued : frame_ring'[Slot(k - 1)] = frame_ring[Slot(k - 1)]
  <2>1. ASSUME NEW k \in 1 .. Queued PROVE Slot(k - 1) \in Slots \ {frame_head}
    BY <1>2, <1>3, <1>5
  <2> QED
    BY <1>1, <2>1
<1>7. frame_ring'[Slot(Queued)] = x
  BY <1>1, <1>2
<1>8. Waiting' = [k \in 1 .. Queued + 1 |-> frame_ring'[Slot(k - 1)]]
  BY <1>3, <1>4, <1>5 DEF Waiting
<1>9. Waiting \in Seq(0..MaxFrames) /\ Len(Waiting) = Queued
  BY WaitingType
<1>10. Append(Waiting, x) =
         [k \in 1 .. Queued + 1 |-> IF k <= Queued THEN Waiting[k] ELSE x]
  BY <1>9, AppendEntries
<1>11. \A k \in 1 .. Queued + 1 :
         frame_ring'[Slot(k - 1)] = IF k <= Queued THEN Waiting[k] ELSE x
  BY <1>3, <1>6, <1>7 DEF Waiting
<1> QED
  BY <1>3, <1>8, <1>10, <1>11

LEMMA WaitingPop ==
    ASSUME TypeOK, frame_head # frame_tail,
           frame_tail' = Succ(frame_tail), UNCHANGED <<frame_ring, frame_head>>
    PROVE  Waiting' = Tail(Waiting)
<1> USE RxAssumption
<1>1. /\ frame_head \in Slots /\ frame_tail \in Slots
      /\ frame_ring \in [Slots -> 0..MaxFrames]
  BY DEF TypeOK
<1>2. /\ Queued \in Nat /\ Queued >= 1 /\ Queued < ETH_FRAME_RING_SIZE
      /\ Waiting \in Seq(0..MaxFrames) /\ Len(Waiting) = Queued
  BY <1>1, WaitingType, QueuedType DEF Slots
<1>0. frame_tail' = IF frame_tail = ETH_FRAME_RING_SIZE - 1
                    THEN 0 ELSE frame_tail + 1
  BY <1>1, SuccType
<1>3. Queued' = Queued - 1
  BY <1>0, <1>1 DEF Queued, Slots
<1>4. \A k \in 1 .. Queued - 1 : Slot(k - 1)' = Slot(k)
  BY <1>0, <1>1, <1>2 DEF Slot, Slots
<1>5. Waiting' = [k \in 1 .. Queued - 1 |-> frame_ring[Slot(k)]]
  BY <1>3, <1>4 DEF Waiting
<1>6. Tail(Waiting) = [k \in 1 .. Queued - 1 |-> Waiting[k + 1]]
  <2>1. Waiting # <<>>
    BY <1>2
  <2> QED
    BY <1>2, <2>1, TailEntries
<1>7. \A k \in 1 .. Queued - 1 : Waiting[k + 1] = frame_ring[Slot(k)]
  BY <1>2 DEF Waiting
<1> QED
  BY <1>2, <1>5, <1>6, <1>7

LEMMA StepRing == IInv /\ [Next]_vars => [Ring!Next]_(Ring!vars)
<1> SUFFICES ASSUME IInv, [Next]_vars PROVE [Ring!Next]_(Ring!vars)
  OBVIOUS
<1> USE RxAssumption DEF dmaVars, isrVars, headVars, mainVars
<1>0. /\ TypeOK /\ Seen /\ Reading
      /\ Waiting \in Seq(0..MaxFrames) /\ Len(Waiting) = Queued /\ Queued \in Nat
      /\ got \in Descriptors \cup {None}
      /\ pc = "pop" => Queued >= 1 /\ Waiting # <<>>
  BY WaitingType DEF IInv, Seen, TypeOK
<1>1. ASSUME UNCHANGED <<Queue, last, forwarded>> PROVE UNCHANGED Ring!vars
  BY <1>1 DEF Ring!vars, Queue
<1>2. ASSUME UNCHANGED <<frame_ring, frame_head, frame_tail>>
      PROVE  Waiting' = Waiting
  BY <1>2 DEF Waiting, Queued, Slot
<1>3. CASE Dma \/ Interrupt \/ Link \/ NoMore \/ Allocate \/ Return
           \/ UNCHANGED vars
  <2>1. UNCHANGED <<frame_ring, frame_head, frame_tail, pc, last, forwarded>>
    BY <1>3
    DEF Dma, Arrive, ArriveRest, Fill, Interrupt, Link, NoMore, Allocate, Return,
        vars
  <2> QED
    BY <1>1, <1>2, <2>1 DEF Queue
<1>4. CASE Deliver
  <2>1. /\ got # None /\ UNCHANGED <<frame_tail, pc, forwarded>>
        /\ last' = IF got.kind = "good" THEN got.frame ELSE last
        /\ Push
    BY <1>0, <1>4 DEF Deliver, Reading
  <2>2. CASE got.kind # "good"
    <3>1. UNCHANGED <<frame_ring, frame_head, frame_tail, pc, last, forwarded>>
      BY <2>1, <2>2 DEF Push, Forwardable
    <3> QED
      BY <1>1, <1>2, <3>1 DEF Queue
  <2>3. CASE got.kind = "good"
    <3>1. last' = got.frame /\ last < got.frame /\ pRxStart = got.frame /\ Forwardable
      BY <1>0, <2>1, <2>3 DEF Reading, Forwardable
    <3>2. pRxStart \in 0..MaxFrames /\ last \in Nat /\ last' > last
      BY <1>0, <3>1 DEF TypeOK
    <3>3. CASE ~RingFull
      <4>1. /\ frame_ring' = [frame_ring EXCEPT ![frame_head] = pRxStart]
            /\ frame_head' = Succ(frame_head)
        BY <2>1, <3>1, <3>3 DEF Push
      <4>2. /\ Waiting' = Append(Waiting, pRxStart)
            /\ Queued < ETH_FRAME_RING_SIZE - 1
        BY <1>0, <2>1, <3>2, <3>3, <4>1, WaitingPush
      <4>3. pc = "pop" =>
              Tail(Append(Waiting, pRxStart)) = Append(Tail(Waiting), pRxStart)
        BY <1>0, <3>2, SMTT(30)
      <4>4. Queue' = Append(Queue, last') /\ Len(Queue) < ETH_FRAME_RING_SIZE - 1
        BY <1>0, <2>1, <3>1, <4>2, <4>3, SMTT(30) DEF Queue
      <4>5. Ring!Put
        BY <2>1, <3>2, <4>4, Zenon DEF Ring!Put, Queue
      <4> QED
        BY <4>5 DEF Ring!Next
    <3>4. CASE RingFull
      <4>1. UNCHANGED <<frame_ring, frame_head, frame_tail>>
        BY <2>1, <3>4 DEF Push
      <4>2. Queued = ETH_FRAME_RING_SIZE - 1
        BY <1>0, <3>4, QueuedType DEF TypeOK
      <4>3. Queue' = Queue /\ Len(Queue) >= ETH_FRAME_RING_SIZE - 1 - 1
        BY <1>0, <1>2, <2>1, <4>1, <4>2 DEF Queue
      <4>4. Ring!Drop
        BY <2>1, <3>2, <4>3, Zenon DEF Ring!Drop, Queue
      <4> QED
        BY <4>4 DEF Ring!Next
    <3> QED
      BY <3>3, <3>4
  <2> QED
    BY <2>2, <2>3
<1>5. CASE MainPending \/ MainLen \/ \E room \in BOOLEAN : MainCanXmit(room)
  <2>1. /\ UNCHANGED <<frame_ring, frame_head, frame_tail, last, forwarded>>
        /\ pc # "pop" /\ pc' # "pop"
    BY <1>5 DEF MainPending, MainLen, MainCanXmit
  <2> QED
    BY <1>1, <1>2, <2>1 DEF Queue
<1>6. CASE MainCopied
  <2>1. /\ UNCHANGED <<frame_ring, frame_head, frame_tail, last>>
        /\ pc = "copy" /\ pc' = "pop" /\ forwarded' = frame_ring[frame_tail]
        /\ frame_head # frame_tail
    BY <1>0, <1>6 DEF MainCopied, Seen
  <2>2. Waiting' = Waiting
    BY <1>2, <2>1
  <2>3. Waiting # <<>> /\ Head(Waiting) = frame_ring[frame_tail]
    BY <1>0, <2>1, WaitingType
  <2>4. /\ Queue # <<>> /\ forwarded' = Head(Queue) /\ Queue' = Tail(Queue)
        /\ last' = last
    BY <2>1, <2>2, <2>3 DEF Queue
  <2>5. Ring!Forward
    BY <2>4, Zenon DEF Ring!Forward, Queue
  <2> QED
    BY <2>5 DEF Ring!Next
<1>7. CASE MainPop
  <2>1. /\ frame_tail' = Succ(frame_tail) /\ pc = "pop" /\ pc' = "pending"
        /\ UNCHANGED <<frame_ring, frame_head, last, forwarded>>
        /\ frame_head # frame_tail
    BY <1>0, <1>7 DEF MainPop, Seen
  <2>2. Waiting' = Tail(Waiting)
    BY <1>0, <2>1, WaitingPop
  <2> QED
    BY <1>1, <2>1, <2>2 DEF Queue
<1> QED
  BY <1>3, <1>4, <1>5, <1>6, <1>7 DEF Next, Isr, Main

\* Between the interrupt and the main loop, the ring implements one bounded
\* queue.
THEOREM RingIsQueue == Spec => RingSpec
<1>1. Init => Ring!Init
  <2> SUFFICES ASSUME Init PROVE Ring!Init
    OBVIOUS
  <2>1. Waiting = <<>>
    BY InitIInv, WaitingType, RxAssumption DEF IInv, Init, Queued
  <2> QED
    BY <2>1 DEF Init, Ring!Init
<1>2. Spec => []IInv
  BY InitIInv, NextIInv, PTL DEF Spec
<1> QED
  BY <1>1, <1>2, StepRing, PTL DEF Spec, RingSpec, Ring!Spec
==============================================================================
