-------------------------------- MODULE EthRx --------------------------------
(***************************************************************************)
(* The receive half of the USB-Ethernet bridge, wire to host:              *)
(* src/examples/usb_eth_f7/src/eth_bridge.c and the end of the loop in its *)
(* main.c.  Three parties share memory without a lock: the Ethernet DMA,   *)
(* which fills buffers of rx_pool; the Ethernet interrupt, which copies    *)
(* received frames into frame_ring; and the main loop, which copies them   *)
(* on to TinyUSB.  The interrupt preempts the main loop between any two of *)
(* its steps and runs to its end; the DMA runs beside both.                *)
(*                                                                         *)
(* The HAL is modelled from how the bridge uses it.  Its descriptors are a *)
(* ring used in order, so they are two queues here: armed (the DMA may     *)
(* fill them) and ready (filled, not yet read); the others wait for a      *)
(* buffer.  HAL_ETH_ReadData hands the buffers of ready descriptors to the *)
(* link callback, up to the end of a frame, then asks the allocate         *)
(* callback for new ones as long as it gives any, and succeeds only if it  *)
(* came to the end of a frame.                                             *)
(*                                                                         *)
(* A frame is its arrival number and its kind: "good" fits in one buffer,  *)
(* "short" is less than 14 bytes long, "long" needs two buffers.  The MAC  *)
(* loses a frame for which too few descriptors are armed, without a trace. *)
(***************************************************************************)
EXTENDS Naturals, Sequences, Functions

CONSTANTS
    ETH_RX_POOL_SIZE,     \* buffers, 8 in the code
    ETH_RX_DESC_CNT,      \* descriptors, 4
    ETH_FRAME_RING_SIZE,  \* slots of the ring, 16
    MaxFrames,            \* bound: frames that arrive
    None                  \* no descriptor

ASSUME RxAssumption ==
    /\ {ETH_RX_DESC_CNT, MaxFrames} \subseteq Nat \ {0}
    /\ ETH_RX_POOL_SIZE \in Nat /\ ETH_RX_POOL_SIZE >= ETH_RX_DESC_CNT
    /\ ETH_FRAME_RING_SIZE \in Nat /\ ETH_FRAME_RING_SIZE >= 2

Bufs == 1 .. ETH_RX_POOL_SIZE
Slots == 0 .. ETH_FRAME_RING_SIZE - 1
Frames == 1 .. MaxFrames
Kinds == {"good", "short", "long"}

\* A filled descriptor; last: it holds the end of its frame.
Descriptors == [buf : Bufs, frame : Frames, kind : Kinds, last : BOOLEAN]

ASSUME NoneAssumption == None \notin Descriptors

VARIABLES
    rx_pool_busy,   \* the buffers marked busy
    armed,          \* DMA: buffers it may fill, in order
    ready,          \* DMA: filled descriptors that ReadData has not taken
    rest,           \* DMA: long frame whose second part is due, 0 for none
    irq,            \* a receive interrupt is pending
    isr,            \* where HAL_ETH_RxCpltCallback is; "idle": not running
    rx_frame_bufs,  \* the buffers linked since rx_frame_buf_count was reset
    pRxStart,       \* HAL: frame in the first linked buffer, 0 for NULL
    got,            \* the last descriptor of the frame just read, or None
    frame_ring,     \* the frame in each slot, 0 for none yet
    frame_head,
    frame_tail,
    pc,             \* where the main loop is
    len,            \* main: frame whose length it has read, 0 outside
    arrived,        \* history: frames the MAC has received
    last,           \* history: newest good frame the interrupt has seen
    forwarded,      \* history: frame last copied to TinyUSB
    parked          \* history: buffers of frames that ReadData took in parts

dmaVars == <<armed, ready, rest, irq, arrived>>
isrVars == <<isr, rx_frame_bufs, pRxStart, got, parked>>
headVars == <<frame_ring, frame_head, last>>
mainVars == <<frame_tail, pc, len, forwarded>>
vars == <<rx_pool_busy, dmaVars, isrVars, headVars, mainVars>>

------------------------------------------------------------------------------
\* Fault: the index does not wrap.
SuccNoWrap(i) == i + 1

Succ(i) == (i + 1) % ETH_FRAME_RING_SIZE

\* Frames between tail and head.
Queued ==
    IF frame_tail <= frame_head
    THEN frame_head - frame_tail
    ELSE frame_head + ETH_FRAME_RING_SIZE - frame_tail

\* The slot k places behind the tail.
Slot(k) ==
    IF frame_tail + k < ETH_FRAME_RING_SIZE
    THEN frame_tail + k
    ELSE frame_tail + k - ETH_FRAME_RING_SIZE

\* What the ring holds, oldest first.
Waiting == [k \in 1..Queued |-> frame_ring[Slot(k - 1)]]

\* The buffers of the filled descriptors.
Filled == {ready[i].buf : i \in DOMAIN ready}

\* Descriptors that wait for a buffer.
Unbuilt == ETH_RX_DESC_CNT - Len(armed) - Len(ready)

\* eth_bridge_init and HAL_ETH_Start_IT: every descriptor has got a buffer.
Init ==
    /\ rx_pool_busy = 1 .. ETH_RX_DESC_CNT
    /\ armed = [i \in 1 .. ETH_RX_DESC_CNT |-> i]
    /\ ready = <<>> /\ rest = 0 /\ irq = FALSE /\ arrived = 0
    /\ isr = "idle" /\ rx_frame_bufs = <<>> /\ pRxStart = 0 /\ got = None
    /\ parked = {}
    /\ frame_ring = [i \in Slots |-> 0] /\ frame_head = 0 /\ last = 0
    /\ frame_tail = 0 /\ pc = "pending" /\ len = 0 /\ forwarded = 0

------------------------------------------------------------------------------
(* The Ethernet DMA *)

\* It fills the next buffer with (a part of) frame f.
Fill(f, kind, end) ==
    /\ armed # <<>>
    /\ armed' = Tail(armed)
    /\ ready' = Append(ready,
         [buf |-> Head(armed), frame |-> f, kind |-> kind, last |-> end])
    /\ irq' = (irq \/ end)
    /\ UNCHANGED <<rx_pool_busy, isrVars, headVars, mainVars>>

\* A frame arrives: all of it, or the first part of a long one.
Arrive(kind) ==
    /\ rest = 0
    /\ arrived < MaxFrames
    /\ kind = "long" => Len(armed) >= 2
    /\ Fill(arrived + 1, kind, kind # "long")
    /\ arrived' = arrived + 1
    /\ rest' = IF kind = "long" THEN arrived + 1 ELSE 0

ArriveRest ==
    /\ rest # 0
    /\ Fill(rest, "long", TRUE)
    /\ rest' = 0
    /\ UNCHANGED arrived

------------------------------------------------------------------------------
(* The Ethernet interrupt *)

\* HAL_ETH_IRQHandler acknowledges the interrupt and calls
\* HAL_ETH_RxCpltCallback, which resets the count of buffers.
Interrupt ==
    /\ irq
    /\ isr = "idle"
    /\ irq' = FALSE
    /\ isr' = "read"
    /\ rx_frame_bufs' = <<>>
    /\ UNCHANGED <<armed, ready, rest, arrived, pRxStart, got, parked>>
    /\ UNCHANGED <<rx_pool_busy, headVars, mainVars>>

\* HAL_ETH_ReadData takes a ready descriptor: HAL_ETH_RxLinkCallback.
Link ==
    /\ isr = "read"
    /\ ready # <<>>
    /\ rx_frame_bufs' = IF Len(rx_frame_bufs) < ETH_RX_DESC_CNT
                        THEN Append(rx_frame_bufs, Head(ready).buf)
                        ELSE rx_frame_bufs
    /\ pRxStart' = IF pRxStart = 0 THEN Head(ready).frame ELSE pRxStart
    /\ ready' = Tail(ready)
    /\ IF Head(ready).last
       THEN got' = Head(ready) /\ isr' = "build"
       ELSE UNCHANGED <<got, isr>>
    /\ UNCHANGED <<armed, rest, irq, arrived, parked>>
    /\ UNCHANGED <<rx_pool_busy, headVars, mainVars>>

\* There is no further descriptor and no end of a frame.
NoMore ==
    /\ isr = "read"
    /\ ready = <<>>
    /\ isr' = "build"
    /\ UNCHANGED <<rx_frame_bufs, pRxStart, got, parked>>
    /\ UNCHANGED <<rx_pool_busy, dmaVars, headVars, mainVars>>

\* HAL_ETH_RxAllocateCallback: the first buffer that is not busy.
Allocate ==
    /\ isr = "build"
    /\ Unbuilt > 0
    /\ \E b \in Bufs \ rx_pool_busy :
         /\ \A c \in Bufs \ rx_pool_busy : b <= c
         /\ rx_pool_busy' = rx_pool_busy \cup {b}
         /\ armed' = Append(armed, b)
    /\ UNCHANGED <<ready, rest, irq, arrived, isrVars, headVars, mainVars>>

\* HAL_ETH_ReadData returns: with a frame, or with an error on which the
\* callback leaves its loop.
Return ==
    /\ isr = "build"
    /\ Unbuilt = 0 \/ Bufs \subseteq rx_pool_busy
    /\ IF got = None
       THEN isr' = "idle" /\ parked' = parked \cup Range(rx_frame_bufs)
       ELSE isr' = "deliver" /\ parked' = parked
    /\ UNCHANGED <<rx_frame_bufs, pRxStart, got>>
    /\ UNCHANGED <<rx_pool_busy, dmaVars, headVars, mainVars>>

\* frame_ring_alloc returns NULL.
RingFull == Succ(frame_head) = frame_tail

\* Fault: the length is not checked.
ForwardableByCount == Len(rx_frame_bufs) = 1

\* One buffer, and a length from 14 to ETH_FRAME_MAX.
Forwardable == Len(rx_frame_bufs) = 1 /\ got.kind = "good"

\* memcpy from the first buffer, and frame_ring_push.
Push ==
    IF Forwardable /\ ~RingFull
    THEN /\ frame_ring' = [frame_ring EXCEPT ![frame_head] = pRxStart]
         /\ frame_head' = Succ(frame_head)
    ELSE UNCHANGED <<frame_ring, frame_head>>

\* Fault: only the buffers of frames that fit are released.
ReleaseGood(bufs) == IF Forwardable THEN bufs ELSE {}

\* rx_pool_release of each buffer in rx_frame_bufs.
Release(bufs) == bufs

\* Fault: the callback reads one frame only.
NextRoundNever == "idle"

\* The callback goes on with "for (;;)".
NextRound == "read"

\* The loop body after HAL_ETH_ReadData, and the start of the next round.
Deliver ==
    /\ isr = "deliver"
    /\ Push
    /\ last' = IF got.kind = "good" THEN got.frame ELSE last
    /\ rx_pool_busy' = rx_pool_busy \ Release(Range(rx_frame_bufs))
    /\ isr' = NextRound
    /\ rx_frame_bufs' = <<>>
    /\ pRxStart' = 0
    /\ got' = None
    /\ UNCHANGED <<parked, dmaVars, mainVars>>

------------------------------------------------------------------------------
(* The end of the main loop *)

\* tud_ready() && eth_bridge_frame_pending().
MainPending ==
    /\ isr = "idle"
    /\ pc = "pending"
    /\ frame_head # frame_tail
    /\ pc' = "len"
    /\ UNCHANGED <<frame_tail, len, forwarded>>
    /\ UNCHANGED <<rx_pool_busy, dmaVars, isrVars, headVars>>

\* eth_bridge_frame_len.
MainLen ==
    /\ isr = "idle"
    /\ pc = "len"
    /\ pc' = "can_xmit"
    /\ len' = frame_ring[frame_tail]
    /\ UNCHANGED <<frame_tail, forwarded>>
    /\ UNCHANGED <<rx_pool_busy, dmaVars, isrVars, headVars>>

\* Fault: the frame is popped before it is copied.
MainCanXmitPops(room) ==
    /\ isr = "idle"
    /\ pc = "can_xmit"
    /\ pc' = IF room THEN "copy" ELSE "pending"
    /\ len' = IF room THEN len ELSE 0
    /\ frame_tail' = IF room THEN Succ(frame_tail) ELSE frame_tail
    /\ UNCHANGED <<forwarded>>
    /\ UNCHANGED <<rx_pool_busy, dmaVars, isrVars, headVars>>

\* tud_network_can_xmit(len): TinyUSB has room for a frame of that length,
\* and copying starts, or it has none.
MainCanXmit(room) ==
    /\ isr = "idle"
    /\ pc = "can_xmit"
    /\ pc' = IF room THEN "copy" ELSE "pending"
    /\ len' = IF room THEN len ELSE 0
    /\ UNCHANGED <<frame_tail, forwarded>>
    /\ UNCHANGED <<rx_pool_busy, dmaVars, isrVars, headVars>>

\* tud_network_xmit has called tud_network_xmit_cb, that is,
\* eth_bridge_copy_frame, and the copy is complete.
MainCopied ==
    /\ isr = "idle"
    /\ pc = "copy"
    /\ pc' = "pop"
    /\ forwarded' = frame_ring[frame_tail]
    /\ UNCHANGED <<frame_tail, len>>
    /\ UNCHANGED <<rx_pool_busy, dmaVars, isrVars, headVars>>

\* eth_bridge_pop_frame.
MainPop ==
    /\ isr = "idle"
    /\ pc = "pop"
    /\ pc' = "pending"
    /\ frame_tail' = Succ(frame_tail)
    /\ len' = 0
    /\ UNCHANGED forwarded
    /\ UNCHANGED <<rx_pool_busy, dmaVars, isrVars, headVars>>

------------------------------------------------------------------------------
Dma == ArriveRest \/ \E kind \in Kinds : Arrive(kind)

Isr == Interrupt \/ Link \/ NoMore \/ Allocate \/ Return \/ Deliver

Main ==
    \/ MainPending
    \/ MainLen
    \/ \E room \in BOOLEAN : MainCanXmit(room)
    \/ MainCopied
    \/ MainPop

Next == Dma \/ Isr \/ Main

Spec == Init /\ [][Next]_vars

\* A long frame ends; interrupts are served to their end; the main loop goes
\* round whenever no interrupt runs; the host takes frames again and again.
Fairness ==
    /\ WF_vars(ArriveRest)
    /\ WF_vars(Isr)
    /\ SF_vars(MainPending) /\ SF_vars(MainLen)
    /\ SF_vars(MainCanXmit(TRUE))
    /\ SF_vars(MainCopied) /\ SF_vars(MainPop)

FairSpec == Spec /\ Fairness

------------------------------------------------------------------------------
(* Properties *)

TypeOK ==
    /\ rx_pool_busy \subseteq Bufs
    /\ armed \in Seq(Bufs)
    /\ ready \in Seq(Descriptors)
    /\ rest \in 0..MaxFrames
    /\ irq \in BOOLEAN
    /\ isr \in {"idle", "read", "build", "deliver"}
    /\ rx_frame_bufs \in Seq(Bufs)
    /\ pRxStart \in 0..MaxFrames
    /\ got \in Descriptors \cup {None}
    /\ frame_ring \in [Slots -> 0..MaxFrames]
    /\ frame_head \in Slots /\ frame_tail \in Slots
    /\ pc \in {"pending", "len", "can_xmit", "copy", "pop"}
    /\ {len, arrived, last, forwarded} \subseteq 0..MaxFrames
    /\ parked \subseteq Bufs

\* Between the interrupt that fills the ring and the main loop that empties
\* it there is one bounded queue: frames are forwarded whole, in order and at
\* most once, never the partial frame of a long one, and a good frame is
\* dropped only when the ring is full (frame_ring_alloc, _push, _pop_frame).
Ring == INSTANCE FrameQueue WITH
    ROOM <- ETH_FRAME_RING_SIZE - 1,
    queue <- IF pc = "pop" THEN Tail(Waiting) ELSE Waiting

RingSpec == Ring!Spec

\* From reading the length to popping, whatever the interrupt does meanwhile,
\* the main loop looks at one and the same frame: TinyUSB is offered the
\* length of the frame it then gets (main.c:73-81).
SlotStable ==
    pc \in {"can_xmit", "copy", "pop"} =>
        frame_head # frame_tail /\ len = frame_ring[frame_tail]

\* The buffers the interrupt has in hand.
InHand == IF isr = "idle" THEN {} ELSE Range(rx_frame_bufs)

\* Every buffer marked busy has one owner: a descriptor, the interrupt, or a
\* frame that ReadData took in parts, whose first buffers are lost when the
\* count is reset (eth_bridge.c:127).  No buffer is lost in another way, and
\* none is given to the DMA twice.
PoolAccounted ==
    /\ rx_pool_busy = Range(armed) \cup Filled \cup InHand \cup parked
    /\ IsInjective(armed)
    /\ \A i, j \in DOMAIN ready : ready[i].buf = ready[j].buf => i = j
    /\ Range(armed) \cap Filled = {}
    /\ (Range(armed) \cup Filled) \cap (InHand \cup parked) = {}
    /\ InHand \cap parked = {}

\* A good frame on its way through the bridge.
Here(f) ==
    \/ \E d \in Range(ready) : d.frame = f /\ d.kind = "good"
    \/ f \in Range(Waiting)

\* The receiver does not stand still.  No frame is left behind, in a
\* descriptor after the last interrupt or in the ring after the last arrival:
\* while the host takes frames, each is forwarded, or dropped because the ring
\* was full.  And unless every buffer has been lost to frames taken in parts,
\* the DMA has a buffer to fill again and again (eth_bridge.c:93-149).
ReceiveGoesOn ==
    /\ \A f \in Frames : Here(f) ~> ~Here(f)
    /\ [](parked # Bufs) => []<>(armed # <<>>)
==============================================================================
