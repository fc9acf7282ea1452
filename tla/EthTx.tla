-------------------------------- MODULE EthTx --------------------------------
(***************************************************************************)
(* The transmit half of the USB-Ethernet bridge, host to wire, and the     *)
(* link state: src/examples/usb_eth_f7/src/eth_bridge.c with the loop and  *)
(* the receive callback of main.c.  The main loop copies a frame from      *)
(* TinyUSB into a free buffer of tx_queue and submits it; the DMA sends    *)
(* what is submitted, in order; and HAL_ETH_ReleaseTxPacket frees the      *)
(* buffers of what was sent.  The main loop calls it when it finds no free *)
(* buffer, and the Ethernet interrupt calls it too and may preempt the     *)
(* main loop between any two of its steps, in that very call included.     *)
(*                                                                         *)
(* The HAL, its DMA and TinyUSB are modelled from how this code uses them. *)
(* The PHY sees the cable; its registers can be read, or cannot.           *)
(***************************************************************************)
EXTENDS Naturals, Sequences, Functions

CONSTANTS
    ETH_TX_QUEUE_SIZE,   \* buffers, 4 in the code
    ETH_TX_DESC_CNT,     \* descriptors
    Abilities,           \* speed and duplex bits the PHY's BSR shows
    MaxFrames,           \* bound: frames accepted
    MaxPlugs             \* bound: changes of the cable

ASSUME TxAssumption ==
    /\ {ETH_TX_QUEUE_SIZE, ETH_TX_DESC_CNT} \subseteq Nat \ {0}
    /\ {MaxFrames, MaxPlugs} \subseteq Nat

Bufs == 1 .. ETH_TX_QUEUE_SIZE
Frames == 1 .. MaxFrames

VARIABLES
    in_use,        \* the buffers marked in use
    data,          \* the frame in each buffer, 0 for none yet
    dma,           \* HAL: the buffers submitted and not sent, in order
    sent,          \* HAL: the buffers sent and not released, in order
    irq,           \* a transmit interrupt is pending
    started,       \* HAL: the interface runs
    pc,            \* where the main loop is
    index,         \* main: the buffer it looks at in a search
    tx,            \* main: the buffer it has found, or is releasing; 0: none
    packet,        \* TinyUSB: "good" or "bad" packet to be taken, or "none"
    phy_found,
    link_up,
    host_link_up,  \* what main has told TinyUSB
    mode,          \* HAL: speed and duplex of the MAC
    cable,         \* the PHY sees a link
    plugs,         \* history: changes of the cable
    accepted,      \* history: frames accepted; a frame is named by its number
    wire,          \* history: frames sent
    full           \* history: all buffers were in use as the search restarted

halVars == <<dma, sent, irq, started, wire>>
txVars == <<in_use, data, index, tx, packet, accepted, full>>
linkVars == <<phy_found, link_up, host_link_up, mode>>
cableVars == <<cable, plugs>>
vars == <<halVars, txVars, pc, linkVars, cableVars>>

------------------------------------------------------------------------------
\* Speed and duplex that eth_update_link takes from the bits of the BSR.
Mode(bits) ==
    IF "100_FULL" \in bits THEN "100_FULL"
    ELSE IF "100_HALF" \in bits THEN "100_HALF"
    ELSE IF "10_FULL" \in bits THEN "10_FULL"
    ELSE "10_HALF"

\* Fault: a lost link is returned from before it is noted.
UpdateLinkUpOnly ==
    /\ link_up' = (link_up \/ cable)
    /\ IF cable /\ ~link_up
       THEN mode' \in {Mode(Abilities), mode}
       ELSE UNCHANGED mode

\* eth_update_link with a BSR that could be read.  The HAL may refuse the
\* configuration, and its answer is ignored.
UpdateLink ==
    /\ link_up' = cable
    /\ IF cable /\ ~link_up
       THEN mode' \in {Mode(Abilities), mode}
       ELSE UNCHANGED mode

\* What eth_bridge_init leaves: HAL_ETH_Init may fail, no PHY may be found,
\* HAL_ETH_Start_IT may fail, and the first BSR may be unreadable.
Init ==
    /\ in_use = {} /\ data = [b \in Bufs |-> 0]
    /\ dma = <<>> /\ sent = <<>> /\ irq = FALSE
    /\ started \in BOOLEAN
    /\ pc = "task" /\ index = 1 /\ tx = 0 /\ packet = "none"
    /\ phy_found \in BOOLEAN
    /\ cable \in BOOLEAN
    /\ link_up \in {FALSE, started /\ phy_found /\ cable}
    /\ host_link_up = FALSE
    /\ mode \in IF link_up
                THEN {Mode(Abilities), "100_FULL"} ELSE {"100_FULL"}
    /\ plugs = 0 /\ accepted = 0 /\ wire = <<>> /\ full = FALSE

------------------------------------------------------------------------------
(* Host, wire and interrupt *)

\* TinyUSB has a packet to hand over.
HostPacket(p) ==
    /\ packet = "none"
    /\ accepted < MaxFrames
    /\ packet' = p
    /\ UNCHANGED <<in_use, data, index, tx, accepted, full>>
    /\ UNCHANGED <<halVars, pc, linkVars, cableVars>>

\* The DMA sends the oldest frame it has.
Send ==
    /\ started
    /\ dma # <<>>
    /\ dma' = Tail(dma)
    /\ sent' = Append(sent, Head(dma))
    /\ wire' = Append(wire, data[Head(dma)])
    /\ irq' = TRUE
    /\ UNCHANGED <<started, txVars, pc, linkVars, cableVars>>

\* Fault: the callback takes no address for that of a buffer.
FreedNone == {}

Freed == Range(sent)

\* HAL_ETH_TxCpltCallback and HAL_ETH_ErrorCallback: HAL_ETH_ReleaseTxPacket
\* calls HAL_ETH_TxFreeCallback for each frame sent.  A fatal error stops
\* the interface for good.
Interrupt(event) ==
    /\ event = "sent" => irq
    /\ event # "sent" => started
    /\ irq' = FALSE
    /\ in_use' = in_use \ Freed
    /\ sent' = <<>>
    /\ started' = (started /\ event # "fatal")
    /\ UNCHANGED <<dma, wire, data, index, tx, packet, accepted, full>>
    /\ UNCHANGED <<pc, linkVars, cableVars>>

\* The cable is plugged in or pulled out.
Plug ==
    /\ plugs < MaxPlugs
    /\ plugs' = plugs + 1
    /\ cable' = ~cable
    /\ UNCHANGED <<halVars, txVars, pc, linkVars>>

------------------------------------------------------------------------------
(* The main loop: tud_task and eth_bridge_transmit *)

\* tud_network_recv_cb is offered the packet, for the first time or again.
Offer ==
    /\ pc = "task"
    /\ packet # "none"
    /\ IF link_up /\ packet = "good"
       THEN pc' = "find" /\ index' = 1
       ELSE UNCHANGED <<pc, index>>
    /\ full' = FALSE
    /\ UNCHANGED <<in_use, data, tx, packet, accepted>>
    /\ UNCHANGED <<halVars, linkVars, cableVars>>

\* TinyUSB drops the packet it could not hand over.
GiveUp ==
    /\ pc = "task"
    /\ packet' = "none"
    /\ packet # "none"
    /\ UNCHANGED <<in_use, data, index, tx, accepted, full>>
    /\ UNCHANGED <<halVars, pc, linkVars, cableVars>>

\* Fault: the search does not look whether the buffer is free.
TakenNever(b) == FALSE

Taken(b) == b \in in_use

\* Fault: the last buffer is not looked at.
LastBufShort == ETH_TX_QUEUE_SIZE - 1

\* Fault: the search goes one buffer too far.
LastBufBeyond == ETH_TX_QUEUE_SIZE + 1

LastBuf == ETH_TX_QUEUE_SIZE

\* One step of a search for a free buffer, the first or the second one.
Search(at, next) ==
    /\ pc = at
    /\ IF ~Taken(index)
       THEN /\ in_use' = in_use \cup {index}
            /\ tx' = index
            /\ pc' = "copy"
            /\ UNCHANGED index
       ELSE /\ UNCHANGED <<in_use, tx>>
            /\ IF index < LastBuf
               THEN index' = index + 1 /\ pc' = pc
               ELSE index' = 1 /\ pc' = next
    /\ UNCHANGED <<data, packet, accepted, full>>
    /\ UNCHANGED <<halVars, linkVars, cableVars>>

Find == Search("find", "release")
FindAgain == Search("again", "task")

\* HAL_ETH_ReleaseTxPacket, called by the main loop: a frame that was sent.
Release ==
    /\ pc = "release"
    /\ IF sent # <<>>
       THEN tx' = Head(sent) /\ pc' = "free" /\ UNCHANGED full
       ELSE tx' = tx /\ pc' = "again" /\ full' = (in_use = Bufs)
    /\ UNCHANGED <<in_use, data, index, packet, accepted>>
    /\ UNCHANGED <<halVars, linkVars, cableVars>>

\* HAL_ETH_TxFreeCallback for it; the interrupt may have been there first.
Free ==
    /\ pc = "free"
    /\ in_use' = in_use \ {tx}
    /\ sent' = IF sent # <<>> /\ Head(sent) = tx THEN Tail(sent) ELSE sent
    /\ tx' = 0
    /\ pc' = "release"
    /\ UNCHANGED <<dma, irq, started, wire, data, index, packet, accepted>>
    /\ UNCHANGED <<full, linkVars, cableVars>>

\* memcpy into the buffer.
Copy ==
    /\ pc = "copy"
    /\ data' = [data EXCEPT ![tx] = accepted + 1]
    /\ pc' = "submit"
    /\ UNCHANGED <<in_use, index, tx, packet, accepted, full>>
    /\ UNCHANGED <<halVars, linkVars, cableVars>>

\* Fault: a buffer that could not be submitted stays marked.
SubmitRefusedKeeps == in_use

SubmitRefused == in_use \ {tx}

\* HAL_ETH_Transmit_IT, and tud_network_recv_renew once it is accepted.
Submit ==
    /\ pc = "submit"
    /\ IF started /\ Len(dma) + Len(sent) < ETH_TX_DESC_CNT
       THEN /\ dma' = Append(dma, tx)
            /\ accepted' = accepted + 1
            /\ packet' = "none"
            /\ UNCHANGED in_use
       ELSE /\ in_use' = SubmitRefused
            /\ UNCHANGED <<dma, accepted, packet>>
    /\ tx' = 0
    /\ pc' = "task"
    /\ UNCHANGED <<sent, irq, started, wire, data, index, full>>
    /\ UNCHANGED <<linkVars, cableVars>>

------------------------------------------------------------------------------
(* The main loop: eth_bridge_poll and what the host is told *)

\* tud_task returns.
TaskDone ==
    /\ pc = "task"
    /\ pc' = "poll"
    /\ UNCHANGED <<halVars, txVars, linkVars, cableVars>>

\* eth_bridge_poll: it is not time yet, or the PHY cannot be read.
PollIdle ==
    /\ pc = "poll"
    /\ pc' = "link"
    /\ UNCHANGED <<halVars, txVars, linkVars, cableVars>>

\* eth_bridge_poll: 500 ms have passed, and eth_update_link reads the PHY.
PollLink ==
    /\ pc = "poll"
    /\ phy_found
    /\ UpdateLink
    /\ pc' = "link"
    /\ UNCHANGED <<halVars, txVars, phy_found, host_link_up, cableVars>>

\* tud_network_link_state if the link has changed; then receive (EthRx).
TellHost ==
    /\ pc = "link"
    /\ host_link_up' = link_up
    /\ pc' = "task"
    /\ UNCHANGED <<halVars, txVars, phy_found, link_up, mode, cableVars>>

------------------------------------------------------------------------------
Wire == Send \/ \E event \in {"sent", "error", "fatal"} : Interrupt(event)

Transmit == Offer \/ Find \/ Release \/ Free \/ FindAgain \/ Copy \/ Submit

Loop == TaskDone \/ PollIdle \/ PollLink \/ TellHost

Next ==
    \/ \E p \in {"good", "bad"} : HostPacket(p)
    \/ Wire \/ Plug \/ Transmit \/ GiveUp \/ Loop

Spec == Init /\ [][Next]_vars

\* The DMA sends, interrupts are served, the main loop goes on, tud_task
\* returns and offers a packet again and again, and the PHY can be read now
\* and then.
Fairness ==
    /\ WF_vars(Send)
    /\ WF_vars(Interrupt("sent"))
    /\ WF_vars(Find \/ Release \/ Free \/ FindAgain \/ Copy \/ Submit)
    /\ WF_vars(PollIdle \/ PollLink)
    /\ WF_vars(TellHost)
    /\ SF_vars(TaskDone)
    /\ SF_vars(Offer)
    /\ SF_vars(PollLink)

FairSpec == Spec /\ Fairness

------------------------------------------------------------------------------
(* Properties *)

TypeOK ==
    /\ in_use \subseteq Bufs
    /\ data \in [Bufs -> 0..MaxFrames]
    /\ dma \in Seq(Bufs) /\ sent \in Seq(Bufs)
    /\ irq \in BOOLEAN /\ started \in BOOLEAN /\ full \in BOOLEAN
    /\ phy_found \in BOOLEAN /\ cable \in BOOLEAN
    /\ link_up \in BOOLEAN /\ host_link_up \in BOOLEAN
    /\ pc \in {"task", "find", "release", "free", "again", "copy", "submit",
               "poll", "link"}
    /\ index \in Bufs
    /\ tx \in Bufs \cup {0}
    /\ packet \in {"none", "good", "bad"}
    /\ mode \in {"100_FULL", "100_HALF", "10_FULL", "10_HALF"}
    /\ plugs \in 0..MaxPlugs
    /\ accepted \in 0..MaxFrames
    /\ wire \in Seq(0..MaxFrames)

\* The buffer the main loop fills or is about to submit.
Filling == IF pc \in {"copy", "submit"} THEN {tx} ELSE {}

\* A buffer is in use exactly while the main loop fills it or the HAL holds
\* it, never both and never twice: none leaks, and no release of the
\* interrupt or of the main loop, which may free the same one twice, frees a
\* buffer that has got a new owner (eth_bridge.c:151-174, 326-382).
BuffersOwned ==
    /\ in_use = Filling \cup Range(dma) \cup Range(sent)
    /\ Filling \cap (Range(dma) \cup Range(sent)) = {}
    /\ Range(dma) \cap Range(sent) = {}
    /\ IsInjective(dma) /\ IsInjective(sent)

\* Host to wire the bridge is a queue of at most ETH_TX_QUEUE_SIZE frames:
\* they go out in the order they were taken, once, and as they were taken,
\* although their buffers are used again and again.
Queue == INSTANCE TxQueue WITH
    ROOM <- ETH_TX_QUEUE_SIZE - 1,
    REACH <- 1,
    refused <- 0,
    queue <- [i \in 1..Len(dma) |-> accepted - Len(dma) + i]

QueueSpec == Queue!Spec

\* The search gives up only if, when it started over, every buffer was in
\* use: a buffer the interrupt frees meanwhile may be missed, but one that
\* was free before is found (eth_bridge.c:343-358).
RefusedForCause ==
    [][pc = "again" /\ pc' = "task" => full]_vars

\* A packet that fits, and that TinyUSB offers again as eth_bridge.h:16 says
\* it will, is taken in the end, unless the link or the interface is down:
\* full buffers come back without the main loop doing anything for them.
FrameAccepted ==
    packet = "good" ~> packet = "none" \/ ~link_up \/ ~started

\* Once the cable is left alone, the host is told the state of the link, in
\* whatever order it changed, was polled and was told before
\* (eth_bridge.c:204-218, main.c:66-71).
LinkTold == phy_found => <>[](host_link_up = cable)
==============================================================================
