------------------------------- MODULE PcanCan -------------------------------
(***************************************************************************)
(* The CAN driver of the adapter, src/src/c/pcan_can.c: the software       *)
(* transmit FIFO (a ring with a head, where frames are put, and a tail,    *)
(* from which the polling loop hands them to the controller), and the      *)
(* calls that reconfigure, start and stop the controller.                  *)
(*                                                                         *)
(* The bxCAN controller and the HAL below the driver are modelled from how *)
(* the driver uses them: three transmit mailboxes sent in request order    *)
(* (TransmitFifoPriority, line 56), retransmission until acknowledged      *)
(* (AutoRetransmission, line 54), and the HAL's READY / LISTENING states.  *)
(*                                                                         *)
(* A frame is named by its acceptance number, so "in order" and "at most   *)
(* once" can be said.  The statistics counters nobody reads (tx_msgs,      *)
(* tx_errs, rx_msgs, ...) are left out; the receive path, which keeps no   *)
(* state in this file, is part of PcanRecords.                             *)
(***************************************************************************)
EXTENDS Naturals, Sequences

CONSTANTS
    CAN_TX_FIFO_SIZE,  \* slots of the ring, 100 in the code
    MAILBOXES,         \* transmit mailboxes of the controller, 3
    MaxAccepted,       \* bound: frames the caller has accepted
    MaxOvfs            \* bound: refusals counted

ASSUME FifoAssumption ==
    /\ CAN_TX_FIFO_SIZE \in Nat /\ CAN_TX_FIFO_SIZE >= 2
    /\ MAILBOXES \in Nat \ {0}
    /\ MaxAccepted \in Nat
    /\ MaxOvfs \in Nat

Slots == 0 .. CAN_TX_FIFO_SIZE - 1
Frames == 1 .. MaxAccepted

HalStates == {"READY", "LISTENING"}
Modes == {"NORMAL", "SILENT", "LOOPBACK"}

VARIABLES
    tx_fifo,    \* the ring; 0 stands for a slot never written
    tx_head,
    tx_tail,
    tx_ovfs,
    bus_active, \* what the caller last asked of set_bus_active
    state,      \* HAL_CAN_StateTypeDef of g_hcan
    mode,       \* g_hcan.Init.Mode, as given to the controller
    mailbox,    \* controller: requested and not yet sent, oldest first
    wire,       \* history: frames sent on the bus, in order
    accepted,   \* history: frames accepted by send_message
    handed      \* history: frames moved from the ring to a mailbox

fifoVars == <<tx_fifo, tx_head, tx_tail, tx_ovfs, accepted, handed>>
ctrlVars == <<bus_active, state, mode, mailbox, wire>>
vars == <<fifoVars, ctrlVars>>

------------------------------------------------------------------------------
(* The ring *)

\* Fault: the wrap-around is missing.
SuccNoWrap(i) == i + 1

\* The index after i: "+ 1; if (== CAN_TX_FIFO_SIZE) = 0".
Succ(i) == IF i + 1 = CAN_TX_FIFO_SIZE THEN 0 ELSE i + 1

\* Frames between tail and head.
Queued ==
    IF tx_tail <= tx_head THEN tx_head - tx_tail
                          ELSE tx_head + CAN_TX_FIFO_SIZE - tx_tail

\* The slot k places behind the tail.
Slot(k) ==
    IF tx_tail + k < CAN_TX_FIFO_SIZE THEN tx_tail + k
                                      ELSE tx_tail + k - CAN_TX_FIFO_SIZE

\* What the ring holds, oldest first.
Waiting == [k \in 1..Queued |-> tx_fifo[Slot(k - 1)]]

\* The controller takes part in bus traffic and may drive the bus.
Sending == state = "LISTENING" /\ mode # "SILENT"

------------------------------------------------------------------------------
Init ==
    /\ tx_fifo = [i \in Slots |-> 0]
    /\ tx_head = 0
    /\ tx_tail = 0
    /\ tx_ovfs = 0
    /\ bus_active = FALSE
    /\ state = "READY"
    /\ mode = "NORMAL"
    /\ mailbox = <<>>
    /\ wire = <<>>
    /\ accepted = 0
    /\ handed = 0

\* Fault: a full ring is not noticed.
AcceptOverwriting ==
    /\ accepted < MaxAccepted
    /\ tx_fifo' = [tx_fifo EXCEPT ![tx_head] = accepted + 1]
    /\ tx_head' = Succ(tx_head)
    /\ accepted' = accepted + 1
    /\ UNCHANGED <<tx_tail, tx_ovfs, handed>>

\* pcan_can_send_message: the protocol layer calls it only while bus_active
\* (pcan_protocol.c:394).  A full ring refuses the frame and counts it.
Accept ==
    /\ Succ(tx_head) # tx_tail
    /\ accepted < MaxAccepted
    /\ tx_fifo' = [tx_fifo EXCEPT ![tx_head] = accepted + 1]
    /\ tx_head' = Succ(tx_head)
    /\ accepted' = accepted + 1
    /\ UNCHANGED <<tx_tail, tx_ovfs, handed>>

\* Fault: the ring counts as full one frame early.
RefuseEarly ==
    /\ Succ(Succ(tx_head)) = tx_tail
    /\ tx_ovfs < MaxOvfs
    /\ tx_ovfs' = tx_ovfs + 1
    /\ UNCHANGED <<tx_fifo, tx_head, tx_tail, accepted, handed>>

Refuse ==
    /\ Succ(tx_head) = tx_tail
    /\ tx_ovfs < MaxOvfs
    /\ tx_ovfs' = tx_ovfs + 1
    /\ UNCHANGED <<tx_fifo, tx_head, tx_tail, accepted, handed>>

SendMessage ==
    /\ bus_active
    /\ Accept \/ Refuse
    /\ UNCHANGED ctrlVars

\* Fault: the result of HAL_CAN_AddTxMessage is ignored.
FlushTxUnchecked ==
    /\ tx_head # tx_tail
    /\ mailbox' = IF Len(mailbox) < MAILBOXES
                    THEN Append(mailbox, tx_fifo[tx_tail]) ELSE mailbox
    /\ tx_tail' = Succ(tx_tail)
    /\ handed' = handed + 1
    /\ UNCHANGED <<tx_fifo, tx_head, tx_ovfs, accepted>>
    /\ UNCHANGED <<bus_active, state, mode, wire>>

\* Fault: the emptiness test compares the wrong pair of indices.
FlushTxKeepsOne ==
    /\ tx_head # tx_tail
    /\ tx_head # Succ(tx_tail)
    /\ Len(mailbox) < MAILBOXES
    /\ mailbox' = Append(mailbox, tx_fifo[tx_tail])
    /\ tx_tail' = Succ(tx_tail)
    /\ handed' = handed + 1
    /\ UNCHANGED <<tx_fifo, tx_head, tx_ovfs, accepted>>
    /\ UNCHANGED <<bus_active, state, mode, wire>>

\* pcan_can_flush_tx, called by every pcan_can_poll: at most one frame moves
\* to a mailbox.  HAL_CAN_AddTxMessage takes it in READY as in LISTENING and
\* fails only when no mailbox is empty.
FlushTx ==
    /\ tx_head # tx_tail
    /\ Len(mailbox) < MAILBOXES
    /\ mailbox' = Append(mailbox, tx_fifo[tx_tail])
    /\ tx_tail' = Succ(tx_tail)
    /\ handed' = handed + 1
    /\ UNCHANGED <<tx_fifo, tx_head, tx_ovfs, accepted>>
    /\ UNCHANGED <<bus_active, state, mode, wire>>

\* Fault: TransmitFifoPriority disabled, so a later request may go first.
TransmitAnyMailbox ==
    /\ Sending
    /\ \E i \in DOMAIN mailbox :
         /\ wire' = Append(wire, mailbox[i])
         /\ mailbox' = SubSeq(mailbox, 1, i - 1)
                          \o SubSeq(mailbox, i + 1, Len(mailbox))
    /\ UNCHANGED <<fifoVars, bus_active, state, mode>>

\* The controller sends its oldest request and the bus acknowledges it.
Transmit ==
    /\ Sending
    /\ mailbox # <<>>
    /\ wire' = Append(wire, Head(mailbox))
    /\ mailbox' = Tail(mailbox)
    /\ UNCHANGED <<fifoVars, bus_active, state, mode>>

\* HAL_CAN_AbortTxRequest on the three mailboxes: every request is dropped,
\* but the one on the bus at that moment (sending) may still complete.
AbortTxRequest(sending) ==
    /\ mailbox' = <<>>
    /\ \/ wire' = wire
       \/ /\ sending
          /\ mailbox # <<>>
          /\ wire' = Append(wire, Head(mailbox))

\* pcan_can_set_bus_active(1): start, then abort.  HAL_CAN_Start fails, with
\* no effect, when the controller already runs; the abort is made anyway.
\* That it may time out on a bus held dominant is left out.
BusOn ==
    /\ bus_active' = TRUE
    /\ state' = "LISTENING"
    /\ AbortTxRequest(mode # "SILENT")
    /\ UNCHANGED <<fifoVars, mode>>

\* pcan_can_set_bus_active(0): abort, then stop.
BusOff ==
    /\ bus_active' = FALSE
    /\ AbortTxRequest(Sending)
    /\ state' = "READY"
    /\ UNCHANGED <<fifoVars, mode>>

\* HAL_CAN_Init with a new Init.Mode: the controller enters initialisation
\* mode and stays there (HAL state READY) until HAL_CAN_Start.  Requests in
\* the mailboxes survive.
Reinit(m) ==
    /\ mode' = m
    /\ state' = "READY"
    /\ UNCHANGED <<fifoVars, bus_active, mailbox, wire>>

SetBitrate == Reinit(mode)
SetSilent(silent_mode) == Reinit(IF silent_mode THEN "SILENT" ELSE "NORMAL")
SetLoopback(loopback) == Reinit(IF loopback THEN "LOOPBACK" ELSE "NORMAL")

------------------------------------------------------------------------------
Next ==
    \/ SendMessage
    \/ FlushTx
    \/ Transmit
    \/ BusOn
    \/ BusOff
    \/ SetBitrate
    \/ \E on \in BOOLEAN : SetSilent(on) \/ SetLoopback(on)

Spec == Init /\ [][Next]_vars

\* main() polls for ever, so the ring is drained whenever it can be; and the
\* bus acknowledges a frame that is sent for long enough.
Fairness == WF_vars(FlushTx) /\ WF_vars(Transmit)

FairSpec == Spec /\ Fairness

------------------------------------------------------------------------------
(* Properties *)

TypeOK ==
    /\ tx_fifo \in [Slots -> 0..MaxAccepted]
    /\ tx_head \in Slots
    /\ tx_tail \in Slots
    /\ tx_ovfs \in 0..MaxOvfs
    /\ bus_active \in BOOLEAN
    /\ state \in HalStates
    /\ mode \in Modes
    /\ mailbox \in Seq(Frames)
    /\ wire \in Seq(Frames)
    /\ accepted \in 0..MaxAccepted
    /\ handed \in 0..MaxAccepted

\* The ring holds exactly the frames accepted and not yet handed over, each
\* in its place, wherever head and tail stand and however often they have
\* wrapped: no accepted frame is overwritten, skipped or handed over twice
\* (pcan_can_send_message and pcan_can_flush_tx).
FifoHoldsAccepted ==
    /\ Queued = accepted - handed
    /\ \A k \in Slots : k < Queued => tx_fifo[Slot(k)] = handed + k + 1

\* The controller's requests and the frames already sent are in the order of
\* acceptance and none appears twice, over all starts, stops and aborts
\* (pcan_can_set_bus_active) and reconfigurations between them.
Ordered(s) == \A i, j \in DOMAIN s : i < j => s[i] < s[j]

SentInOrder ==
    /\ Ordered(wire \o mailbox)
    /\ \A i \in DOMAIN (wire \o mailbox) : (wire \o mailbox)[i] <= handed

\* The driver implements the abstract transmit queue: the ring behind the
\* mailboxes is one queue in acceptance order, a refusal means the ring is
\* full, and only what the controller holds is lost when the bus is started
\* or stopped.
Queue == INSTANCE TxQueue WITH
    ROOM <- CAN_TX_FIFO_SIZE - 1,
    REACH <- MAILBOXES,
    accepted <- accepted,
    refused <- tx_ovfs,
    queue <- mailbox \o Waiting,
    wire <- wire

QueueSpec == Queue!Spec

Pending(f) ==
    \/ \E i \in DOMAIN mailbox : mailbox[i] = f
    \/ \E k \in DOMAIN Waiting : Waiting[k] = f

Sent(f) == \E i \in DOMAIN wire : wire[i] = f

\* A frame that was accepted is lost only where the code aborts it on
\* purpose, when the bus is started or stopped: not when the mailboxes are
\* full, not by a reconfiguration, not between the ring and the controller.
LostOnlyByBusCommand ==
    [][(\E f \in Frames : Pending(f) /\ ~Pending(f)' /\ ~Sent(f)')
          => BusOn \/ BusOff]_vars

\* Once the controller stays on the bus, every accepted frame leaves the
\* driver: none is stranded in the ring behind a head and tail that compare
\* equal, or behind a mailbox that is never refilled (pcan_can_poll).
FramesLeave ==
    \A f \in Frames : <>[]Sending => (Pending(f) ~> ~Pending(f))

\* README.md:98 of the repository says that BUS on "starts" bxCAN: after it,
\* and until BUS off, the controller runs.
BusOnMeansRunning == bus_active => state = "LISTENING"
==============================================================================
