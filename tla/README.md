# USB2X in TLA+

A specification of the firmware in this repository: `src/` is the repository
root, so `src/src/c/pcan_can.c` is its `src/c/pcan_can.c`. The modules are
translated from the C code; where a document or a comment says something else,
the difference is a finding (last section).

## 1. The system

The main program is a USB-to-CAN adapter on an STM32F072. It is one polled
loop (`main.c`): `pcan_usb_poll` calls the USB interrupt handler as a function,
`pcan_led_poll` blinks, `pcan_protocol_poll` emits time-sync records, flushes
the record buffer and polls the CAN driver. No peripheral interrupt is used
(SysTick only counts), so the C code runs sequentially; what runs concurrently
is the hardware: the CAN controller with its three mailboxes, the USB
controller with its transfers, the host and the bus. A second program under
`examples/` bridges USB and Ethernet on an STM32F746; there the Ethernet
interrupt preempts the main loop.

| component | state it keeps | operations | talks to | hard part | what makes it correct |
| --- | --- | --- | --- | --- | --- |
| CAN driver, `pcan_can.c` | ring `tx_fifo`, `tx_head`, `tx_tail`; HAL state and mode; mailboxes | send_message, flush_tx (by poll), set_bus_active, set_bitrate, set_silent, set_loopback | protocol layer (calls, rx and error callbacks), bxCAN | wrap, full mailboxes, aborts, reconfiguration while on the bus | a FIFO; frames reach the bus in order, at most once; none is lost except by a bus command; it drains |
| record buffer, `pcan_protocol.c` | `pcan_records` (buffer, pos, ts_counter), error flags and mask | request, commit, flush, frame / time-sync / error records | CAN driver (rx callback), USB data pump | block boundaries, 8-bit offset, refused flush, partial time-sync | what the host is handed can be parsed and is complete; losses are flagged |
| USB class, `pcan_usb.c` | `data_fsm.state`, `ep_tx_in_use`, `total_length`, `pClassData` | device_init / deinit / setup / data_in / data_out, pcan_flush_data, send_command_buffer | ST library, protocol layer | resets and vendor requests in the middle of a transfer | one transfer at a time from one buffer; endpoints keep serving |
| host-to-device records, `pcan_protocol.c:386-492, 698-743` | none of its own | process_data, decode_data_frame | CAN driver, record buffer (echo) | waits up to 1 s per record inside the USB handler | every frame accepted, or TXFULL; echo in time order |
| command channel, `pcan_protocol.c:568-696` | device id, LED, VCC, BTR, serial | process_command | all of the above | order of commands | settings are applied and read back |
| SJA1000 shadow, `:74-184` | 6 registers, IC mode | write, read | command channel | two register maps over one array | each of the six reads what was written to it, in either mode |
| bit timing, `:494-505`, `pcan_can.c:81-122` | `g_hcan.Init` | set_bitrate | command channel | clamping | same bit rate as an SJA1000 at 8 MHz |
| time, `pcan_timestamp.c`, `pcan_protocol_poll` | 16-bit tick and millisecond counters, `last_timestamp_sync`, `last_flush` | ticks, millis, poll | everybody | wrap-around, 0 as a sentinel | a time-sync record every second, a ZLP after a flush |
| LEDs, `pcan_led.c` | mode, arg, delay, timestamp, state per LED | set_mode, poll | command channel, data path | absolute 16-bit times | each LED comes to rest as last told |
| Ethernet bridge, wire to host, `examples/usb_eth_f7/src/eth_bridge.c`, `main.c` | receive pool, frame ring, buffers of the frame being read | HAL callbacks (interrupt): allocate, link, complete; main loop: pending, len, copy, pop | ETH HAL and its DMA, TinyUSB | interrupt against main loop, frames in several buffers, coalesced interrupts | frames whole, in order, once; no buffer leaks; no frame is left behind |
| Ethernet bridge, host to wire, and the link, same files | transmit buffers, link flag, what the host was told | transmit, HAL callbacks (interrupt): sent, error; poll, update_link | the same | both sides release buffers; refusals and retries | one owner per buffer; frames in order and unchanged; refused for cause; the host learns the link |
| glue, descriptors, variants, start-up | constants, pins | forwards | HAL | none | not modelled: constant data, pure I/O, vendor boilerplate |

`PROJECT.json` lists the hazards of this code line by line, with the properties
that would catch each; those without a property say why.

## 2. Modules

    TxQueue           a transmit queue with bounded losses (abstract)
      ^ implements
    PcanCan           ring, mailboxes, controller        PcanCan_proofs
    PcanRecords       record buffer and error flags      PcanRecords_proofs
      MCPcanRecords   its frames and masks for TLC
    PcanUsb           IN endpoints of the USB class      PcanUsb_proofs
    PcanDevice        super-loop, 16-bit time, waits     PcanDevice_proofs
    PcanCommand       commands, packets, LEDs            PcanCommand_proofs
      HostPacket      MSG OUT packets by the documented format (operators)
      MsgOut          how a record of one is read (operators)
      Sja1000         register shadow
      PcanLed         LEDs and their 16-bit times
      MCPcanCommand   its packets and the choice of a part for TLC

    FrameQueue        a bounded queue of frames (abstract)
      ^ implements
    EthRx             bridge, wire to host               EthRx_proofs
    TxQueue           (as above)
      ^ implements
    EthTx             bridge, host to wire; the link     EthTx_proofs
      BufferQueues    lemmas about queues of buffers, used by both proofs

`PcanCommand` extends `HostPacket`, `MsgOut`, `Sja1000` and `PcanLed`: commands
and packets act on registers and LEDs. The other component modules share no
variable: each component is specified against what its neighbours may do, and is
correct for every neighbour that does only that. `PcanCan` lets the caller send
frames whenever `bus_active` is set, `PcanRecords` lets each flush be accepted
or refused, `PcanUsb` lets a buffer be offered at any time. `PcanDevice` is the
loop that calls all three; it keeps of each what the loop can see (how full,
whether busy).

### PcanCan and TxQueue

`tx_fifo`, `tx_head`, `tx_tail`, `tx_ovfs` are the fields of `can_dev`; `state`
and `mode` are those of the HAL handle; `mailbox` is the controller's requests
in request order (`TransmitFifoPriority` is enabled). A frame is its acceptance
number. `Accept` / `Refuse` are the two outcomes of `pcan_can_send_message`,
`FlushTx` is the part of `pcan_can_poll` that moves a frame, `BusOn` / `BusOff`
are `pcan_can_set_bus_active` with the abort it always makes, and `SetBitrate`,
`SetSilent`, `SetLoopback` all reinitialise the controller. External and
modelled from their use: `Transmit`, `AbortTxRequest` (the frame on the bus at
that moment may still complete), `Reinit` (`HAL_CAN_Init`). The results of the
HAL's start, abort and stop, which `pcan_can_set_bus_active` does not look at,
are assumed to be success (a start on a running controller changes nothing): a
start that times out, on a bus held dominant, is left out.

`TxQueue` has no ring and no mailbox: frames leave a queue from the front, a
bus command may throw away at most as many as the controller holds, and a
refusal needs a full queue. The refinement maps its queue to the mailboxes
followed by the ring.

### PcanRecords

`pos` is a block number and an offset in the block, a record is its kind, its
place and its size, and a block is whether it starts with a header plus its
records. `Request` and `Granted` are `pcan_record_buffer_request`: line 204
takes a position on a block boundary for an empty block, and the 8 bits of
`next` (line 209) are `% NEXT_BLOCKS`. `RxFrame` has the four outcomes of
`pcan_rx_can_frame`, `TimesyncEvent` the three of `pcan_timesync_event`.
`unsent` is history: the records committed since the last reset.

### PcanUsb

Two IN endpoints. The flags are the code's; the controller is a transfer in
flight per endpoint (a number) and a completion that waits for the interrupt
handler. `Transmit` is `USBD_LL_Transmit` with the HAL behind it. `Deconfigure`
is a bus reset or SET_CONFIGURATION(0): it loses the transfer and a completion
not yet served, and the code leaves its flags as they are. It and `VendorInfo`
may come before a completion that waits, since the HAL serves EP0 first. `cut`
is history: a vendor request freed MSG IN under a transfer.

### PcanDevice

`pc` is where the one thread is: in `pcan_usb_poll`, between two records of a
MSG OUT packet, in the wait of `pcan_decode_data_frame`, or at
`pcan_protocol_poll`. `DataIn`, `Packet`, `BusOn`, `BusOff` are what the USB
handler may find to do; it serves any number of them in one call, in any order,
until `UsbDone`. `Record` is a record sent at once or the start of its wait;
`Wait` is one round of it with all that `pcan_can_poll` may call back; `Poll` is
the whole of `pcan_protocol_poll` with the callbacks of its `pcan_can_poll`. The
FIFO and the record buffer are counts. `now` is the tick counter and wraps.

What the code cannot see is history: `since` is the true time since a time-sync
record was last stored, seen by its effect on the buffer (`StoredSync`), not by
`last_timestamp_sync`, which is set also when nothing could be stored;
`excused` says that since then a record waited, or a time-sync fell due with the
buffer full; `busoff` that a bus-off was reported after the last error record;
`held` is the true time of this wait, `lost` whether the last record was given
up; `open` says that a ZLP still has to follow.

### PcanCommand, HostPacket, MsgOut, Sja1000, PcanLed

`device` holds the values that are only kept, `timing` is `g_hcan.Init`,
`sja1000_shadow` and `sja1000_ic_mode` are the code's, `led` is
`led_mode_array`. `Set` is the dispatch of the commands that set, one action
each; `Answer` is what every GET returns, as an operator, since a GET changes
nothing here (its transfer is in `PcanUsb`). `Write` and `Read` use one table of
addresses per mode where the code has a switch. `SetMode` and `Polled` are
`pcan_led_set_mode` and one LED of `pcan_led_poll`, with all sums modulo 2^16
(`WRAP`).

`pcan_protocol_process_data` is `PacketOut`, up to its loop, then `ReadRecord`
for each round that finds a frame, and `StopReading` for its early returns;
`rest` are the bytes at `ptr`, `left` the records still to be looked at. A round
may wait for a slot, up to `WAIT` milliseconds (`d`; the wait itself is in
`PcanDevice`), with the CAN driver polled: a frame from the bus may come between
two records (`RxMessage`), but no command, no other packet and no LED poll, which
ask for `NotReading`. In `MsgOut`, `Readable` has the three checks of the
remaining size, `Used` the advance of the pointer, `FrameOf` the frame.

`HostPacket` is the other side, external: what a host makes of a frame
(`RecordOf`) by the format that README.md:82-92 of the repository gives, and what
a packet is (`IsPacket`): frames, then at most records of another kind or
padding, cut anywhere. `PacketRead` compares two independent readings of the
format: lengths, identifiers, remote frames, echo bytes, length codes above 8.

History: `given` (what each SET gave last), `want` (what each LED was last told
to come to), `packet` (the packet being read, or read last) and `read` (the
frames read in it).

### EthRx and FrameQueue

Three parties without a lock. The DMA fills `armed` buffers and makes them
`ready`; the interrupt (`isr` is where it is) runs `HAL_ETH_RxCpltCallback` step
by step: `Link`, `NoMore`, `Allocate` and `Return` are the calls
`HAL_ETH_ReadData` makes back into the bridge, `Deliver` is the body after it.
The main loop's steps (`pc`) are guarded by `isr = "idle"`, because an interrupt
runs to its end once it has begun; between any two of them it may begin. A
frame is its arrival number and whether it fits: `long` ones need two buffers
and may be read in two parts. `rx_pool_busy`, `rx_frame_bufs`, `frame_ring`,
`frame_head`, `frame_tail` are the code's. `parked` is history: the buffers that
finding 6 loses.

`FrameQueue` has one queue of `ROOM` frames: put, drop when full or one short of
full, forward. One short, because the interrupt sees the slot of a frame that
was copied to the host and not yet popped as taken; the refinement takes that
frame out of the queue when it is copied.

### EthTx and TxQueue

`dma` are the buffers submitted, `sent` those sent and not yet released; both
are the HAL's. The main loop's search for a free buffer advances one buffer per
step, and its release one frame per step (`Release`, `Free`), so that
`Interrupt`, which releases all that was sent, may fall between the HAL's
choice of a packet and the callback for it, and between two looks of a search.
`Interrupt` stands for the completion and the error callback; a fatal error
stops the interface. `Offer` is TinyUSB offering a packet, for the first time
or again; `Plug` is the cable; `PollLink` is `eth_update_link`, whose MAC
configuration the HAL may refuse. The refinement to `TxQueue` maps its queue to
the frames in `dma`, with a reach of one: no bus command exists here.

## 3. Runs

| run | instance | shows |
| --- | --- | --- |
| `can_tx` | 4 slots, 3 mailboxes, 7 frames, 1 refusal | `TypeOK`, `FifoHoldsAccepted`, `SentInOrder`, the refinement `QueueSpec`, `LostOnlyByBusCommand`, and the liveness `FramesLeave` |
| `can_bus` | 3 slots | `BusOnMeansRunning` fails (finding 4) |
| `records` | 3 blocks of 16 bytes, 2 of them addressable, gap 9, 7 records | `TypeOK`, `BlocksLaidOut`, `TimestampWidths`, `ErrorsReported`, `FrameStoredOrFlagged`, `RecordsKept` |
| `records_header` | real geometry (14 x 64, gap 16) | `BlocksHaveHeaders` fails (finding 1) |
| `records_loss` | real geometry | `NoRecordLost` fails (finding 2) |
| `usb` | 3 transfers per endpoint, 2 resets | `TypeOK`, `AssertEpFree`, `StuckOnlyAfterReset`, `BufferDelivered`, and the liveness `EndpointsServe` |
| `usb_vendor` | 2 transfers, 1 reset | `VendorResets` fails (finding 3) |
| `device` | counter of 6 ticks, a second of 2, ZLP after 1; 1 frame, 2 records, packets of 2 | `TypeOK`, `WaitUnderASecond`, `TimesyncOnTime`, `GiveUpJustified`, and the liveness `LoopGoesRound`, `RecordsHandedOver`, `ZlpFollows` |
| `device_timesync` | counter of 8 ticks, a second of 3; packets of 3 | `TimesyncEverySecond` fails (finding 5) |
| `command` | 9 byte values at the limits of each field, 6 registers by 3 values, packets of every two of 24 frames, with or without a status record behind, cut at 12 sizes, a clock of 16 ms with delays 2 and 5 and a blink of 6 | `TypeOK`, `AnswersAsSet`, `TimingAsSet`, `PacketRead`, and the liveness `LedsSettle` |
| `eth_rx` | 4 buffers, 2 descriptors, a ring of 3 slots, 4 frames | `TypeOK`, `SlotStable`, `PoolAccounted`, the refinement `RingSpec`, and the liveness `ReceiveGoesOn` |
| `eth_tx` | 2 buffers, 2 descriptors, 4 frames, 2 changes of the cable | `TypeOK`, `BuffersOwned`, the refinement `QueueSpec`, `RefusedForCause`, and the liveness `FrameAccepted`, `LinkTold` |

Bounds. `MaxAccepted` is 7 so that the 4-slot ring wraps and refills while all
three mailboxes are in use. The record buffer is scaled so that a state space
TLC can exhaust holds the same three boundaries as the real one: the end of a
block, the reach of the 8-bit offset (2 blocks instead of 4) and the end of the
buffer (3 instead of 14), the last beyond the reach of the offset as in the
code, reached by records that end exactly on a block boundary; frames have two
sizes, chosen so that blocks are filled both exactly and not, by a time-sync as
well as by an error record. Every branch of the actions is taken in this run but
one: the drop at line 281, which `FrameStoredOrFlagged` says is never reached.
`MaxUnsent` bounds the records since the last flush. Their two violations use
the real geometry, so they are not artefacts of the scale. `MaxTransfers` and
`MaxResets` let a reset and a vendor request fall before, between and after
transfers, twice. The clock of `PcanDevice` keeps about the proportion of the
real one: the counter wraps after 2.8 seconds (65536 to 23437 ticks; here after
3 seconds of 2 ticks, in `device_timesync` after 2.7 of 3), so every wait and
every period meets the wrap at every phase. The USB handler may serve one packet
after another, so one turn of the loop may last any number of waits; without a
wait it takes at most a tick, as does one round of a wait (42.7 us in the code;
a turn that takes longer makes each duration longer by as much, not more).
A FIFO of one frame and a buffer of two records are full after one step and two;
`MaxTime` only cuts off durations that are already too long.

The parts of `PcanCommand` (bit rates, kept values, registers, packets, LEDs)
touch different variables, so `MCPcanCommand` chooses one of them at the start
(`part`) and explores it alone; the proofs are about `PcanCommand`, where they
mix freely. The LEDs' delays and blink are in the order of the real ones (50,
200 and 237 ms), but much closer to the wrap, and the clock starts anywhere, so
that every delay and every end of a blink meets the wrap at every phase. A blink
that the wrap makes longer or shorter than asked is allowed; `LedsSettle` says
that it ends. `MaxEvents`
bounds commands and frames, after which the LEDs must settle; `WAIT` is how
many milliseconds the loop may stand still for a record. Two descriptors are
what a long frame needs; four buffers let both descriptors be filled again
while a frame is held, and let all buffers be lost to split frames; a ring of
three slots is full with two frames, and four frames wrap it. Two transmit
buffers and four frames use each buffer twice, with both in use and both
searches failing on the way; two changes of the cable take the link down and up
again from either state.

Fairness. `PcanCan`: weak fairness of `FlushTx`, because the main loop polls
for ever, and of `Transmit`, because bxCAN retransmits until the frame is
acknowledged (`AutoRetransmission`); `FramesLeave` is claimed only if the
controller stays on the bus from some time on. `PcanUsb`: weak fairness of
`DataIn`, which the polled interrupt handler delivers, and of `HostReads`, an
assumption about a host that has configured the device; `EndpointsServe` is
claimed for histories without a reset. `PcanDevice`: weak fairness of the steps
of the thread, which never blocks; strong fairness of the end of the USB
handler together with the passing of a tick (`UsbDone(1)`), because a host
cannot keep the handler busy without a pause for ever, and of `DataIn`, the
host's read: the handler comes by it again and again, and a reading host is not
put off for ever. No fairness is assumed of commands, flushes or the arrival of
frames. `PcanCommand`: weak fairness of `Poll`, which the super-loop calls for
ever, of `Pass`, the SysTick, and of `Reading`, whose rounds end (a wait within
a second); of commands and frames none, they end with `MaxEvents`. `EthRx`:
weak fairness of the interrupt, which runs to its end, and of `ArriveRest`,
because a frame that has begun on the wire ends; strong fairness of the steps
of the main loop, which interrupts disable and do not starve (the code assumes
as much), and of `MainCanXmit(TRUE)`, an assumption about a host that goes on
reading. `EthTx`: weak fairness of the DMA, the interrupt and the steps of the
loop; strong fairness of `TaskDone` and of `Offer`, which is the retry that
eth_bridge.h:16 ascribes to TinyUSB (`GiveUp` lets TinyUSB drop a packet all
the same), and of `PollLink`, that the PHY can be read now and then.

Each property has a fault of the code that breaks it: the operators commented
"Fault:" stand before the definition they alter (a missing wrap, an ignored
result, a flag not cleared, ...), are used nowhere else, and are paired with
the properties under "mutants" in `PROJECT.json`.

## 4. Proofs

`tlapm` checks, for every value of the constants that satisfies the modules'
assumptions:

- `PcanCan_proofs`: `TypeCorrect`, `RingIsFifo` (`FifoHoldsAccepted`),
  `BusOrder` (`SentInOrder`), `DriverIsQueue` (`QueueSpec`) and
  `NothingElseLoses` (`LostOnlyByBusCommand`). `FifoHoldsAccepted` is inductive with `TypeOK`:
  it names slots by their distance from the tail, so accepting writes at
  distance `Queued` and a hand-over brings each frame one place closer, which
  is arithmetic on one wrap (`SlotInjective`, `QueuedRange`). Order on the bus
  is inductive only on top of it, because a frame enters a mailbox as number
  `handed + 1` only if the ring holds what it should.
  The refinement needs no more than that about the ring: what waits is the run
  of numbers after `handed` (`WaitingRun`), and a run loses its first number when
  a frame is handed over. Beside it the invariant says that the mailboxes in use
  are at most `MAILBOXES` (`Held`), which bounds what the abstract queue holds.
  A frame is in the ring or in a mailbox and each step moves it forward
  (`RingMembers`, `StepKeeps`), so nothing but a restart can lose it.
- `PcanRecords_proofs`: `TypeCorrect`, `WidthsAsDocumented` (`TimestampWidths`)
  and `EveryBlockLaidOut` (`BlocksLaidOut`). The types, the layout of records in
  a block and the widths are one inductive invariant of the buffer, `BufferInv`,
  kept by `Reset`, `Request` and `Commit`; the actions only combine these. It
  needs the clauses that tie the write position and `ts_counter` to the block
  being written. `RecordsAssumption` is what it rests on: the gap holds the
  largest record (the HAL and the decoder give a DLC of at most 8) and a block
  holds a header and the gap.
  `FlagsReported` (`ErrorsReported`), `NoSilentDrop` (`FrameStoredOrFlagged`) and
  `RecordsStay` (`RecordsKept`) are action properties on top of that invariant:
  a buffer just reset always has room for a frame (`ResetGrants`), and `Request`
  and `Commit` keep every record a flush would hand over (`Keeps`, an order on
  buffers) as long as the next block is not block 0 again. The last theorem asks
  for at least as many blocks as the offset reaches, so that no frame needs a
  flush before the wrap; `EventAssumption`, that the two records of a time-sync
  event fit where a frame fits, keeps that event from opening two blocks.
  The second half of `BlocksLaidOut` says how far finding 1 goes: of the blocks
  a flush hands over the first has its header, and another one lacks it only if
  the block before was filled to its last byte. A block without a header is laid
  out back to back like the others, but no host can read it: that every block
  has one is `BlocksHaveHeaders`, which fails. `HeadersBuffer` carries this half
  through `Request` and `Commit`: a position at a block boundary has such a block
  in front of it.
- `PcanUsb_proofs`: `TypeCorrect`, `AssertionHolds` (`AssertEpFree`), `NotStuck`
  (`StuckOnlyAfterReset`) and the action property `Delivery` (`BufferDelivered`).
  `AssertEpFree` is not inductive: a bus reset keeps the flags and loses the
  transfer. The invariant adds that state 0 means that nothing was ever sent
  (`Fresh`), and that a transfer or a completion, unless a vendor request cut it
  off, has its endpoint in use (`InUse`).
- `PcanDevice_proofs`: `TypeCorrect`, `WaitBounded` (`WaitUnderASecond`) and the
  action property `GiveUpOnlyForCause` (`GiveUpJustified`). The code sees only a
  16-bit difference; the invariant `WaitInv` says that during a wait it equals
  the true duration, and that this is below `SECOND`. A round adds its tick to
  both as long as the sum is below the wrap (`WrapStep`), which holds because
  `DeviceAssumption` has a second shorter than the counter's period. A round of
  a wait may take a tick at most: a longer one ends the wait as much later.
  That a wait ends for a bus-off exactly when one was reported after the last
  error record is `BusOffInv`: the flag in `err` and the history `busoff` agree,
  whatever else sets or clears flags. A wait begun on a standing bus-off ends in
  its first round.
  `TimesyncInTime` (`TimesyncOnTime`) is the same argument for the period of the
  time-sync (`SyncInv`), as long as no record has waited and none fell due with
  the buffer full; a time-sync that falls due otherwise is stored
  (`StoredUnlessFull`), so that `last_timestamp_sync` and `since` start together.
  It also needs that `since` is below a second except right before
  `pcan_protocol_poll`.
  `EveryPollHandsOver` is the safety half of `RecordsHandedOver` and
  `ZlpFollows`: a poll that finds the pump free and records in the buffer, or a
  ZLP due, occupies the pump, whatever time-sync and callbacks do to the buffer
  in that poll. It needs that a transfer without an end has the time of its ZLP
  (`Timed`).
- `PcanCommand_proofs`: `TypeCorrect`, `GetAnswersSet` (`AnswersAsSet`) and
  `BitTimingExact` (`TimingAsSet`), for all bytes. The registers' invariant
  (`Tied`) names each of the six values whichever mode the chip is in, which is
  why a switch of the mode disturbs nothing, and ties the mode to bit 7 of what
  the clock divider was given last; a write is then a case split over
  two tables. The bit timing is arithmetic on the fields of the two bytes.
  `PacketsReadAsSent` (`PacketRead`) holds for every packet that is one
  (`PacketAssumption`, which is `IsPacket` of each: the format and nothing about
  the code). The invariant `ReadInv` says where the loop is: `rest` is what
  follows the frames read so far, cut where the packet is, and `left` and the
  frames read make up the packet's count. `NextFrame` shows that what the decoder makes of
  a record in front of `rest` is the frame the host put there, identifier by
  identifier and byte by byte, or that the packet ends in it. Between the frames
  of a packet no induction is needed: the loop is a step of the system.
  `LedsRestAsTold` is the safety half of `LedsSettle`: an LED that is not
  scheduled any more is lit or dark as it was last told to come to. `Told` ties
  the mode to that, also for a blinking that ends by itself; it also says that a
  blinking LED is scheduled, since a timestamp is odd and so never 0.
- `EthTx_proofs`: `TypeCorrect`, `EveryBufferOwned` (`BuffersOwned`),
  `RefusedOnlyWhenFull` (`RefusedForCause`) and `TransmitsAsQueue` (`QueueSpec`).
  `BuffersOwned` is not inductive: when the main loop is about to free a buffer
  the interrupt may have freed it already, and freeing it a second time is
  harmless only because nobody but the main loop itself could have taken it
  meanwhile (`Releasing`). `FreeAhead` says that a buffer that was free when
  the second search began is still ahead of it: the interrupt only frees.
  The queue is never fuller than promised because distinct buffers are
  submitted, by the pigeonhole principle of `FiniteSetTheorems` (`RoomLeft`).
  `BuffersReturn` is the safety half of `FrameAccepted`: a buffer in use is
  being filled, or is still to be sent, or has its interrupt pending (`Announced`),
  so that full buffers come back without the main loop.
- `EthRx_proofs`: `TypeCorrect`, `EveryBufferAccounted` (`PoolAccounted`),
  `OneFrameAtATime` (`SlotStable`) and `RingIsQueue` (`RingSpec`). Beside the
  owners of buffers and the number of descriptors (`Pool`), the invariant
  follows a frame through the HAL: descriptors are in order of arrival
  (`InOrder`), what was read is older than what is ready and, if good, is the
  frame that was linked first (`Reading`), and newer than all seen before
  (`Newer`). Without `Reading` the frame copied into the ring could be the
  first part of a long one.
  `NothingLeftBehind` is the safety half of `ReceiveGoesOn`: when no interrupt is
  due or running, and no frame is half on the wire, no descriptor is left filled,
  and the DMA has a buffer unless all were lost to split frames (finding 6). Its
  invariant `Served` says that a complete frame has somebody who will look at it,
  and that the interrupt does not end before the descriptors have what buffers
  there are.
- `BufferQueues` has the lemmas both need about `Append`, `Tail` and `Range`.

`RxAssumption` asks for at least as many receive buffers as descriptors and a
ring of two slots or more, `TxAssumption` for one buffer and one descriptor.

Every safety property that a run checks is a theorem. Only model-checked is
liveness (`FramesLeave`, `EndpointsServe`, `LoopGoesRound`, `RecordsHandedOver`,
`ZlpFollows`, `LedsSettle`, `ReceiveGoesOn`, `FrameAccepted`, `LinkTold`), which
is out of the prover's reach. What such a property rests on besides fairness is
proved for seven of them: `RestsAsTold`, `PollHandsOver` (for two), `RestsReady`
and `BuffersComeBack`, above; `WaitBounded` (a wait ends) for `LoopGoesRound`;
and `NotStuck` (an endpoint taken has a transfer on it) for `EndpointsServe`.
The first four are not invariants of the runs, but state what the runs' liveness
properties need at a single step or state. `FramesLeave` has the refinement
`DriverIsQueue` below it, by which a frame waiting only moves forward.

## 5. Not modelled

- USB descriptors (`usbd_desc.c`, `usb_descriptors.c` and the tables at the head
  of `pcan_usb.c`): constant data and copies of it.
- Start-up, clocks, pins, HAL and TinyUSB configuration (`system_stm32f0xx.c`,
  `*_hal_conf.h`, `tusb_config.h`, `pcan_variant.h`, `io_macro.h`, `eth_msp.c`,
  `eth_bridge_init` beyond the state it leaves): they run once, or are compiled
  in, and keep nothing.
- `usbd_conf.c` but for `USBD_LL_Transmit`: one-line forwards between ST's device
  library and the HAL, whose effect is part of the actions of `PcanUsb` for
  configuration, reset and completions.
- The statistics counters of `can_dev`, which nothing reads, and
  `pcan_usb_send_data_buffer`, which nothing calls.
- The bytes of records sent to the host, beyond size and kind, and of Ethernet
  frames, beyond whether they fit.
- The HALs, TinyUSB, the controllers, the host and the wires are modelled only
  as this code uses them, and marked external in `PROJECT.json`.

## 6. Plan

Done: the transmit path, the record buffer, the USB class, the super-loop, the
command channel with registers, bit timing, packets and LEDs, and both halves of
the Ethernet bridge. Left, in this order:

1. Proofs: the safety halves of the liveness properties that have none yet
   (`FramesLeave`, `LinkTold`).
2. The timestamps of echoes against those of frames received during a wait
   (`pcan_protocol.c:457`), with the order of records in the buffer.
3. The composition of `PcanDevice` with the resets of `PcanUsb`.

## 7. Findings

1. **Missing block header** (`pcan_protocol.c:204`, run `records_header`).
   README.md:91-92 says each block starts with `0x02` plus a record count. After
   records that end exactly at a block boundary, the next record is written
   where the header belongs, and its second byte is incremented as the count.
2. **Records overwritten** (`pcan_protocol.c:209`, run `records_loss`). The
   comment at line 271 says that a full buffer is flushed and the request
   repeated. The block offset is held in 8 bits, so the fifth block is block 0
   again: unsent records are overwritten, without a flush and without RXQOVR.
3. **Vendor request does not reset CMD IN** (`pcan_usb.c:332`, run
   `usb_vendor`). The comment at line 196 says "reset endpoints"; the flag that
   guards CMD IN is not the one that is cleared. Together with `device_deinit`,
   which clears neither, a bus reset in the middle of an answer ends all answers.
4. **BUS on, but not running** (`pcan_can.c:201`, run `can_bus`). README.md:98
   and :107 say BUS on starts bxCAN and silent mode switches it to listen-only;
   a bitrate or silent command after BUS on stops it until the next BUS on.
5. **Time-sync stands still** (`pcan_protocol.c:464`, run `device_timesync`).
   README.md:64 promises 1 Hz time-sync and error records. They are made by the
   main loop, which is held up for nearly a second by every record of a packet
   that finds the transmit FIFO full; several records add up, and past 2.8 s the
   16-bit difference has wrapped, so the next time-sync comes later still.
   A flush at tick 0 is the smaller relative of it: `last_flush` is then 0, which
   means "no flush", and the ZLP is not sent (`ZlpFollows` excludes that case
   through `open`). And a loop that waits hold up without end may come by just
   after the difference since the flush has wrapped, every time, and never find
   the ZLP due; `ZlpFollows` asks that it comes by at another time again and
   again.
6. **Receive buffers lost** (`eth_bridge.c:127`). `HAL_ETH_ReadData` keeps a
   frame it has read in part, while the callback forgets the buffers it was
   given for it. If the second part of a two-buffer frame arrives after the first
   was read, the buffer of the first is busy for ever. `parked` collects these
   buffers; `PoolAccounted` shows that none is lost in another way, and
   `ReceiveGoesOn` claims progress only while one is left.
7. **LED toggled in every poll** (`pcan_led.c:36`). `ts | 1` lies one
   millisecond in the future when `ts` is even, so the 16-bit difference of line
   78 is 65535 and no delay is kept until the timestamp has caught up, after
   some hundred polls. The comment of line 40 says "set guard time". The LED
   still settles (`LedsSettle`).
8. **Remote frames at the end of a packet** (`pcan_protocol.c:430`). A remote
   frame carries no payload, yet its length code must fit the bytes that follow;
   otherwise it and the records behind it are dropped, without TXFULL.
   `PacketRead` allows for exactly this case (`EndsIn`).
9. **A ring of 16 slots holds 15 frames** (`eth_bridge.c:77`); the README of the
   example says "16-frame ring" (lines 78, 108).
10. **Dropped or retried** (`main.c:33` of the example). Its README says that
   frames are dropped when the 4-slot TX queue is full (line 108), the header
   that TinyUSB will retry (eth_bridge.h:16). The code refuses and keeps the
   packet with TinyUSB; `FrameAccepted` shows that a retry succeeds.
11. **Mode and clock divider are not kept** (`pcan_protocol.c:141`). README.md:102
   counts them among the registers of the shadow. A write to the mode register, 0,
   changes nothing and it reads 1; of the clock divider, 31, bit 7 alone reads
   back. `AnswersAsSet` says what each register reads.

Smaller things met on the way, which no document speaks about: before the first
SET BITRATE a GET answers 0, 0, which is not how `pcan_can_init` has set up the
controller (`TimingAsSet` starts with the first SET); and the MAC is told the
speed of the link only when the link comes up, while the interface runs, and
the answer of the HAL is ignored (`eth_bridge.c:249`).
