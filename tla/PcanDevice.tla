----------------------------- MODULE PcanDevice -----------------------------
(***************************************************************************)
(* The super-loop of the adapter and its clock: main() of src/src/c/main.c *)
(* and the parts of src/src/c/pcan_protocol.c that depend on time.  These  *)
(* are the time-sync record of every second, the zero-length packet (ZLP)  *)
(* that ends a burst of USB data, and the wait for a free slot of the      *)
(* transmit FIFO, which runs inside the USB handler and so holds up all    *)
(* the rest.                                                               *)
(*                                                                         *)
(* The components below are present as what the loop sees of them: the     *)
(* FIFO as the number of frames in it (PcanCan), the record buffer as the  *)
(* number of records in it (PcanRecords), the data pump as busy or free    *)
(* (PcanUsb).                                                              *)
(*                                                                         *)
(* The 16-bit tick counter TIM3->CNT wraps after WRAP ticks.  Time passes  *)
(* only in pcan_usb_poll and in each round of the wait, by at most a tick: *)
(* that is, one turn of the loop without a wait takes no longer.  The      *)
(* counter cannot be read back past a wrap, so true durations are history. *)
(***************************************************************************)
EXTENDS Integers

CONSTANTS
    WRAP,        \* ticks the counter distinguishes, 65536
    SECOND,      \* PCAN_TICKS_FROM_US(1000000), 23437
    ZLP_TICKS,   \* PCAN_TICKS_FROM_US(800), 18
    ROOM,        \* frames the transmit FIFO holds
    CAPACITY,    \* records the buffer holds
    MaxRecords,  \* records of one MSG OUT packet
    MaxTime      \* bound: durations are counted up to here

ASSUME DeviceAssumption ==
    /\ {WRAP, SECOND, ZLP_TICKS, ROOM, CAPACITY, MaxRecords, MaxTime}
         \subseteq Nat \ {0}
    /\ ZLP_TICKS < WRAP /\ SECOND < WRAP /\ SECOND < MaxTime

ErrFlags == {"BUS_OFF", "TXFULL"}
Ticks == 0 .. WRAP - 1

VARIABLES
    pc,            \* where the loop is: "usb", "records", "wait" or "poll"
    left,          \* records of the packet not yet decoded
    now,           \* TIM3->CNT
    ts_poll,       \* local variable of pcan_decode_data_frame, 0 outside it
    last_timestamp_sync,
    last_flush,
    bus_active,
    err,           \* pcan_device.can.err; RXQOVR is left to PcanRecords
    queued,        \* frames in the transmit FIFO
    buffered,      \* records in the buffer
    pump,          \* the data pump has a transfer in flight
    open,          \* history: a ZLP has to follow the last transfer; after a
                   \* flush at tick 0 the code does not send one
    since,         \* history: time since a time-sync record was last stored
    excused,       \* history: since then a record had to wait, or a time-sync
                   \* fell due with the buffer full
    busoff,        \* history: the controller reported bus-off after the last
                   \* error record was stored
    held,          \* history: time spent in this wait
    lost           \* history: the record decoded last was given up

loopVars == <<pc, left, ts_poll>>
dataVars == <<err, buffered, pump, last_flush, open>>
syncHist == <<since, excused, busoff>>
waitHist == <<held, lost>>
vars == <<loopVars, now, last_timestamp_sync, bus_active, queued, dataVars,
          syncHist, waitHist>>

------------------------------------------------------------------------------
\* (uint16_t)(now - t).
Diff(t) == (now - t) % WRAP

Capped(t) == IF t > MaxTime THEN MaxTime ELSE t

\* d ticks pass.
Pass(d) ==
    /\ now' = (now + d) % WRAP
    /\ since' = Capped(since + d)

Init ==
    /\ pc = "usb" /\ left = 0 /\ ts_poll = 0
    /\ now \in Ticks
    /\ last_timestamp_sync = 0 /\ last_flush = 0
    /\ bus_active = FALSE
    /\ err = {}
    /\ queued = 0 /\ buffered = 0
    /\ pump = FALSE /\ open = FALSE
    /\ since = 0 /\ excused = FALSE /\ busoff = FALSE
    /\ held = 0 /\ lost = FALSE

------------------------------------------------------------------------------
(* What the loop does to the record buffer.  A state of it is the record    *)
(* [err, buffered, pump, last_flush, open]; each operator gives the next.   *)

Data == [err |-> err, buffered |-> buffered, pump |-> pump,
         last_flush |-> last_flush, open |-> open]

SetData(d) ==
    /\ err' = d.err
    /\ buffered' = d.buffered
    /\ pump' = d.pump
    /\ last_flush' = d.last_flush
    /\ open' = d.open

\* Fault: the time of the ZLP is kept although it was not taken.
FlushForgetsZlp(d) ==
    IF d.buffered = 0
    THEN IF d.last_flush # 0 /\ Diff(d.last_flush) >= ZLP_TICKS
         THEN [d EXCEPT !.pump = TRUE, !.last_flush = 0,
                        !.open = @ /\ d.pump]
         ELSE d
    ELSE IF d.pump THEN d
    ELSE [d EXCEPT !.buffered = 0, !.pump = TRUE, !.last_flush = now,
                   !.open = now # 0]

\* Fault: an empty buffer is flushed only with the next record.
FlushNeedsTwo(d) ==
    IF d.buffered <= 1
    THEN IF d.last_flush # 0 /\ Diff(d.last_flush) >= ZLP_TICKS /\ ~d.pump
         THEN [d EXCEPT !.pump = TRUE, !.last_flush = 0, !.open = FALSE]
         ELSE d
    ELSE IF d.pump THEN d
    ELSE [d EXCEPT !.buffered = 0, !.pump = TRUE, !.last_flush = now,
                   !.open = now # 0]

\* pcan_record_buffer_flush.  With nothing to flush, a ZLP is due ZLP_TICKS
\* after the last flush, for which 0 means that there was none.
Flush(d) ==
    IF d.buffered = 0
    THEN IF d.last_flush # 0 /\ Diff(d.last_flush) >= ZLP_TICKS /\ ~d.pump
         THEN [d EXCEPT !.pump = TRUE, !.last_flush = 0, !.open = FALSE]
         ELSE d
    ELSE IF d.pump THEN d
    ELSE [d EXCEPT !.buffered = 0, !.pump = TRUE, !.last_flush = now,
                   !.open = now # 0]

\* Fault: the room in the buffer is not checked.
StoreUnchecked(d) == IF bus_active THEN [d EXCEPT !.buffered = @ + 1] ELSE d

\* pcan_rx_message: into the buffer, flushed first when it is full; dropped
\* when it cannot be flushed.
Store(d) ==
    IF ~bus_active THEN d
    ELSE IF d.buffered < CAPACITY THEN [d EXCEPT !.buffered = @ + 1]
    ELSE IF d.pump THEN d
    ELSE [Flush(d) EXCEPT !.buffered = 1]

\* pcan_timesync_event: a time-sync record and an error record, as far as
\* there is room; the flags are cleared once they are reported.
TimesyncEvent(d) ==
    IF d.buffered + 2 > CAPACITY THEN [d EXCEPT !.buffered = CAPACITY]
    ELSE [d EXCEPT !.buffered = @ + 2, !.err = {}]

\* The callbacks from HAL_CAN_IRQHandler in pcan_can_poll: a frame was
\* received (rx), the controller went bus-off (off).
Callbacks(d, rx, off) ==
    LET stored == IF rx THEN Store(d) ELSE d
    IN IF off THEN [stored EXCEPT !.err = @ \cup {"BUS_OFF"}] ELSE stored

\* pcan_can_flush_tx moves at most one frame to the controller, if it has
\* a mailbox free: q is what the FIFO then holds.
FlushTx(q) == q \in {queued} \cup (IF queued > 0 THEN {queued - 1} ELSE {})

------------------------------------------------------------------------------
(* History: what a time-sync event has done, seen by its effect *)

StoredSync == TimesyncEvent(Data).buffered > buffered
StoredError == TimesyncEvent(Data).buffered > buffered + 1

\* A time-sync event takes place if due holds; the callbacks behind it report
\* bus-off if off holds.
SyncHistory(due, off) ==
    LET stored == due /\ StoredSync
    IN /\ since' = IF stored THEN 0 ELSE since
       /\ excused' = /\ ~stored
                     /\ excused \/ (due /\ buffered = CAPACITY)
       /\ busoff' = (off \/ (busoff /\ ~(due /\ StoredError)))

------------------------------------------------------------------------------
(* pcan_usb_poll: the USB handler serves the events that are pending, in    *)
(* any order, until it finds none                                           *)

UsbDone(d) ==
    /\ pc = "usb"
    /\ pc' = "poll"
    /\ Pass(d)
    /\ UNCHANGED <<left, ts_poll, last_timestamp_sync, bus_active, queued>>
    /\ UNCHANGED <<dataVars, excused, busoff, waitHist>>

\* device_data_in: the host has read the transfer of the pump.
DataIn ==
    /\ pc = "usb"
    /\ pump
    /\ pump' = FALSE
    /\ UNCHANGED <<loopVars, now, last_timestamp_sync, bus_active, queued>>
    /\ UNCHANGED <<err, buffered, last_flush, open, syncHist, waitHist>>

\* pcan_protocol_process_data gets a packet of n records.
Packet(n) ==
    /\ pc = "usb"
    /\ pc' = "records"
    /\ left' = n
    /\ UNCHANGED <<ts_poll, now, last_timestamp_sync, bus_active, queued>>
    /\ UNCHANGED <<dataVars, syncHist, waitHist>>

\* PCAN_USB_CMD_BUS.
BusOn ==
    /\ pc = "usb"
    /\ bus_active' = TRUE
    /\ last_timestamp_sync' = now
    /\ SetData(TimesyncEvent(Data))
    /\ SyncHistory(TRUE, FALSE)
    /\ UNCHANGED <<loopVars, now, queued, waitHist>>

BusOff ==
    /\ pc = "usb"
    /\ bus_active' = FALSE
    /\ UNCHANGED <<loopVars, now, last_timestamp_sync, queued>>
    /\ UNCHANGED <<dataVars, syncHist, waitHist>>

------------------------------------------------------------------------------
(* pcan_protocol_process_data and pcan_decode_data_frame, record by record *)

\* The frame goes into the FIFO, and its echo, if asked for, to the host.
Send(q, d, echo) ==
    /\ q < ROOM
    /\ queued' = q + 1
    /\ SetData(IF echo THEN Store(d) ELSE d)

\* The packet is done, or is not decoded because the bus is off.
PacketDone ==
    /\ pc = "records"
    /\ left = 0 \/ ~bus_active
    /\ pc' = "usb"
    /\ left' = 0
    /\ UNCHANGED <<ts_poll, now, last_timestamp_sync, bus_active, queued>>
    /\ UNCHANGED <<dataVars, syncHist, waitHist>>

\* A record is decoded: sent at once, or it starts to wait.
Record(echo) ==
    /\ pc = "records"
    /\ left > 0 /\ bus_active
    /\ \/ /\ Send(queued, Data, echo)
          /\ left' = left - 1
          /\ UNCHANGED <<pc, ts_poll, held, excused>>
       \/ /\ queued = ROOM
          /\ pc' = "wait"
          /\ ts_poll' = now
          /\ held' = 0
          /\ excused' = TRUE
          /\ UNCHANGED <<left, queued, dataVars>>
    /\ lost' = FALSE
    /\ UNCHANGED <<now, last_timestamp_sync, bus_active, since, busoff>>

\* Fault: the time-out is measured from the last time-sync.
GiveUpSinceSync(d) ==
    "BUS_OFF" \in d.err \/ (now' - last_timestamp_sync) % WRAP >= SECOND

\* Fault: there is no time-out.
GiveUpOnBusOff(d) == "BUS_OFF" \in d.err

\* Fault: the difference is not cut to 16 bits, so it is negative after a wrap.
GiveUpWide(d) == "BUS_OFF" \in d.err \/ now' - ts_poll >= SECOND

\* "give up when the bus is off or after a 1 s timeout".
GiveUp(d) == "BUS_OFF" \in d.err \/ (now' - ts_poll) % WRAP >= SECOND

\* A round of the wait: poll the driver, give up, or try again.
Wait(t, rx, off, echo) ==
    /\ pc = "wait"
    /\ Pass(t)
    /\ \E q \in 0..ROOM :
         LET d == Callbacks(Data, rx, off)
         IN /\ FlushTx(q)
            /\ \/ /\ GiveUp(d)
                  /\ SetData([d EXCEPT !.err = @ \cup {"TXFULL"}])
                  /\ queued' = q
                  /\ pc' = "records"
                  /\ left' = left - 1
                  /\ ts_poll' = 0
                  /\ held' = 0 /\ lost' = TRUE
               \/ /\ ~GiveUp(d)
                  /\ Send(q, d, echo)
                  /\ pc' = "records"
                  /\ left' = left - 1
                  /\ ts_poll' = 0
                  /\ held' = 0 /\ lost' = FALSE
               \/ /\ ~GiveUp(d)
                  /\ q = ROOM
                  /\ SetData(d)
                  /\ queued' = q
                  /\ held' = Capped(held + t)
                  /\ UNCHANGED <<pc, left, ts_poll, lost>>
    /\ busoff' = (busoff \/ off)
    /\ UNCHANGED <<last_timestamp_sync, bus_active, excused>>

------------------------------------------------------------------------------
(* pcan_protocol_poll *)

\* Fault: counter values are compared instead of differences.
SyncDueAbsolute == bus_active /\ now >= last_timestamp_sync + SECOND

SyncDue == bus_active /\ Diff(last_timestamp_sync) >= SECOND

Poll(rx, off) ==
    /\ pc = "poll"
    /\ pc' = "usb"
    /\ LET synced == IF SyncDue THEN TimesyncEvent(Data) ELSE Data
       IN SetData(Callbacks(Flush(synced), rx, off))
    /\ last_timestamp_sync' = IF SyncDue THEN now ELSE last_timestamp_sync
    /\ SyncHistory(SyncDue, off)
    /\ \E q \in 0..ROOM : FlushTx(q) /\ queued' = q
    /\ UNCHANGED <<left, ts_poll, now, bus_active, waitHist>>

------------------------------------------------------------------------------
Next ==
    \/ \E d \in {0, 1} : UsbDone(d)
    \/ DataIn
    \/ \E n \in 1..MaxRecords : Packet(n)
    \/ BusOn
    \/ BusOff
    \/ PacketDone
    \/ \E echo \in BOOLEAN : Record(echo)
    \/ \E t \in {0, 1}, rx, off, echo \in BOOLEAN : Wait(t, rx, off, echo)
    \/ \E rx, off \in BOOLEAN : Poll(rx, off)

Spec == Init /\ [][Next]_vars

\* Time goes on, in the loop and in the wait; the USB handler comes to its
\* end; the loop takes its steps; the host reads what it is sent.
Fairness ==
    /\ SF_vars(UsbDone(1))
    /\ SF_vars(DataIn)
    /\ WF_vars(PacketDone)
    /\ WF_vars(\E echo \in BOOLEAN : Record(echo))
    /\ WF_vars(\E rx, off, echo \in BOOLEAN : Wait(1, rx, off, echo))
    /\ WF_vars(\E rx, off \in BOOLEAN : Poll(rx, off))

FairSpec == Spec /\ Fairness

------------------------------------------------------------------------------
(* Properties *)

TypeOK ==
    /\ pc \in {"usb", "records", "wait", "poll"}
    /\ left \in 0..MaxRecords
    /\ {now, ts_poll, last_timestamp_sync, last_flush} \subseteq Ticks
    /\ bus_active \in BOOLEAN
    /\ err \subseteq ErrFlags
    /\ queued \in 0..ROOM
    /\ buffered \in 0..CAPACITY
    /\ pump \in BOOLEAN /\ open \in BOOLEAN
    /\ since \in 0..MaxTime
    /\ excused \in BOOLEAN /\ busoff \in BOOLEAN /\ lost \in BOOLEAN
    /\ held \in 0..MaxTime

\* A record waits for less than a second of true time, wherever the counter
\* wraps in it (pcan_decode_data_frame): README.md of the repository promises
\* "TX retry until bus-off or a 1 s timeout".
WaitUnderASecond == pc = "wait" => held < SECOND

\* A record that waits is given up, and reported by TXFULL, when the bus is
\* off or a second of true time has passed since its own wait began, and in
\* no other case: not early after a wrap, nor because an earlier record of
\* the packet has been given up or used up the time, nor by a bus-off that
\* an error record has been made about since (pcan_decode_data_frame).
GiveUpJustified ==
    [][pc = "wait" =>
          /\ lost' <=> busoff' \/ held + ((now' - now) % WRAP) >= SECOND
          /\ lost' => "TXFULL" \in err']_vars

\* While the bus is on, a time-sync record is stored for the host every
\* second, wherever the counter wraps (pcan_protocol_poll).  Two causes for a
\* gap are left out here: a record that had to wait (TimesyncEverySecond is
\* about these), and a time-sync that fell due while the buffer was full, for
\* which the code makes no record until the next one is due.
TimesyncOnTime == bus_active /\ ~excused => since <= SECOND

\* The main loop always comes round again: no wait lasts for ever, whatever
\* the controller does and however many records a packet has.
LoopGoesRound == []<>(pc = "poll")

\* Records in the buffer reach the USB pump, also those stored while the
\* loop was held up in a wait with the pump busy: the buffer is emptied, or
\* transfers of it start, again and again (pcan_record_buffer_flush).
RecordsHandedOver ==
    []<>(buffered = 0) \/ []<><<buffered > 0 /\ ~pump /\ pump'>>_vars

\* Data is followed by more data or by the ZLP the host needs to see its end
\* (pcan_record_buffer_flush): no transfer stays open for ever, also when
\* the ZLP falls due while the pump is busy or the loop is held up.  Left out
\* is a loop that waits hold up so that, whenever it comes by, the 16-bit
\* difference has just wrapped and the ZLP does not look due.
ZlpFollows ==
    []<>(pc = "poll" /\ Diff(last_flush) >= ZLP_TICKS)
      => []<>(~open) \/ []<><<~pump /\ pump' /\ open'>>_vars

\* README.md of the repository: "1 Hz time-sync and error records".  With
\* all the leave a polled loop can claim, they are less than two seconds
\* apart while the bus is on.
TimesyncEverySecond == bus_active => since < 2 * SECOND
=============================================================================
