-------------------------- MODULE PcanDevice_proofs --------------------------
(***************************************************************************)
(* The time-out of the wait for a transmit slot, and the period of the     *)
(* time-sync, are exact for every width of the tick counter and every      *)
(* period shorter than it.                                                 *)
(*                                                                         *)
(* The code sees only the difference of two counter values.  The           *)
(* invariants say that this difference is the true duration: a round adds  *)
(* a tick to both, and the code acts before the difference can wrap,       *)
(* because SECOND is less than WRAP (WrapStep).  Every poll that finds the *)
(* pump free hands over what there is (EveryPollHandsOver).                *)
(***************************************************************************)
EXTENDS PcanDevice, TLAPS

\* The counter advances by t inside its range.
LEMMA TickInRange ==
    ASSUME NEW n \in Ticks, NEW t \in {0, 1}
    PROVE  (n + t) % WRAP \in Ticks
  BY DeviceAssumption DEF Ticks

\* Subtraction of two counter values, as a 16-bit difference.
LEMMA WrapOnce ==
    ASSUME NEW n \in Ticks, NEW p \in Ticks
    PROVE  (n - p) % WRAP = IF n >= p THEN n - p ELSE n - p + WRAP
  BY DeviceAssumption DEF Ticks

\* The 16-bit difference to an earlier value p grows with the counter n as
\* long as the sum is below the wrap.
LEMMA WrapStep ==
    ASSUME NEW n \in Ticks, NEW p \in Ticks, NEW t \in {0, 1},
           ((n - p) % WRAP) + t < WRAP
    PROVE  (((n + t) % WRAP) - p) % WRAP = ((n - p) % WRAP) + t
  <1> DEFINE m == (n + t) % WRAP
  <1>1. m \in Ticks /\ m = IF n + t = WRAP THEN 0 ELSE n + t
    BY DeviceAssumption DEF Ticks
  <1>2. (m - p) % WRAP = IF m >= p THEN m - p ELSE m - p + WRAP
    BY <1>1, WrapOnce
  <1> DEFINE after == (m - p) % WRAP
             before == (n - p) % WRAP
  <1>3. before = IF n >= p THEN n - p ELSE n - p + WRAP
    BY WrapOnce
  <1>4. before + t < WRAP
    OBVIOUS
  <1>5. /\ WRAP \in Nat
        /\ n \in Int /\ 0 <= n /\ n < WRAP
        /\ p \in Int /\ 0 <= p /\ p < WRAP
        /\ t = 0 \/ t = 1
    BY DeviceAssumption DEF Ticks
  <1> HIDE DEF m, after, before
  <1>6. after = before + t
    <2>1. after = IF m >= p THEN m - p ELSE m - p + WRAP
      BY <1>2 DEF after
    <2> QED
      BY <1>1, <1>3, <1>4, <1>5, <2>1
  <1> QED
    BY <1>6 DEF m, after, before

\* The difference over one round is the time it took.
LEMMA RoundTime ==
    ASSUME NEW n \in Ticks, NEW t \in {0, 1}, 1 < WRAP
    PROVE  (((n + t) % WRAP) - n) % WRAP = t
  BY DeviceAssumption DEF Ticks

\* SECOND is a duration below both the wrap and the bound of the history.
LEMMA SecondFits ==
    /\ WRAP \in Nat /\ SECOND \in Nat /\ MaxTime \in Nat /\ CAPACITY \in Nat
    /\ ROOM \in Nat /\ MaxRecords \in Nat
    /\ 0 < SECOND /\ SECOND < WRAP /\ SECOND < MaxTime
    /\ 0 < CAPACITY /\ 0 < ROOM /\ 0 < MaxRecords
  BY DeviceAssumption

\* The states of the record buffer and its pump.
DataSet ==
    [err : SUBSET ErrFlags, buffered : 0..CAPACITY, pump : BOOLEAN,
     last_flush : Ticks, open : BOOLEAN]

LEMMA FlushType ==
    ASSUME TypeOK, NEW d \in DataSet
    PROVE  Flush(d) \in DataSet
  <1>1. /\ 0 \in Ticks /\ now \in Ticks
        /\ 0 \in 0..CAPACITY
        /\ (now # 0) \in BOOLEAN
    BY DeviceAssumption DEF TypeOK, Ticks
  <1>2. [d EXCEPT !.pump = TRUE, !.last_flush = 0, !.open = FALSE] \in DataSet
    BY <1>1 DEF DataSet
  <1>3. [d EXCEPT !.buffered = 0, !.pump = TRUE, !.last_flush = now,
                  !.open = now # 0] \in DataSet
    BY <1>1 DEF DataSet
  <1> QED
    BY <1>2, <1>3 DEF Flush

LEMMA StoreType ==
    ASSUME TypeOK, NEW d \in DataSet
    PROVE  Store(d) \in DataSet
  <1>1. /\ d.buffered < CAPACITY => d.buffered + 1 \in 0..CAPACITY
        /\ 1 \in 0..CAPACITY
    BY SecondFits DEF DataSet
  <1>2. d.buffered < CAPACITY
          => [d EXCEPT !.buffered = @ + 1] \in DataSet
    BY <1>1 DEF DataSet
  <1>3. [Flush(d) EXCEPT !.buffered = 1] \in DataSet
    BY <1>1, FlushType DEF DataSet
  <1> QED
    BY <1>2, <1>3 DEF Store

LEMMA TimesyncType ==
    ASSUME TypeOK, NEW d \in DataSet
    PROVE  TimesyncEvent(d) \in DataSet
  <1>1. /\ CAPACITY \in 0..CAPACITY
        /\ ~(d.buffered + 2 > CAPACITY) => d.buffered + 2 \in 0..CAPACITY
        /\ {} \in SUBSET ErrFlags
    BY SecondFits DEF DataSet
  <1> QED
    BY <1>1 DEF DataSet, TimesyncEvent

LEMMA CallbacksType ==
    ASSUME TypeOK, NEW d \in DataSet, NEW rx \in BOOLEAN, NEW off \in BOOLEAN
    PROVE  Callbacks(d, rx, off) \in DataSet
  <1> DEFINE stored == IF rx THEN Store(d) ELSE d
  <1>1. stored \in DataSet
    BY StoreType
  <1>2. stored.err \cup {"BUS_OFF"} \in SUBSET ErrFlags
    BY <1>1 DEF DataSet, ErrFlags
  <1> HIDE DEF stored
  <1>3. [stored EXCEPT !.err = @ \cup {"BUS_OFF"}] \in DataSet
    BY <1>1, <1>2 DEF DataSet
  <1>4. Callbacks(d, rx, off)
          = IF off THEN [stored EXCEPT !.err = @ \cup {"BUS_OFF"}] ELSE stored
    BY DEF Callbacks, stored
  <1> QED
    BY <1>1, <1>3, <1>4

LEMMA DataType == TypeOK => Data \in DataSet
  BY DEF TypeOK, Data, DataSet

\* The conjuncts of TypeOK about the buffer, after SetData.
DataOK ==
    /\ err \subseteq ErrFlags
    /\ buffered \in 0..CAPACITY
    /\ pump \in BOOLEAN /\ open \in BOOLEAN
    /\ last_flush \in Ticks

LEMMA SetDataType ==
    ASSUME NEW d \in DataSet, SetData(d)
    PROVE  DataOK'
  BY DEF DataSet, SetData, DataOK

LEMMA PassType ==
    ASSUME TypeOK, NEW t \in {0, 1}, Pass(t)
    PROVE  now' \in Ticks /\ since' \in 0..MaxTime
  <1>1. now' \in Ticks
    BY TickInRange DEF Pass, TypeOK
  <1>2. since' \in 0..MaxTime
    BY SecondFits DEF Pass, Capped, TypeOK
  <1> QED
    BY <1>1, <1>2

LEMMA HistoryType ==
    ASSUME TypeOK, NEW due \in BOOLEAN, NEW off \in BOOLEAN,
           SyncHistory(due, off)
    PROVE  /\ since' \in 0..MaxTime
           /\ excused' \in BOOLEAN /\ busoff' \in BOOLEAN
  <1> DEFINE stored == due /\ StoredSync
  <1>1. since' = IF stored THEN 0 ELSE since
    BY DEF SyncHistory
  <1> HIDE DEF stored
  <1>2. since' \in 0..MaxTime
    BY <1>1, SecondFits DEF TypeOK
  <1> QED
    BY <1>2 DEF SyncHistory

\* What a round of the wait does besides the clock and the FIFO.
LEMMA WaitType ==
    ASSUME TypeOK, NEW t \in {0, 1}, NEW rx \in BOOLEAN, NEW off \in BOOLEAN,
           NEW echo \in BOOLEAN, Wait(t, rx, off, echo), left > 0
    PROVE  TypeOK'
  <1> DEFINE d == Callbacks(Data, rx, off)
  <1>1. d \in DataSet
    BY DataType, CallbacksType
  <1>2. now' \in Ticks /\ since' \in 0..MaxTime
    BY PassType DEF Wait
  <1>3. [d EXCEPT !.err = @ \cup {"TXFULL"}] \in DataSet
    BY <1>1 DEF DataSet, ErrFlags
  <1>4. Store(d) \in DataSet
    BY <1>1, StoreType
  <1>5. /\ left - 1 \in 0..MaxRecords
        /\ 0 \in Ticks /\ 0 \in 0..MaxTime
        /\ Capped(held + t) \in 0..MaxTime
    BY SecondFits DEF TypeOK, Ticks, Capped
  <1> HIDE DEF d
  <1>6. PICK q \in 0..ROOM :
          \/ /\ SetData([d EXCEPT !.err = @ \cup {"TXFULL"}])
             /\ queued' = q
             /\ pc' = "records" /\ left' = left - 1
             /\ ts_poll' = 0 /\ held' = 0 /\ lost' = TRUE
          \/ /\ Send(q, d, echo)
             /\ pc' = "records" /\ left' = left - 1
             /\ ts_poll' = 0 /\ held' = 0 /\ lost' = FALSE
          \/ /\ SetData(d)
             /\ queued' = q
             /\ held' = Capped(held + t)
             /\ UNCHANGED <<pc, left, ts_poll, lost>>
    BY DEF Wait, d
  <1>7. DataOK'
    BY <1>1, <1>3, <1>4, <1>6, SetDataType DEF Send
  <1>8. queued' \in 0..ROOM
    BY <1>6, SecondFits DEF Send
  <1>9. /\ pc' \in {"records", "wait", "usb", "poll"}
        /\ left' \in 0..MaxRecords
        /\ ts_poll' \in Ticks
        /\ held' \in 0..MaxTime /\ lost' \in BOOLEAN
    BY <1>5, <1>6 DEF TypeOK
  <1>10. UNCHANGED <<last_timestamp_sync, bus_active, excused>>
         /\ busoff' \in BOOLEAN
    BY DEF Wait
  <1> QED
    BY <1>2, <1>7, <1>8, <1>9, <1>10 DEF TypeOK, DataOK

\* While a record waits, the 16-bit difference is the true duration.
WaitInv == pc = "wait" => /\ left > 0
                          /\ held = Diff(ts_poll)
                          /\ held < SECOND
                          /\ ~lost

IInv == TypeOK /\ WaitInv

LEMMA InitIInv == Init => IInv
  <1> SUFFICES ASSUME Init PROVE IInv
    OBVIOUS
  <1>1. /\ 0 \in Ticks /\ 0 \in 0..MaxRecords /\ 0 \in 0..ROOM
        /\ 0 \in 0..CAPACITY /\ 0 \in 0..MaxTime
    BY SecondFits DEF Ticks
  <1> QED
    BY <1>1 DEF Init, IInv, TypeOK, WaitInv

\* The other steps of the loop; only Wait has a lemma of its own.
LEMMA NextTypeOK == IInv /\ [Next]_vars => TypeOK'
  <1> SUFFICES ASSUME IInv, [Next]_vars PROVE TypeOK'
    OBVIOUS
  <1>0. TypeOK
    BY DEF IInv
  <1>1. ASSUME NEW d \in {0, 1}, UsbDone(d) PROVE TypeOK'
    <2>1. now' \in Ticks /\ since' \in 0..MaxTime
      BY <1>0, <1>1, PassType DEF UsbDone
    <2> QED
      BY <1>0, <1>1, <2>1 DEF TypeOK, UsbDone, dataVars, waitHist
  <1>2. CASE DataIn
    BY <1>0, <1>2 DEF TypeOK, DataIn, loopVars, syncHist, waitHist
  <1>3. ASSUME NEW n \in 1..MaxRecords, Packet(n) PROVE TypeOK'
    BY <1>0, <1>3, SecondFits DEF TypeOK, Packet, dataVars, syncHist, waitHist
  <1>4. CASE BusOn
    <2>1. TimesyncEvent(Data) \in DataSet
      BY <1>0, DataType, TimesyncType
    <2>2. DataOK'
      BY <1>4, <2>1, SetDataType DEF BusOn
    <2>3. /\ bus_active' = TRUE
          /\ last_timestamp_sync' = now
          /\ UNCHANGED <<pc, left, ts_poll, now, queued, held, lost>>
      BY <1>4 DEF BusOn, loopVars, waitHist
    <2>4. since' \in 0..MaxTime /\ excused' \in BOOLEAN /\ busoff' \in BOOLEAN
      BY <1>0, <1>4, HistoryType DEF BusOn
    <2> QED
      BY <1>0, <2>2, <2>3, <2>4 DEF TypeOK, DataOK
  <1>5. CASE BusOff
    BY <1>0, <1>5 DEF TypeOK, BusOff, loopVars, dataVars, syncHist, waitHist
  <1>6. CASE PacketDone
    BY <1>0, <1>6, SecondFits DEF TypeOK, PacketDone, dataVars, syncHist, waitHist
  <1>7. ASSUME NEW echo \in BOOLEAN, Record(echo) PROVE TypeOK'
    <2>1. CASE Send(queued, Data, echo) /\ left' = left - 1
               /\ UNCHANGED <<pc, ts_poll, held, excused>>
      <3>1. DataOK'
        BY <1>0, <2>1, DataType, StoreType, SetDataType DEF Send
      <3>2. queued' \in 0..ROOM /\ left' \in 0..MaxRecords
        BY <1>0, <1>7, <2>1, SecondFits DEF Send, Record, TypeOK
      <3> QED
        BY <1>0, <1>7, <2>1, <3>1, <3>2 DEF TypeOK, Record, DataOK
    <2>2. CASE /\ pc' = "wait" /\ ts_poll' = now /\ held' = 0
               /\ excused' = TRUE /\ UNCHANGED <<left, queued, dataVars>>
      <3>1. 0 \in 0..MaxTime
        BY SecondFits
      <3> QED
        BY <1>0, <1>7, <2>2, <3>1 DEF TypeOK, Record, dataVars
    <2> QED
      BY <1>7, <2>1, <2>2 DEF Record
  <1>8. ASSUME NEW t \in {0, 1}, NEW rx \in BOOLEAN, NEW off \in BOOLEAN,
               NEW echo \in BOOLEAN, Wait(t, rx, off, echo)
        PROVE  TypeOK'
    <2>1. left > 0
      BY <1>8 DEF IInv, WaitInv, Wait
    <2> QED
      BY <1>0, <1>8, <2>1, WaitType
  <1>9. ASSUME NEW rx \in BOOLEAN, NEW off \in BOOLEAN, Poll(rx, off)
        PROVE  TypeOK'
    <2> DEFINE synced == IF SyncDue THEN TimesyncEvent(Data) ELSE Data
    <2>1. synced \in DataSet
      BY <1>0, DataType, TimesyncType
    <2> HIDE DEF synced
    <2>2. Callbacks(Flush(synced), rx, off) \in DataSet
      BY <1>0, <2>1, FlushType, CallbacksType
    <2>3. SetData(Callbacks(Flush(synced), rx, off))
      BY <1>9 DEF Poll, synced
    <2>4. DataOK'
      BY <2>2, <2>3, SetDataType
    <2>5. queued' \in 0..ROOM
      BY <1>9 DEF Poll
    <2>6. since' \in 0..MaxTime /\ excused' \in BOOLEAN /\ busoff' \in BOOLEAN
      <3>1. SyncDue \in BOOLEAN
        BY DEF SyncDue
      <3> QED
        BY <1>0, <1>9, <3>1, HistoryType DEF Poll
    <2>7. last_timestamp_sync' \in Ticks
      BY <1>0, <1>9 DEF Poll, TypeOK
    <2> QED
      BY <1>0, <1>9, <2>4, <2>5, <2>6, <2>7 DEF TypeOK, Poll, DataOK, waitHist
  <1>10. CASE UNCHANGED vars
    BY <1>0, <1>10 DEF TypeOK, vars, loopVars, dataVars, syncHist, waitHist
  <1> QED
    BY <1>1, <1>2, <1>3, <1>4, <1>5, <1>6, <1>7, <1>8, <1>9, <1>10 DEF Next

\* A wait starts with a duration of 0; a round that does not give up has a
\* difference below SECOND, which WrapStep makes the true duration.
LEMMA NextWaitInv == IInv /\ [Next]_vars => WaitInv'
  <1> SUFFICES ASSUME IInv, [Next]_vars, pc' = "wait"
               PROVE  /\ left' > 0 /\ held' = Diff(ts_poll)'
                      /\ held' < SECOND /\ ~lost'
    BY DEF WaitInv
  <1>0. TypeOK
    BY DEF IInv
  <1>1. ASSUME NEW echo \in BOOLEAN, Record(echo)
        PROVE  /\ left' > 0 /\ held' = Diff(ts_poll)'
               /\ held' < SECOND /\ ~lost'
    <2>1. pc = "records" /\ pc' # pc
      BY <1>1 DEF Record
    <2>2. /\ left' = left /\ left > 0 /\ ts_poll' = now /\ now' = now
          /\ held' = 0 /\ ~lost'
      BY <1>1, <2>1 DEF Record
    <2>3. (now - now) % WRAP = 0
      BY <1>0, WrapOnce DEF TypeOK, Ticks
    <2> QED
      BY <2>2, <2>3, SecondFits DEF Diff
  <1>2. ASSUME NEW t \in {0, 1}, NEW rx \in BOOLEAN, NEW off \in BOOLEAN,
               NEW echo \in BOOLEAN, Wait(t, rx, off, echo)
        PROVE  /\ left' > 0 /\ held' = Diff(ts_poll)'
               /\ held' < SECOND /\ ~lost'
    <2>1. pc = "wait" /\ now' = (now + t) % WRAP
      BY <1>2 DEF Wait, Pass
    <2>2. PICK q \in 0..ROOM :
            /\ ~GiveUp(Callbacks(Data, rx, off))
            /\ held' = Capped(held + t)
            /\ UNCHANGED <<pc, left, ts_poll, lost>>
      BY <1>2 DEF Wait
    <2>3. /\ left > 0 /\ held = (now - ts_poll) % WRAP /\ held < SECOND
          /\ ~lost
          /\ now \in Ticks /\ ts_poll \in Ticks /\ held \in Nat
      BY <2>1 DEF IInv, WaitInv, Diff, TypeOK
    <2>4. held + t < WRAP /\ Capped(held + t) = held + t
      BY <2>3, SecondFits DEF Capped
    <2>5. (now' - ts_poll) % WRAP = held + t
      BY <2>1, <2>3, <2>4, WrapStep
    <2>6. ~((now' - ts_poll) % WRAP >= SECOND)
      BY <2>2 DEF GiveUp
    <2>7. held' = held + t /\ held + t < SECOND
      BY <2>2, <2>3, <2>4, <2>5, <2>6, SecondFits
    <2> QED
      BY <2>2, <2>3, <2>5, <2>7 DEF Diff
  <1>3. CASE UNCHANGED vars
    BY <1>3 DEF IInv, WaitInv, Diff, vars, loopVars, waitHist
  <1>4. pc' # "wait" \/ UNCHANGED vars
          \/ (\E echo \in BOOLEAN : Record(echo))
          \/ (\E t \in {0, 1}, rx, off, echo \in BOOLEAN : Wait(t, rx, off, echo))
    <2>1. ASSUME pc = "usb", UNCHANGED loopVars PROVE FALSE
      BY <2>1 DEF loopVars
    <2> QED
      BY <2>1 DEF Next, UsbDone, DataIn, Packet, BusOn, BusOff, PacketDone, Poll
  <1> QED
    BY <1>1, <1>2, <1>3, <1>4

LEMMA Invariance == Spec => []IInv
  <1>1. IInv /\ [Next]_vars => IInv'
    BY NextTypeOK, NextWaitInv DEF IInv
  <1> QED
    BY <1>1, InitIInv, PTL DEF Spec

\* The clock, the counts and the flags stay in their ranges (main and all it
\* calls), for every width of the counter.
THEOREM TypeCorrect == Spec => []TypeOK
  <1>1. IInv => TypeOK
    BY DEF IInv
  <1> QED
    BY <1>1, Invariance, PTL

\* No record waits for a second or longer (pcan_decode_data_frame), wherever
\* in the wait the counter wraps.
THEOREM WaitBounded == Spec => []WaitUnderASecond
  <1>1. IInv => WaitUnderASecond
    BY DEF IInv, WaitInv, WaitUnderASecond
  <1> QED
    BY <1>1, Invariance, PTL

\* The buffer keeps the flags; the callbacks add BUS_OFF, if anything, and a
\* time-sync event clears them if it has stored its error record.
LEMMA ErrKept ==
    ASSUME TypeOK, NEW d \in DataSet, NEW rx \in BOOLEAN, NEW off \in BOOLEAN
    PROVE  /\ Flush(d).err = d.err
           /\ Store(d).err = d.err
           /\ Callbacks(d, rx, off).err
                = IF off THEN d.err \cup {"BUS_OFF"} ELSE d.err
           /\ TimesyncEvent(d).err
                = IF TimesyncEvent(d).buffered > d.buffered + 1 THEN {} ELSE d.err
  <1>1. Flush(d).err = d.err
    BY DEF Flush, DataSet
  <1>2. Store(d).err = d.err
    BY <1>1, FlushType DEF Store, DataSet
  <1> DEFINE stored == IF rx THEN Store(d) ELSE d
  <1>3. stored \in DataSet /\ stored.err = d.err
    BY <1>2, StoreType
  <1> HIDE DEF stored
  <1>4. [stored EXCEPT !.err = @ \cup {"BUS_OFF"}].err = d.err \cup {"BUS_OFF"}
    BY <1>3 DEF DataSet
  <1>5. Callbacks(d, rx, off)
          = IF off THEN [stored EXCEPT !.err = @ \cup {"BUS_OFF"}] ELSE stored
    BY DEF Callbacks, stored
  <1>6. TimesyncEvent(d).err
          = IF TimesyncEvent(d).buffered > d.buffered + 1 THEN {} ELSE d.err
    BY SecondFits DEF TimesyncEvent, DataSet
  <1> QED
    BY <1>1, <1>2, <1>3, <1>4, <1>5, <1>6

\* The flag says what it should: bus-off has been reported and no error
\* record made since.
BusOffInv == busoff <=> "BUS_OFF" \in err

LEMMA NextBusOffInv == IInv /\ BusOffInv /\ [Next]_vars => BusOffInv'
  <1> SUFFICES ASSUME IInv, BusOffInv, [Next]_vars PROVE BusOffInv'
    OBVIOUS
  <1>0. /\ TypeOK /\ Data \in DataSet
        /\ Data.err = err /\ Data.buffered = buffered
        /\ busoff \in BOOLEAN
    BY DataType DEF IInv, TypeOK, Data
  <1>1. CASE BusOn
    <2>1. err' = IF StoredError THEN {} ELSE err
      BY <1>0, <1>1, ErrKept DEF BusOn, SetData, StoredError
    <2>2. busoff' = (busoff /\ ~StoredError)
      BY <1>1 DEF BusOn, SyncHistory
    <2> QED
      BY <2>1, <2>2 DEF BusOffInv
  <1>2. ASSUME NEW echo \in BOOLEAN, Record(echo) PROVE BusOffInv'
    BY <1>0, <1>2, ErrKept DEF Record, Send, SetData, BusOffInv, dataVars
  <1>3. ASSUME NEW t \in {0, 1}, NEW rx \in BOOLEAN, NEW off \in BOOLEAN,
               NEW echo \in BOOLEAN, Wait(t, rx, off, echo)
        PROVE  BusOffInv'
    <2> DEFINE d == Callbacks(Data, rx, off)
    <2>1. /\ d \in DataSet
          /\ d.err = IF off THEN err \cup {"BUS_OFF"} ELSE err
      BY <1>0, CallbacksType, ErrKept
    <2>2. \/ SetData([d EXCEPT !.err = @ \cup {"TXFULL"}])
          \/ SetData(d)
          \/ SetData(Store(d))
      BY <1>3 DEF Wait, Send
    <2> HIDE DEF d
    <2>3. /\ [d EXCEPT !.err = @ \cup {"TXFULL"}].err = d.err \cup {"TXFULL"}
          /\ Store(d).err = d.err
      BY <1>0, <2>1, ErrKept DEF DataSet
    <2>4. err' = d.err \/ err' = d.err \cup {"TXFULL"}
      BY <2>2, <2>3 DEF SetData
    <2>5. busoff' = (busoff \/ off)
      BY <1>3 DEF Wait
    <2> QED
      BY <2>1, <2>4, <2>5 DEF BusOffInv
  <1>4. ASSUME NEW rx \in BOOLEAN, NEW off \in BOOLEAN, Poll(rx, off)
        PROVE  BusOffInv'
    <2> DEFINE synced == IF SyncDue THEN TimesyncEvent(Data) ELSE Data
    <2>1. synced \in DataSet
      BY <1>0, TimesyncType
    <2>2. synced.err = IF SyncDue /\ StoredError THEN {} ELSE err
      BY <1>0, ErrKept DEF StoredError
    <2>3. SetData(Callbacks(Flush(synced), rx, off))
      BY <1>4 DEF Poll
    <2> HIDE DEF synced
    <2>4. err' = IF off THEN synced.err \cup {"BUS_OFF"} ELSE synced.err
      <3>1. Flush(synced) \in DataSet /\ Flush(synced).err = synced.err
        BY <1>0, <2>1, FlushType, ErrKept
      <3>2. Callbacks(Flush(synced), rx, off).err
              = IF off THEN synced.err \cup {"BUS_OFF"} ELSE synced.err
        BY <1>0, <3>1, ErrKept
      <3> QED
        BY <2>3, <3>2 DEF SetData
    <2>5. busoff' = (off \/ (busoff /\ ~(SyncDue /\ StoredError)))
      BY <1>4 DEF Poll, SyncHistory
    <2> QED
      BY <2>2, <2>4, <2>5 DEF BusOffInv
  <1>5. CASE \/ DataIn \/ BusOff \/ PacketDone \/ UNCHANGED vars
             \/ \E d \in {0, 1} : UsbDone(d)
             \/ \E n \in 1..MaxRecords : Packet(n)
    BY <1>5 DEF BusOffInv, DataIn, BusOff, PacketDone, UsbDone, Packet, vars,
                dataVars, syncHist
  <1> QED
    BY <1>1, <1>2, <1>3, <1>4, <1>5 DEF Next

\* Whenever a record waits it is given up exactly when the bus is off or a
\* full second of true time has passed since its own wait began
\* (pcan_decode_data_frame), also after others have been given up.
THEOREM GiveUpOnlyForCause == Spec => GiveUpJustified
  <1>1. IInv /\ BusOffInv /\ [Next]_vars
          => [pc = "wait" =>
                /\ lost' <=> busoff' \/ held + ((now' - now) % WRAP) >= SECOND
                /\ lost' => "TXFULL" \in err']_vars
    <2> SUFFICES ASSUME IInv, BusOffInv, Next, pc = "wait"
                 PROVE  /\ lost' <=>
                             busoff' \/ held + ((now' - now) % WRAP) >= SECOND
                        /\ lost' => "TXFULL" \in err'
      OBVIOUS
    <2>1. PICK t \in {0, 1}, rx \in BOOLEAN, off \in BOOLEAN,
               echo \in BOOLEAN : Wait(t, rx, off, echo)
      BY DEF Next, UsbDone, DataIn, Packet, BusOn, BusOff, PacketDone,
             Record, Poll
    <2> DEFINE d == Callbacks(Data, rx, off)
    <2>2. d \in DataSet /\ d.err = IF off THEN err \cup {"BUS_OFF"} ELSE err
      <3>1. TypeOK /\ Data \in DataSet /\ Data.err = err
        BY DataType DEF IInv, Data
      <3> QED
        BY <3>1, CallbacksType, ErrKept
    <2>3. \/ /\ GiveUp(d) /\ lost'
             /\ SetData([d EXCEPT !.err = @ \cup {"TXFULL"}])
          \/ ~GiveUp(d) /\ (lost' = FALSE \/ lost' = lost)
      BY <2>1 DEF Wait
    <2>4. ~lost
      BY DEF IInv, WaitInv
    <2>5. busoff' <=> "BUS_OFF" \in d.err
      <3>1. busoff' = (busoff \/ off)
        BY <2>1 DEF Wait
      <3> QED
        BY <2>2, <3>1 DEF BusOffInv
    <2> HIDE DEF d
    <2>6. (now' - ts_poll) % WRAP = held + ((now' - now) % WRAP)
      <3>1. /\ held = (now - ts_poll) % WRAP /\ held < SECOND
            /\ now \in Ticks /\ ts_poll \in Ticks /\ held \in Nat
            /\ now' = (now + t) % WRAP
        BY <2>1 DEF IInv, WaitInv, Diff, TypeOK, Wait, Pass
      <3>2. held + t < WRAP /\ 1 < WRAP
        BY <3>1, SecondFits
      <3> QED
        BY <3>1, <3>2, WrapStep, RoundTime
    <2>7. GiveUp(d) <=> busoff' \/ held + ((now' - now) % WRAP) >= SECOND
      BY <2>5, <2>6 DEF GiveUp
    <2>8. CASE GiveUp(d)
      <3>1. SetData([d EXCEPT !.err = @ \cup {"TXFULL"}]) /\ lost'
        BY <2>3, <2>8
      <3>2. "TXFULL" \in err'
        BY <2>2, <3>1 DEF SetData, DataSet
      <3> QED
        BY <2>7, <2>8, <3>1, <3>2
    <2>9. CASE ~GiveUp(d)
      BY <2>3, <2>4, <2>7, <2>9
    <2> QED
      BY <2>8, <2>9
  <1>2. Init => BusOffInv
    BY DEF Init, BusOffInv
  <1>3. Spec => []BusOffInv
    BY <1>2, Invariance, NextBusOffInv, PTL DEF Spec
  <1> QED
    BY <1>1, <1>3, Invariance, PTL DEF Spec, GiveUpJustified

------------------------------------------------------------------------------
(* The time-sync records *)

\* A time-sync event stores its record unless the buffer is full.
LEMMA StoredUnlessFull == TypeOK => (StoredSync <=> buffered # CAPACITY)
  <1> SUFFICES ASSUME TypeOK PROVE StoredSync <=> buffered # CAPACITY
    OBVIOUS
  <1>1. /\ Data \in DataSet /\ Data.buffered = buffered
        /\ buffered \in 0..CAPACITY
    BY DataType DEF Data, TypeOK
  <1>2. TimesyncEvent(Data).buffered
          = IF buffered + 2 > CAPACITY THEN CAPACITY ELSE buffered + 2
    BY <1>1 DEF TimesyncEvent, DataSet
  <1> QED
    BY <1>1, <1>2, SecondFits DEF StoredSync

\* Without an excuse the loop sees the true time since a time-sync record was
\* last stored, and comes to pcan_protocol_poll before it is late.
SyncInv ==
    /\ pc = "wait" => excused
    /\ bus_active /\ ~excused =>
         /\ since = Diff(last_timestamp_sync)
         /\ since <= SECOND
         /\ pc # "poll" => since < SECOND

\* What a time-sync event that is due does to the history.
LEMMA HistoryDue ==
    ASSUME TypeOK, NEW off, SyncHistory(TRUE, off)
    PROVE  since' = 0 \/ excused'
  BY StoredUnlessFull DEF SyncHistory

LEMMA NextSyncInv == IInv /\ SyncInv /\ [Next]_vars => SyncInv'
  <1> SUFFICES ASSUME IInv, SyncInv, [Next]_vars PROVE SyncInv'
    OBVIOUS
  <1> USE SecondFits DEF loopVars, dataVars, syncHist, waitHist
  <1>0. /\ now \in Ticks /\ last_timestamp_sync \in Ticks
        /\ since \in 0..MaxTime /\ TypeOK /\ pc \in {"usb", "records", "wait", "poll"}
        /\ bus_active \in BOOLEAN /\ excused \in BOOLEAN
    BY DEF IInv, TypeOK
  <1>1. (now - now) % WRAP = 0
    BY <1>0, WrapOnce DEF Ticks
  <1>2. ASSUME NEW d \in {0, 1}, UsbDone(d) PROVE SyncInv'
    <2>1. /\ pc = "usb" /\ pc' = "poll" /\ now' = (now + d) % WRAP
          /\ since' = Capped(since + d)
          /\ UNCHANGED <<last_timestamp_sync, bus_active, excused>>
      BY <1>2 DEF UsbDone, Pass
    <2>2. ASSUME bus_active, ~excused
          PROVE  since' = Diff(last_timestamp_sync)' /\ since' <= SECOND
      <3>1. /\ since = (now - last_timestamp_sync) % WRAP /\ since < SECOND
        BY <2>1, <2>2 DEF SyncInv, Diff
      <3>2. since + d < WRAP /\ Capped(since + d) = since + d /\ since + d <= SECOND
        BY <1>0, <3>1 DEF Capped
      <3>3. (now' - last_timestamp_sync) % WRAP = since + d
        BY <1>0, <2>1, <3>1, <3>2, WrapStep
      <3> QED
        BY <2>1, <3>2, <3>3 DEF Diff
    <2> QED
      BY <2>1, <2>2 DEF SyncInv
  <1>3. CASE BusOn
    <2>1. since' = 0 \/ excused'
      BY <1>0, <1>3, HistoryDue DEF BusOn
    <2>2. pc = "usb" /\ pc' = pc /\ last_timestamp_sync' = now /\ now' = now
      BY <1>3 DEF BusOn
    <2> QED
      BY <1>1, <2>1, <2>2 DEF SyncInv, Diff
  <1>4. CASE BusOff
    BY <1>4 DEF BusOff, SyncInv
  <1>5. CASE DataIn \/ PacketDone \/ \E n \in 1..MaxRecords : Packet(n)
    <2>1. /\ UNCHANGED <<now, last_timestamp_sync, since, bus_active, excused>>
          /\ pc # "poll" /\ pc' # "wait"
      BY <1>5 DEF DataIn, PacketDone, Packet
    <2> QED
      BY <1>0, <2>1 DEF SyncInv, Diff
  <1>6. ASSUME NEW echo \in BOOLEAN, Record(echo) PROVE SyncInv'
    <2>1. /\ UNCHANGED <<now, last_timestamp_sync, since, bus_active>>
          /\ pc = "records"
          /\ \/ pc' = "records" /\ excused' = excused
             \/ pc' = "wait" /\ excused'
      BY <1>6 DEF Record
    <2> QED
      BY <1>0, <2>1 DEF SyncInv, Diff
  <1>7. ASSUME NEW t \in {0, 1}, NEW rx, NEW off, NEW echo, Wait(t, rx, off, echo)
        PROVE  SyncInv'
    <2>1. excused /\ excused' = excused
      BY <1>7 DEF Wait, SyncInv
    <2> QED
      BY <2>1 DEF SyncInv
  <1>8. ASSUME NEW rx \in BOOLEAN, NEW off \in BOOLEAN, Poll(rx, off)
        PROVE  SyncInv'
    <2>1. /\ pc = "poll" /\ pc' = "usb" /\ UNCHANGED <<now, bus_active>>
          /\ last_timestamp_sync' = IF SyncDue THEN now ELSE last_timestamp_sync
          /\ SyncHistory(SyncDue, off)
      BY <1>8 DEF Poll
    <2>2. CASE SyncDue
      <3>1. since' = 0 \/ excused'
        BY <1>0, <2>1, <2>2, HistoryDue
      <3> QED
        BY <1>0, <1>1, <2>1, <2>2, <3>1 DEF SyncInv, Diff
    <2>3. CASE ~SyncDue
      <3>1. UNCHANGED <<now, bus_active, last_timestamp_sync, since>>
            /\ (excused' <=> excused)
        BY <2>1, <2>3 DEF SyncHistory
      <3>2. bus_active => ~(Diff(last_timestamp_sync) >= SECOND)
        BY <2>3 DEF SyncDue
      <3> QED
        BY <1>0, <2>1, <3>1, <3>2 DEF SyncInv, Diff
    <2> QED
      BY <2>2, <2>3
  <1>9. CASE UNCHANGED vars
    BY <1>9 DEF vars, SyncInv, Diff
  <1> QED
    BY <1>2, <1>3, <1>4, <1>5, <1>6, <1>7, <1>8, <1>9 DEF Next

\* While the bus is on, time-sync records are stored no more than a second
\* apart (pcan_protocol_poll), but for a record that had to wait and for a
\* time-sync that fell due with the buffer full.
THEOREM TimesyncInTime == Spec => []TimesyncOnTime
  <1>1. Init => SyncInv
    BY DEF Init, SyncInv
  <1>2. SyncInv => TimesyncOnTime
    BY DEF SyncInv, TimesyncOnTime
  <1>3. Spec => []SyncInv
    BY <1>1, Invariance, NextSyncInv, PTL DEF Spec
  <1> QED
    BY <1>2, <1>3, PTL
------------------------------------------------------------------------------
(* Handing over *)

\* A transfer that the host has not seen the end of has the time of its ZLP.
Timed(d) == d.open => d.last_flush # 0

\* What pcan_protocol_poll finds to hand over, records or a ZLP that is due,
\* it gives to the pump, if the pump is free as the poll begins.
PollHandsOver ==
    [][pc = "poll" /\ pc' = "usb" /\ ~pump
         /\ (buffered > 0 \/ (open /\ Diff(last_flush) >= ZLP_TICKS))
       => pump']_vars

\* No step on the buffer takes it from the pump or loses the time.
LEMMA KeepsTime ==
    ASSUME TypeOK, NEW d \in DataSet, Timed(d)
    PROVE  /\ Timed(Flush(d)) /\ (d.pump => Flush(d).pump)
           /\ Timed(Store(d)) /\ (d.pump => Store(d).pump)
           /\ Timed(TimesyncEvent(d))
  <1>1. Timed(Flush(d)) /\ (d.pump => Flush(d).pump)
    BY DEF Flush, Timed, DataSet
  <1>2. Timed([Flush(d) EXCEPT !.buffered = 1])
        /\ (d.pump => [Flush(d) EXCEPT !.buffered = 1].pump)
    BY <1>1, FlushType DEF Timed, DataSet
  <1>3. Timed(Store(d)) /\ (d.pump => Store(d).pump)
    BY <1>2 DEF Store, Timed, DataSet
  <1>4. Timed(TimesyncEvent(d))
    BY DEF TimesyncEvent, Timed, DataSet
  <1> QED
    BY <1>1, <1>3, <1>4

LEMMA CallbacksKeepTime ==
    ASSUME TypeOK, NEW d \in DataSet, Timed(d),
           NEW rx \in BOOLEAN, NEW off \in BOOLEAN
    PROVE  /\ Timed(Callbacks(d, rx, off))
           /\ d.pump => Callbacks(d, rx, off).pump
  <1> DEFINE stored == IF rx THEN Store(d) ELSE d
  <1>1. stored \in DataSet /\ Timed(stored) /\ (d.pump => stored.pump)
    BY StoreType, KeepsTime
  <1> HIDE DEF stored
  <1>2. Callbacks(d, rx, off)
          = IF off THEN [stored EXCEPT !.err = @ \cup {"BUS_OFF"}] ELSE stored
    BY DEF Callbacks, stored
  <1> QED
    BY <1>1, <1>2 DEF Timed, DataSet

OpenTimed == Timed(Data)

\* The buffer is as before, or as a step on it leaves it.
LEMMA NextOpenTimed == IInv /\ OpenTimed /\ [Next]_vars => OpenTimed'
  <1> SUFFICES ASSUME IInv, OpenTimed, [Next]_vars PROVE OpenTimed'
    OBVIOUS
  <1>0. TypeOK /\ Data \in DataSet /\ Timed(Data)
    BY DataType DEF IInv, OpenTimed
  <1>1. ASSUME NEW d \in DataSet, Timed(d), SetData(d) PROVE OpenTimed'
    BY <1>1 DEF SetData, OpenTimed, Timed, Data
  <1>2. ASSUME UNCHANGED <<last_flush, open>> PROVE OpenTimed'
    BY <1>0, <1>2 DEF OpenTimed, Timed, Data
  <1>3. CASE BusOn
    BY <1>0, <1>1, <1>3, TimesyncType, KeepsTime DEF BusOn
  <1>4. ASSUME NEW echo \in BOOLEAN, Record(echo) PROVE OpenTimed'
    <2>1. CASE Send(queued, Data, echo)
      BY <1>0, <1>1, <2>1, StoreType, KeepsTime DEF Send
    <2>2. CASE UNCHANGED dataVars
      BY <1>2, <2>2 DEF dataVars
    <2> QED
      BY <1>4, <2>1, <2>2 DEF Record
  <1>5. ASSUME NEW t \in {0, 1}, NEW rx \in BOOLEAN, NEW off \in BOOLEAN,
               NEW echo \in BOOLEAN, Wait(t, rx, off, echo)
        PROVE  OpenTimed'
    <2> DEFINE d == Callbacks(Data, rx, off)
    <2>1. d \in DataSet /\ Timed(d)
      BY <1>0, CallbacksType, CallbacksKeepTime
    <2>2. \/ SetData([d EXCEPT !.err = @ \cup {"TXFULL"}])
          \/ SetData(d)
          \/ SetData(Store(d))
      BY <1>5 DEF Wait, Send
    <2> HIDE DEF d
    <2>3. /\ Store(d) \in DataSet /\ Timed(Store(d))
      BY <1>0, <2>1, StoreType, KeepsTime
    <2>4. /\ [d EXCEPT !.err = @ \cup {"TXFULL"}] \in DataSet
          /\ Timed([d EXCEPT !.err = @ \cup {"TXFULL"}])
      BY <2>1 DEF DataSet, Timed, ErrFlags
    <2> QED
      BY <1>1, <2>1, <2>2, <2>3, <2>4
  <1>6. ASSUME NEW rx \in BOOLEAN, NEW off \in BOOLEAN, Poll(rx, off)
        PROVE  OpenTimed'
    <2> DEFINE synced == IF SyncDue THEN TimesyncEvent(Data) ELSE Data
    <2>1. synced \in DataSet /\ Timed(synced)
      BY <1>0, TimesyncType, KeepsTime
    <2>2. SetData(Callbacks(Flush(synced), rx, off))
      BY <1>6 DEF Poll
    <2> HIDE DEF synced
    <2>3. Flush(synced) \in DataSet /\ Timed(Flush(synced))
      BY <1>0, <2>1, FlushType, KeepsTime
    <2> QED
      BY <1>0, <1>1, <2>2, <2>3, CallbacksType, CallbacksKeepTime
  <1>7. CASE \/ DataIn \/ BusOff \/ PacketDone \/ UNCHANGED vars
             \/ \E d \in {0, 1} : UsbDone(d)
             \/ \E n \in 1..MaxRecords : Packet(n)
    BY <1>2, <1>7
    DEF DataIn, BusOff, PacketDone, UsbDone, Packet, vars, loopVars, dataVars
  <1> QED
    BY <1>3, <1>4, <1>5, <1>6, <1>7 DEF Next

\* Every round of the loop that finds the pump free hands over the records
\* in the buffer, or the ZLP that is due (the safety half of
\* RecordsHandedOver and ZlpFollows).
THEOREM EveryPollHandsOver == Spec => PollHandsOver
  <1>1. IInv /\ OpenTimed /\ [Next]_vars
          => [pc = "poll" /\ pc' = "usb" /\ ~pump
                /\ (buffered > 0 \/ (open /\ Diff(last_flush) >= ZLP_TICKS))
              => pump']_vars
    <2> SUFFICES ASSUME IInv, OpenTimed, Next,
                        pc = "poll", pc' = "usb", ~pump,
                        buffered > 0 \/ (open /\ Diff(last_flush) >= ZLP_TICKS)
                 PROVE  pump'
      OBVIOUS
    <2>1. PICK rx \in BOOLEAN, off \in BOOLEAN : Poll(rx, off)
      BY DEF Next, UsbDone, DataIn, Packet, BusOn, BusOff, PacketDone,
             Record, Wait
    <2> DEFINE synced == IF SyncDue THEN TimesyncEvent(Data) ELSE Data
    <2>2. TypeOK /\ Data \in DataSet /\ Timed(Data)
      BY DataType DEF IInv, OpenTimed
    <2>3. synced \in DataSet /\ Timed(synced)
      BY <2>2, TimesyncType, KeepsTime
    <2>4. /\ synced.pump = FALSE
          /\ synced.last_flush = last_flush /\ synced.open = open
          /\ synced.buffered = 0 => buffered = 0
      <3>1. /\ Data.pump = FALSE
            /\ Data.last_flush = last_flush /\ Data.open = open
            /\ Data.buffered = buffered
        BY <2>2 DEF Data, DataSet
      <3>2. /\ TimesyncEvent(Data).pump = FALSE
            /\ TimesyncEvent(Data).last_flush = last_flush
            /\ TimesyncEvent(Data).open = open
            /\ TimesyncEvent(Data).buffered # 0
        BY <2>2, <3>1, SecondFits DEF TimesyncEvent, DataSet
      <3> QED
        BY <3>1, <3>2
    <2>5. SetData(Callbacks(Flush(synced), rx, off))
      BY <2>1 DEF Poll
    <2> HIDE DEF synced
    <2>6. Flush(synced).pump
      <3>1. CASE synced.buffered = 0
        <4>1. buffered = 0 /\ open /\ Diff(last_flush) >= ZLP_TICKS
          BY <2>2, <2>4, <3>1 DEF TypeOK
        <4>2. last_flush # 0
          BY <2>2, <4>1 DEF Timed, Data
        <4> QED
          BY <2>3, <2>4, <3>1, <4>1, <4>2 DEF Flush, DataSet
      <3>2. CASE synced.buffered # 0
        BY <2>3, <2>4, <3>2 DEF Flush, DataSet
      <3> QED
        BY <3>1, <3>2
    <2>7. Flush(synced) \in DataSet /\ Timed(Flush(synced))
      BY <2>2, <2>3, FlushType, KeepsTime
    <2> QED
      BY <2>2, <2>5, <2>6, <2>7, CallbacksKeepTime DEF SetData
  <1>2. Init => OpenTimed
    BY DEF Init, OpenTimed, Timed, Data
  <1>3. Spec => []OpenTimed
    BY <1>2, Invariance, NextOpenTimed, PTL DEF Spec
  <1> QED
    BY <1>1, <1>3, Invariance, PTL DEF Spec, PollHandsOver
==============================================================================
