--------------------------- MODULE PcanCan_proofs ---------------------------
(***************************************************************************)
(* The ring of the CAN driver is a FIFO for every CAN_TX_FIFO_SIZE, number *)
(* of mailboxes and number of frames.                                      *)
(*                                                                         *)
(* FifoHoldsAccepted is inductive together with TypeOK: a slot is named by *)
(* its distance from the tail (Slot), so an accepted frame is written at   *)
(* distance Queued, and a frame handed over moves every other one place    *)
(* closer.  The order on the bus then follows, because a frame reaches a   *)
(* mailbox only as number handed + 1.                                      *)
(*                                                                         *)
(* The refinement of TxQueue rests on the same fact: what the ring holds   *)
(* is the run of numbers after handed (WaitingRun), to which accepting     *)
(* adds one behind and handing over takes the first away.                  *)
(***************************************************************************)
EXTENDS PcanCan, TLAPS

\* Succ stays inside the ring.
LEMMA SuccInRing ==
    ASSUME NEW i \in Slots
    PROVE  Succ(i) \in Slots
  BY FifoAssumption DEF Succ, Slots

\* The number of frames queued, whatever side of the tail the head is on.
LEMMA QueuedRange ==
    ASSUME TypeOK
    PROVE  /\ Queued \in Slots
           /\ Queued = 0 <=> tx_head = tx_tail
           /\ Queued = CAN_TX_FIFO_SIZE - 1 <=> Succ(tx_head) = tx_tail
           /\ Slot(0) = tx_tail
           /\ Slot(Queued) = tx_head
  BY FifoAssumption DEF TypeOK, Queued, Slots, Slot, Succ

\* Distances from the tail name different slots of the ring.
LEMMA SlotInjective ==
    ASSUME TypeOK, NEW j \in Slots, NEW k \in Slots
    PROVE  /\ Slot(j) \in Slots
           /\ Slot(j) = Slot(k) => j = k
  BY FifoAssumption DEF TypeOK, Slots, Slot

\* The ring of the driver holds exactly the frames between head and tail:
\* nothing accepted is overwritten, skipped or handed over twice.
IInv == TypeOK /\ FifoHoldsAccepted

LEMMA InitIInv == Init => IInv
  <1> SUFFICES ASSUME Init PROVE IInv
    OBVIOUS
  <1>1. TypeOK
    <2>1. tx_fifo \in [Slots -> 0..MaxAccepted]
      BY FifoAssumption DEF Init
    <2>2. 0 \in Slots /\ 0 \in 0..MaxAccepted /\ 0 \in 0..MaxOvfs
      BY FifoAssumption DEF Slots
    <2>3. mailbox \in Seq(Frames) /\ wire \in Seq(Frames)
      BY DEF Init
    <2> QED
      BY <2>1, <2>2, <2>3 DEF Init, TypeOK, HalStates, Modes
  <1>2. Queued = 0
    BY FifoAssumption DEF Init, Queued
  <1>3. FifoHoldsAccepted
    BY <1>2, FifoAssumption DEF Init, FifoHoldsAccepted, Slots
  <1> QED
    BY <1>1, <1>3 DEF IInv

\* Accepting a frame writes the one free slot behind the others.
LEMMA AcceptIInv ==
    ASSUME IInv, Accept, UNCHANGED ctrlVars
    PROVE  IInv'
  <1> USE FifoAssumption
  <1>1. TypeOK'
    <2>1. tx_head' \in Slots
      BY SuccInRing DEF IInv, TypeOK, Accept
    <2>2. /\ accepted' \in 0..MaxAccepted
          /\ tx_fifo' \in [Slots -> 0..MaxAccepted]
      BY DEF IInv, TypeOK, Accept
    <2> QED
      BY <2>1, <2>2 DEF IInv, TypeOK, Accept, ctrlVars
  <1>2. Queued' = Queued + 1
    BY DEF IInv, TypeOK, Accept, Queued, Succ, Slots
  <1>3. ASSUME NEW k \in Slots, k < Queued'
        PROVE  tx_fifo'[Slot(k)'] = handed' + k + 1
    <2>1. Slot(k)' = Slot(k) /\ handed' = handed
      BY DEF Accept, Slot
    <2>2. Queued \in Slots /\ Slot(Queued) = tx_head
      BY QueuedRange DEF IInv
    <2>3. Slot(k) \in Slots
      BY SlotInjective DEF IInv
    <2>4. CASE k = Queued
      BY <2>1, <2>2, <2>4 DEF IInv, TypeOK, Accept, FifoHoldsAccepted
    <2>5. CASE k < Queued
      <3>1. Slot(k) # tx_head
        BY <2>2, <2>5, SlotInjective DEF IInv, Slots
      <3>2. tx_fifo'[Slot(k)] = tx_fifo[Slot(k)]
        BY <2>3, <3>1 DEF IInv, TypeOK, Accept
      <3> QED
        BY <2>1, <2>5, <3>2 DEF IInv, FifoHoldsAccepted
    <2> QED
      BY <1>2, <1>3, <2>2, <2>4, <2>5 DEF Slots
  <1>4. Queued' = accepted' - handed'
    BY <1>2 DEF IInv, TypeOK, Accept, FifoHoldsAccepted
  <1> QED
    BY <1>1, <1>3, <1>4 DEF IInv, FifoHoldsAccepted

\* Handing a frame over moves every other one a place closer to the tail.
LEMMA FlushIInv ==
    ASSUME IInv, FlushTx
    PROVE  IInv'
  <1> USE FifoAssumption
  <1>1. Queued \in Slots /\ Queued # 0 /\ Slot(0) = tx_tail
    BY QueuedRange DEF IInv, FlushTx
  <1>2. tx_fifo[tx_tail] = handed + 1 /\ handed + 1 \in Frames
    <2>1. 0 \in Slots /\ 0 < Queued
      BY <1>1 DEF Slots
    <2>2. tx_fifo[Slot(0)] = handed + 0 + 1
      BY <2>1 DEF IInv, FifoHoldsAccepted
    <2> QED
      BY <1>1, <2>2 DEF IInv, TypeOK, FifoHoldsAccepted, Frames, Slots
  <1>3. TypeOK'
    <2>1. tx_tail' \in Slots
      BY SuccInRing DEF IInv, TypeOK, FlushTx
    <2>2. mailbox' \in Seq(Frames)
      BY <1>2 DEF IInv, TypeOK, FlushTx
    <2>3. handed' \in 0..MaxAccepted
      BY <1>2 DEF IInv, TypeOK, FlushTx, Frames
    <2> QED
      BY <2>1, <2>2, <2>3 DEF IInv, TypeOK, FlushTx
  <1>4. Queued' = Queued - 1
    BY DEF IInv, TypeOK, FlushTx, Queued, Succ, Slots
  <1>5. ASSUME NEW k \in Slots, k < Queued'
        PROVE  tx_fifo'[Slot(k)'] = handed' + k + 1
    <2>1. k + 1 \in Slots /\ k + 1 < Queued
      BY <1>1, <1>4, <1>5 DEF Slots
    <2>2. Slot(k)' = Slot(k + 1)
      BY <2>1 DEF IInv, TypeOK, FlushTx, Slot, Succ, Slots
    <2>3. tx_fifo[Slot(k + 1)] = handed + (k + 1) + 1
      BY <2>1 DEF IInv, FifoHoldsAccepted
    <2> QED
      BY <2>2, <2>3 DEF IInv, TypeOK, FlushTx, Slots
  <1>6. Queued' = accepted' - handed'
    BY <1>4 DEF IInv, TypeOK, FlushTx, FifoHoldsAccepted
  <1> QED
    BY <1>3, <1>5, <1>6 DEF IInv, FifoHoldsAccepted

\* A step that leaves the ring alone and keeps the rest well typed.
LEMMA RingUnchanged ==
    ASSUME IInv, UNCHANGED <<tx_fifo, tx_head, tx_tail, accepted, handed>>, TypeOK'
    PROVE  IInv'
  <1>1. Queued' = Queued /\ \A k : Slot(k)' = Slot(k)
    BY DEF Queued, Slot
  <1> QED
    BY <1>1 DEF IInv, FifoHoldsAccepted

LEMMA AbortType ==
    ASSUME TypeOK, NEW b, AbortTxRequest(b)
    PROVE  mailbox' \in Seq(Frames) /\ wire' \in Seq(Frames)
  <1>1. mailbox' \in Seq(Frames)
    BY DEF AbortTxRequest
  <1>2. wire \in Seq(Frames) /\ (mailbox # <<>> => Head(mailbox) \in Frames)
    BY DEF TypeOK
  <1>3. \/ wire' = wire
        \/ mailbox # <<>> /\ wire' = Append(wire, Head(mailbox))
    BY Zenon DEF AbortTxRequest
  <1> QED
    BY <1>1, <1>2, <1>3

LEMMA NextIInv == IInv /\ [Next]_vars => IInv'
  <1> SUFFICES ASSUME IInv, [Next]_vars PROVE IInv'
    OBVIOUS
  <1> USE FifoAssumption
  <1>1. CASE SendMessage
    <2>1. CASE Accept
      BY <1>1, <2>1, AcceptIInv DEF SendMessage
    <2>2. CASE Refuse
      <3>1. TypeOK'
        BY <1>1, <2>2 DEF IInv, TypeOK, SendMessage, Refuse, ctrlVars
      <3> QED
        BY <2>2, <3>1, RingUnchanged DEF Refuse
    <2> QED
      BY <1>1, <2>1, <2>2 DEF SendMessage
  <1>2. CASE FlushTx
    BY <1>2, FlushIInv
  <1>3. CASE Transmit
    <2>1. TypeOK'
      BY <1>3 DEF IInv, TypeOK, Transmit, fifoVars
    <2> QED
      BY <1>3, <2>1, RingUnchanged DEF Transmit, fifoVars
  <1>4. CASE BusOn
    <2>1. TypeOK'
      BY <1>4, AbortType DEF IInv, TypeOK, BusOn, fifoVars, HalStates
    <2> QED
      BY <1>4, <2>1, RingUnchanged DEF BusOn, fifoVars
  <1>5. CASE BusOff
    <2>1. TypeOK'
      BY <1>5, AbortType DEF IInv, TypeOK, BusOff, fifoVars, HalStates
    <2> QED
      BY <1>5, <2>1, RingUnchanged DEF BusOff, fifoVars
  <1>6. ASSUME NEW m \in Modes, Reinit(m)
        PROVE  IInv'
    <2>1. TypeOK'
      BY <1>6 DEF IInv, TypeOK, Reinit, fifoVars, HalStates
    <2> QED
      BY <1>6, <2>1, RingUnchanged DEF Reinit, fifoVars
  <1>7. CASE SetBitrate
    BY <1>6, <1>7 DEF SetBitrate, IInv, TypeOK
  <1>8. ASSUME NEW on \in BOOLEAN, SetSilent(on) \/ SetLoopback(on)
        PROVE  IInv'
    BY <1>6, <1>8 DEF SetSilent, SetLoopback, Modes
  <1>9. CASE UNCHANGED vars
    <2>1. TypeOK'
      BY <1>9 DEF IInv, TypeOK, vars, fifoVars, ctrlVars
    <2> QED
      BY <1>9, <2>1, RingUnchanged DEF vars, fifoVars
  <1> QED
    BY <1>1, <1>2, <1>3, <1>4, <1>5, <1>7, <1>8, <1>9 DEF Next

\* Every reachable state of the driver is well typed, whatever the size of
\* the ring: no index ever leaves tx_fifo.
THEOREM TypeCorrect == Spec => []TypeOK
  <1>1. IInv => TypeOK
    BY DEF IInv
  <1> QED
    BY InitIInv, NextIInv, <1>1, PTL DEF Spec

\* The ring is a FIFO: what lies between tail and head is exactly the frames
\* accepted and not yet handed over, in order.
THEOREM RingIsFifo == Spec => []FifoHoldsAccepted
  <1>1. IInv => FifoHoldsAccepted
    BY DEF IInv
  <1> QED
    BY InitIInv, NextIInv, <1>1, PTL DEF Spec

------------------------------------------------------------------------------
(* The order on the bus *)

\* Sending the oldest request moves it from the front of the mailboxes to
\* the end of the history: together they read the same.
LEMMA SendKeepsOrder ==
    ASSUME NEW S, NEW w \in Seq(S), NEW m \in Seq(S), m # <<>>
    PROVE  Append(w, Head(m)) \o Tail(m) = w \o m
  OBVIOUS

\* Dropping all requests, the first perhaps sent, keeps a prefix.
LEMMA AbortKeepsPrefix ==
    ASSUME TypeOK, NEW b, AbortTxRequest(b)
    PROVE  /\ Len(wire' \o mailbox') <= Len(wire \o mailbox)
           /\ \A i \in DOMAIN (wire' \o mailbox') :
                 /\ i \in DOMAIN (wire \o mailbox)
                 /\ (wire' \o mailbox')[i] = (wire \o mailbox)[i]
  <1>1. mailbox' = <<>> /\ wire' \in Seq(Frames) /\ wire' \o mailbox' = wire'
    BY AbortType DEF AbortTxRequest
  <1>2. CASE wire' = wire
    BY <1>1, <1>2 DEF TypeOK
  <1>3. CASE mailbox # <<>> /\ wire' = Append(wire, Head(mailbox))
    BY <1>1, <1>3 DEF TypeOK
  <1> QED
    BY <1>2, <1>3 DEF AbortTxRequest

LEMMA NextSentInOrder == IInv /\ SentInOrder /\ [Next]_vars => SentInOrder'
  <1> SUFFICES ASSUME IInv, SentInOrder, [Next]_vars PROVE SentInOrder'
    OBVIOUS
  <1> USE FifoAssumption
  <1>1. ASSUME UNCHANGED <<mailbox, wire, handed>> PROVE SentInOrder'
    BY <1>1 DEF SentInOrder, Ordered
  <1>2. CASE SendMessage
    BY <1>1, <1>2 DEF SendMessage, Accept, Refuse, ctrlVars
  <1>3. CASE FlushTx
    <2>1. mailbox \in Seq(Frames) /\ wire \in Seq(Frames) /\ handed \in Nat
      BY DEF IInv, TypeOK
    <2>2. tx_fifo[tx_tail] = handed + 1
      <3>1. 0 \in Slots /\ 0 < Queued /\ Slot(0) = tx_tail
        BY <1>3, QueuedRange DEF IInv, FlushTx, Slots
      <3>2. tx_fifo[Slot(0)] = handed + 0 + 1
        BY <3>1 DEF IInv, FifoHoldsAccepted
      <3> QED
        BY <2>1, <3>1, <3>2
    <2>3. handed + 1 \in Frames
      BY <1>3, FlushIInv, <2>1 DEF IInv, TypeOK, FlushTx, Frames
    <2> DEFINE old == wire \o mailbox
    <2>4. old \in Seq(Frames)
      BY <2>1
    <2>5. wire' \o mailbox' = Append(old, handed + 1)
      BY <1>3, <2>1, <2>2, <2>3 DEF FlushTx
    <2>6. Ordered(old) /\ \A i \in DOMAIN old : old[i] <= handed
      BY Zenon DEF SentInOrder
    <2> HIDE DEF old
    <2>7. \A i \in DOMAIN old : old[i] \in Nat
      BY <2>4 DEF Frames
    <2>8. /\ \A i \in DOMAIN old : old[i] <= handed /\ old[i] \in Nat
          /\ \A i, j \in DOMAIN old : i < j => old[i] < old[j]
      BY <2>6, <2>7, Zenon DEF Ordered
    <2>9. \A i \in DOMAIN Append(old, handed + 1) :
            \/ i \in DOMAIN old /\ Append(old, handed + 1)[i] = old[i]
            \/ i = Len(old) + 1 /\ Append(old, handed + 1)[i] = handed + 1
      BY <2>3, <2>4
    <2>10. Ordered(Append(old, handed + 1))
      BY <2>1, <2>4, <2>8, <2>9 DEF Ordered
    <2>11. \A i \in DOMAIN Append(old, handed + 1) :
             Append(old, handed + 1)[i] <= handed + 1
      BY <2>1, <2>8, <2>9
    <2> QED
      BY <1>3, <2>5, <2>10, <2>11 DEF SentInOrder, FlushTx
  <1>4. CASE Transmit
    <2>1. wire' \o mailbox' = wire \o mailbox
      BY <1>4, SendKeepsOrder DEF IInv, TypeOK, Transmit
    <2> QED
      BY <1>4, <2>1 DEF SentInOrder, Ordered, Transmit, fifoVars
  <1>5. ASSUME NEW b, AbortTxRequest(b), handed' = handed PROVE SentInOrder'
    BY <1>5, AbortKeepsPrefix DEF IInv, SentInOrder, Ordered
  <1>6. CASE BusOn \/ BusOff
    BY <1>5, <1>6 DEF BusOn, BusOff, fifoVars
  <1>7. CASE SetBitrate \/ \E on \in BOOLEAN : SetSilent(on) \/ SetLoopback(on)
    BY <1>1, <1>7 DEF SetBitrate, SetSilent, SetLoopback, Reinit, fifoVars
  <1>8. CASE UNCHANGED vars
    BY <1>1, <1>8 DEF vars, fifoVars, ctrlVars
  <1> QED
    BY <1>2, <1>3, <1>4, <1>6, <1>7, <1>8 DEF Next

\* Frames reach the bus in the order they were accepted and at most once,
\* for every sequence of starts, stops, aborts and reconfigurations.
THEOREM BusOrder == Spec => []SentInOrder
  <1>1. Init => SentInOrder
    BY DEF Init, SentInOrder, Ordered
  <1> QED
    BY InitIInv, NextIInv, NextSentInOrder, <1>1, PTL DEF Spec

------------------------------------------------------------------------------
(* The abstract queue *)

\* A frame put behind the ring is put behind the whole queue.
LEMMA AppendBehind ==
    ASSUME NEW S, NEW m \in Seq(S), NEW w \in Seq(S), NEW f \in S
    PROVE  m \o Append(w, f) = Append(m \o w, f)
  OBVIOUS

\* A frame handed from the ring to the mailboxes keeps its place.
LEMMA HandOver ==
    ASSUME NEW S, NEW m \in Seq(S), NEW w \in Seq(S), w # <<>>
    PROVE  Append(m, Head(w)) \o Tail(w) = m \o w
  OBVIOUS

\* The oldest request is the head of the queue.
LEMMA TakeHead ==
    ASSUME NEW S, NEW m \in Seq(S), NEW w \in Seq(S), m # <<>>
    PROVE  /\ Head(m \o w) = Head(m)
           /\ Tail(m) \o w = SubSeq(m \o w, 2, Len(m \o w))
           /\ Len(m \o w) >= 1
  OBVIOUS

\* Without the mailboxes the queue is the ring.
LEMMA DropFront ==
    ASSUME NEW S, NEW m \in Seq(S), NEW w \in Seq(S)
    PROVE  /\ w = SubSeq(m \o w, Len(m) + 1, Len(m \o w))
           /\ Len(m) <= Len(m \o w)
           /\ <<>> \o w = w
  OBVIOUS

\* Without its head, a run of numbers starts one later.
LEMMA TailOfRun ==
    ASSUME NEW n \in Nat, n # 0, NEW a \in Nat
    PROVE  Tail([k \in 1 .. n |-> a + k]) = [k \in 1 .. n - 1 |-> a + 1 + k]
  <1> DEFINE s == [k \in 1 .. n |-> a + k]
  <1>1. s \in Seq(Nat) /\ Len(s) = n
    OBVIOUS
  <1>2. \A k \in 1 .. n : s[k] = a + k
    OBVIOUS
  <1> HIDE DEF s
  <1> DEFINE t == Tail(s)
  <1>3. /\ t \in Seq(Nat) /\ Len(t) = n - 1
        /\ \A k \in 1 .. n - 1 : t[k] = s[k + 1]
    BY <1>1
  <1> HIDE DEF t
  <1>4. \A k \in 1 .. n - 1 : t[k] = a + 1 + k
    BY <1>2, <1>3
  <1>5. t = [k \in 1 .. n - 1 |-> t[k]]
    BY <1>3
  <1>6. t = [k \in 1 .. n - 1 |-> a + 1 + k]
    BY <1>4, <1>5
  <1> QED
    BY <1>6 DEF s, t

\* What the ring holds is the run of frames that follow the last one handed
\* over.
Run ==
    /\ Waiting = [k \in 1 .. Queued |-> handed + k]
    /\ Waiting \in Seq(Frames)
    /\ Len(Waiting) = Queued
    /\ Queued \in Nat /\ handed \in Nat
    /\ accepted = handed + Queued

LEMMA WaitingRun == IInv => Run
  <1> SUFFICES ASSUME IInv PROVE Run
    OBVIOUS
  <1>1. /\ Queued \in Slots /\ Queued \in Nat
        /\ Queued = accepted - handed
        /\ accepted \in 0..MaxAccepted /\ handed \in Nat
    BY QueuedRange DEF IInv, TypeOK, FifoHoldsAccepted, Slots
  <1>2. ASSUME NEW k \in 1 .. Queued PROVE tx_fifo[Slot(k - 1)] = handed + k
    <2>1. k - 1 \in Slots /\ k - 1 < Queued
      BY <1>1, FifoAssumption DEF Slots
    <2>2. tx_fifo[Slot(k - 1)] = handed + (k - 1) + 1
      BY <2>1 DEF IInv, FifoHoldsAccepted
    <2> QED
      BY <1>1, <2>2
  <1>3. Waiting = [k \in 1 .. Queued |-> handed + k]
    BY <1>2 DEF Waiting
  <1>4. \A k \in 1 .. Queued : handed + k \in Frames
    BY <1>1, FifoAssumption DEF Frames
  <1>5. Waiting \in Seq(Frames) /\ Len(Waiting) = Queued
    BY <1>1, <1>3, <1>4
  <1> QED
    BY <1>1, <1>3, <1>5 DEF Run

LEMMA WaitingRunAfter == IInv' => Run'
  BY WaitingRun, PTL

\* The controller never holds more requests than it has mailboxes.
Held == Len(mailbox) <= MAILBOXES

LEMMA NextHeld == IInv /\ Held /\ [Next]_vars => Held'
  <1> SUFFICES ASSUME IInv, Held, [Next]_vars PROVE Held'
    OBVIOUS
  <1> USE FifoAssumption DEF Held
  <1>1. mailbox \in Seq(Frames)
    BY DEF IInv, TypeOK
  <1>2. CASE SendMessage \/ UNCHANGED vars
    BY <1>2 DEF SendMessage, ctrlVars, vars
  <1>3. CASE FlushTx
    BY <1>1, <1>3 DEF FlushTx
  <1>4. CASE Transmit
    BY <1>1, <1>4 DEF Transmit
  <1>5. CASE BusOn \/ BusOff
    BY <1>5 DEF BusOn, BusOff, AbortTxRequest
  <1>6. CASE SetBitrate \/ \E on \in BOOLEAN : SetSilent(on) \/ SetLoopback(on)
    BY <1>6 DEF SetBitrate, SetSilent, SetLoopback, Reinit
  <1> QED
    BY <1>2, <1>3, <1>4, <1>5, <1>6 DEF Next

\* What the abstract queue sees of a step, by the kind of step.
LEMMA StepQueue ==
    IInv /\ IInv' /\ Held /\ [Next]_vars => [Queue!Next]_(Queue!vars)
  <1> SUFFICES ASSUME IInv, IInv', Held, [Next]_vars
               PROVE  [Queue!Next]_(Queue!vars)
    OBVIOUS
  <1> USE FifoAssumption
  <1> DEFINE q == mailbox \o Waiting
  <1>1. /\ mailbox \in Seq(Frames) /\ Waiting \in Seq(Frames)
        /\ Len(Waiting) = Queued /\ Queued \in Nat /\ Queued \in Slots
        /\ accepted = handed + Queued /\ handed \in Nat
    BY WaitingRun, QueuedRange DEF Run, IInv, TypeOK
  <1>2. Len(q) = Len(mailbox) + Queued /\ Len(mailbox) \in Nat
    BY <1>1
  <1>3. ASSUME UNCHANGED <<tx_fifo, tx_head, tx_tail>> PROVE Waiting' = Waiting
    BY <1>3 DEF Waiting, Queued, Slot
  <1>4. ASSUME UNCHANGED <<tx_fifo, tx_head, tx_tail>>,
               UNCHANGED <<accepted, tx_ovfs, mailbox, wire>>
        PROVE  UNCHANGED Queue!vars
    BY <1>3, <1>4 DEF Queue!vars
  <1>5. CASE SendMessage /\ Accept
    <2>1. /\ accepted' = accepted + 1 /\ handed' = handed
          /\ UNCHANGED <<tx_ovfs, wire, mailbox>>
          /\ Succ(tx_head) # tx_tail
      BY <1>5 DEF SendMessage, Accept, ctrlVars
    <2>2. Queued' = Queued + 1
      BY <1>1, <2>1, WaitingRunAfter DEF Run
    <2>3. accepted + 1 \in Frames
      BY <1>1, <1>5 DEF Accept, Frames
    <2>4. /\ Waiting = [k \in 1 .. Queued |-> handed + k]
          /\ Waiting' = [k \in 1 .. Queued + 1 |-> handed + k]
      BY <2>1, <2>2, WaitingRun, WaitingRunAfter DEF Run
    <2>5. Waiting' = Append(Waiting, accepted + 1)
      BY <1>1, <2>4
    <2>6. (mailbox \o Waiting)' = Append(q, accepted + 1)
      BY <1>1, <2>1, <2>3, <2>5, AppendBehind
    <2>7. Len(q) < CAN_TX_FIFO_SIZE - 1 + MAILBOXES
      <3>1. Queued # CAN_TX_FIFO_SIZE - 1
        BY <2>1, QueuedRange DEF IInv
      <3> QED
        BY <1>1, <1>2, <3>1 DEF Slots, Held
    <2>8. Queue!Accept
      BY <2>1, <2>6, <2>7 DEF Queue!Accept
    <2> QED
      BY <2>8 DEF Queue!Next
  <1>6. CASE SendMessage /\ Refuse
    <2>1. /\ tx_ovfs' = tx_ovfs + 1
          /\ UNCHANGED <<tx_fifo, tx_head, tx_tail, accepted, wire, mailbox>>
          /\ Succ(tx_head) = tx_tail
      BY <1>6 DEF SendMessage, Refuse, ctrlVars
    <2>2. Waiting' = Waiting
      BY <1>3, <2>1
    <2>3. Queued = CAN_TX_FIFO_SIZE - 1
      BY <2>1, QueuedRange DEF IInv
    <2>4. Len(q) >= CAN_TX_FIFO_SIZE - 1
      BY <1>2, <2>3
    <2>5. Queue!Refuse
      BY <2>1, <2>2, <2>4 DEF Queue!Refuse
    <2> QED
      BY <2>5 DEF Queue!Next
  <1>7. CASE FlushTx
    <2>1. /\ handed' = handed + 1 /\ tx_head # tx_tail
          /\ mailbox' = Append(mailbox, tx_fifo[tx_tail])
          /\ UNCHANGED <<accepted, tx_ovfs, wire>>
      BY <1>7 DEF FlushTx
    <2>2. Queued # 0 /\ Slot(0) = tx_tail
      BY <2>1, QueuedRange DEF IInv
    <2>3. Waiting # <<>> /\ Head(Waiting) = tx_fifo[tx_tail]
      <3>1. 1 \in 1 .. Queued
        BY <1>1, <2>2
      <3>2. Waiting[1] = tx_fifo[Slot(1 - 1)]
        BY <3>1 DEF Waiting
      <3> QED
        BY <1>1, <2>2, <3>1, <3>2
    <2>4. /\ Queued' = Queued - 1
          /\ Waiting = [k \in 1 .. Queued |-> handed + k]
          /\ Waiting' = [k \in 1 .. Queued - 1 |-> handed + 1 + k]
      <3>1. Queued' = Queued - 1
        BY <1>1, <2>1, WaitingRunAfter DEF Run
      <3> QED
        BY <2>1, <3>1, WaitingRun, WaitingRunAfter DEF Run
    <2>5. Waiting' = Tail(Waiting)
      BY <1>1, <2>2, <2>4, TailOfRun
    <2>6. (mailbox \o Waiting)' = q
      BY <1>1, <2>1, <2>3, <2>5, HandOver
    <2> QED
      BY <2>1, <2>6 DEF Queue!vars
  <1>8. CASE Transmit
    <2>1. /\ mailbox # <<>> /\ mailbox' = Tail(mailbox)
          /\ wire' = Append(wire, Head(mailbox))
          /\ UNCHANGED fifoVars
      BY <1>8 DEF Transmit
    <2>2. Waiting' = Waiting
      BY <1>3, <2>1 DEF fifoVars
    <2>3. /\ Head(q) = Head(mailbox) /\ 1 <= Len(q)
          /\ (mailbox \o Waiting)' = SubSeq(q, 1 + 1, Len(q))
      BY <1>1, <2>1, <2>2, TakeHead
    <2>4. Queue!Leave(1)
      BY <2>1, <2>3 DEF Queue!Leave, fifoVars
    <2> QED
      BY <2>4 DEF Queue!Next
  <1>9. CASE BusOn \/ BusOff
    <2>1. PICK b \in {mode # "SILENT", Sending} : AbortTxRequest(b)
      BY <1>9 DEF BusOn, BusOff
    <2>2. UNCHANGED fifoVars
      BY <1>9 DEF BusOn, BusOff
    <2>3. mailbox' = <<>> /\ Waiting' = Waiting
      BY <1>3, <2>1, <2>2 DEF AbortTxRequest, fifoVars
    <2>4. CASE mailbox = <<>>
      <3>1. wire' = wire
        BY <2>1, <2>4 DEF AbortTxRequest
      <3> QED
        BY <1>4, <2>2, <2>3, <2>4, <3>1 DEF fifoVars
    <2>5. CASE mailbox # <<>>
      <3>1. /\ (mailbox \o Waiting)' = SubSeq(q, Len(mailbox) + 1, Len(q))
            /\ Len(mailbox) <= Len(q)
        BY <1>1, <2>3, DropFront
      <3>2. Head(q) = Head(mailbox)
        BY <1>1, <2>5, TakeHead
      <3>3. wire' \in {wire, Append(wire, Head(q))}
        <4>1. wire' = wire \/ wire' = Append(wire, Head(mailbox))
          BY <2>1, Zenon DEF AbortTxRequest
        <4> QED
          BY <3>2, <4>1
      <3>4. Queue!Leave(Len(mailbox))
        BY <2>2, <3>1, <3>3 DEF Queue!Leave, fifoVars
      <3>5. Len(mailbox) \in 1 .. MAILBOXES
        BY <1>1, <2>5 DEF Held
      <3> QED
        BY <3>4, <3>5 DEF Queue!Next
    <2> QED
      BY <2>4, <2>5
  <1>10. CASE \/ SetBitrate
              \/ \E on \in BOOLEAN : SetSilent(on) \/ SetLoopback(on)
    BY <1>4, <1>10 DEF SetBitrate, SetSilent, SetLoopback, Reinit, fifoVars
  <1>11. CASE UNCHANGED vars
    BY <1>4, <1>11 DEF vars, fifoVars, ctrlVars
  <1> QED
    BY <1>5, <1>6, <1>7, <1>8, <1>9, <1>10, <1>11 DEF Next, SendMessage

\* The driver implements the abstract transmit queue for every size of the
\* ring and number of mailboxes.
THEOREM DriverIsQueue == Spec => QueueSpec
  <1>1. Init => Held
    BY FifoAssumption DEF Init, Held
  <1>2. Init => Queue!Init
    <2> SUFFICES ASSUME Init PROVE Queue!Init
      OBVIOUS
    <2>1. Queued = 0
      BY FifoAssumption DEF Init, Queued
    <2>2. Waiting = <<>>
      BY <2>1 DEF Waiting
    <2> QED
      BY <2>2 DEF Init, Queue!Init
  <1> QED
    BY InitIInv, NextIInv, NextHeld, StepQueue, <1>1, <1>2, PTL
    DEF Spec, QueueSpec, Queue!Spec

------------------------------------------------------------------------------
(* What is lost *)

InRing(f) == \E k \in DOMAIN Waiting : Waiting[k] = f
InMailbox(f) == \E i \in DOMAIN mailbox : mailbox[i] = f

\* The frames in the ring are those behind the last one handed over.
LEMMA RingMembers ==
    Run => \A f \in Frames : InRing(f) <=> handed < f /\ f <= accepted
  <1> SUFFICES ASSUME Run, NEW f \in Frames
               PROVE  InRing(f) <=> handed < f /\ f <= accepted
    OBVIOUS
  <1>1. /\ Queued \in Nat /\ handed \in Nat /\ accepted = handed + Queued
        /\ DOMAIN Waiting = 1 .. Queued
        /\ \A k \in 1 .. Queued : Waiting[k] = handed + k
        /\ f \in Nat
    BY DEF Run, Frames
  <1>2. InRing(f) => handed < f /\ f <= accepted
    BY <1>1 DEF InRing
  <1>3. ASSUME handed < f, f <= accepted PROVE InRing(f)
    <2>1. f - handed \in 1 .. Queued /\ handed + (f - handed) = f
      BY <1>1, <1>3
    <2> QED
      BY <1>1, <2>1 DEF InRing
  <1> QED
    BY <1>2, <1>3

LEMMA RingMembersAfter ==
    Run' => (\A f \in Frames : InRing(f) <=> handed < f /\ f <= accepted)'
  BY RingMembers, PTL

\* Whatever a step other than a bus command does, a frame that waited still
\* waits, or has been sent.
LEMMA StepKeeps ==
    ASSUME IInv, IInv', [Next]_vars, ~BusOn, ~BusOff, NEW f \in Frames,
           Pending(f)
    PROVE  Pending(f)' \/ Sent(f)'
  <1> USE FifoAssumption
  <1>1. /\ mailbox \in Seq(Frames) /\ wire \in Seq(Frames)
        /\ accepted \in Nat /\ handed \in Nat /\ f \in Nat
    BY DEF IInv, TypeOK, Frames
  <1>2. InRing(f) <=> handed < f /\ f <= accepted
    BY WaitingRun, RingMembers
  <1>3. InRing(f)' <=> handed' < f /\ f <= accepted'
    BY WaitingRunAfter, RingMembersAfter
  <1>4. /\ Pending(f) <=> InMailbox(f) \/ InRing(f)
        /\ Pending(f)' <=> InMailbox(f)' \/ InRing(f)'
    BY Zenon DEF Pending, InMailbox, InRing
  <1>5. ASSUME mailbox' = mailbox, handed' = handed,
               accepted' = accepted \/ accepted' = accepted + 1
        PROVE  Pending(f)'
    <2>1. InMailbox(f)' <=> InMailbox(f)
      BY <1>5 DEF InMailbox
    <2>2. InRing(f) => InRing(f)'
      BY <1>1, <1>2, <1>3, <1>5
    <2> QED
      BY <1>4, <2>1, <2>2
  <1>6. CASE SendMessage
    BY <1>5, <1>6 DEF SendMessage, Accept, Refuse, ctrlVars
  <1>7. CASE FlushTx
    <2>1. /\ handed' = handed + 1 /\ accepted' = accepted
          /\ mailbox' = Append(mailbox, tx_fifo[tx_tail])
          /\ tx_head # tx_tail
      BY <1>7 DEF FlushTx
    <2>2. tx_fifo[tx_tail] = handed + 1
      <3>1. 0 \in Slots /\ 0 < Queued /\ Slot(0) = tx_tail
        BY <2>1, QueuedRange DEF IInv, Slots
      <3>2. tx_fifo[Slot(0)] = handed + 0 + 1
        BY <3>1 DEF IInv, FifoHoldsAccepted
      <3> QED
        BY <1>1, <3>1, <3>2
    <2>3. CASE InMailbox(f)
      <3>1. PICK i \in DOMAIN mailbox : mailbox[i] = f
        BY <2>3 DEF InMailbox
      <3>2. i \in DOMAIN mailbox' /\ mailbox'[i] = f
        BY <1>1, <2>1, <2>2, <3>1
      <3> QED
        BY <1>4, <3>2 DEF InMailbox
    <2>4. CASE InRing(f) /\ f = handed + 1
      <3>1. Len(mailbox) + 1 \in DOMAIN mailbox'
        BY <1>1, <2>1, <2>2
      <3>2. mailbox'[Len(mailbox) + 1] = f
        BY <1>1, <2>1, <2>2, <2>4
      <3> QED
        BY <1>4, <3>1, <3>2 DEF InMailbox
    <2>5. CASE InRing(f) /\ f # handed + 1
      <3>1. handed' < f /\ f <= accepted'
        BY <1>1, <1>2, <2>1, <2>5
      <3> QED
        BY <1>3, <1>4, <3>1
    <2> QED
      BY <1>4, <2>3, <2>4, <2>5
  <1>8. CASE Transmit
    <2>1. /\ mailbox # <<>> /\ mailbox' = Tail(mailbox)
          /\ wire' = Append(wire, Head(mailbox))
          /\ handed' = handed /\ accepted' = accepted
      BY <1>8 DEF Transmit, fifoVars
    <2>2. CASE InRing(f)
      BY <1>2, <1>3, <1>4, <2>1, <2>2
    <2>3. CASE InMailbox(f)
      <3>1. PICK i \in DOMAIN mailbox : mailbox[i] = f
        BY <2>3 DEF InMailbox
      <3>2. CASE i = 1
        <4>1. /\ Len(wire) + 1 \in DOMAIN wire'
              /\ wire'[Len(wire) + 1] = f
          BY <1>1, <2>1, <3>1, <3>2
        <4> QED
          BY <4>1 DEF Sent
      <3>3. CASE i # 1
        <4>1. i - 1 \in DOMAIN mailbox' /\ mailbox'[i - 1] = f
          BY <1>1, <2>1, <3>1, <3>3
        <4> QED
          BY <1>4, <4>1 DEF InMailbox
      <3> QED
        BY <3>2, <3>3
    <2> QED
      BY <1>4, <2>2, <2>3
  <1>9. CASE \/ SetBitrate \/ UNCHANGED vars
             \/ \E on \in BOOLEAN : SetSilent(on) \/ SetLoopback(on)
    BY <1>5, <1>9
    DEF SetBitrate, SetSilent, SetLoopback, Reinit, fifoVars, ctrlVars, vars
  <1> QED
    BY <1>6, <1>7, <1>8, <1>9 DEF Next

\* An accepted frame is lost only by a bus command, for every size of the
\* ring and number of mailboxes.
THEOREM NothingElseLoses == Spec => LostOnlyByBusCommand
  <1>1. IInv /\ IInv' /\ [Next]_vars =>
          [(\E f \in Frames : Pending(f) /\ ~Pending(f)' /\ ~Sent(f)')
             => BusOn \/ BusOff]_vars
    BY StepKeeps
  <1> QED
    BY InitIInv, NextIInv, <1>1, PTL DEF Spec, LostOnlyByBusCommand
==============================================================================
