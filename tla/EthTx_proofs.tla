----------------------------- MODULE EthTx_proofs -----------------------------
(***************************************************************************)
(* Proofs about EthTx: the transmit half of the bridge is well typed, no   *)
(* buffer is lost, forgotten or owned twice, a frame is refused only for   *)
(* cause, and frames go out as from one bounded queue.                     *)
(***************************************************************************)
EXTENDS EthTx, BufferQueues, FiniteSets, FiniteSetTheorems, TLAPS

\* The main loop holds a packet of TinyUSB.
Busy == {"find", "release", "free", "again", "copy", "submit"}

\* What the main loop relies on between its steps.
Walk ==
    /\ pc \in Busy => packet # "none"
    /\ packet # "none" => accepted < MaxFrames
    /\ pc \in {"free", "copy", "submit"} => tx # 0
    /\ pc \in {"release", "free"} => index = 1

\* The buffer the main loop is about to release is the oldest sent one, or
\* the interrupt has released it; it has not been submitted again.
Releasing ==
    pc = "free" => /\ tx \notin Range(dma)
                   /\ \/ sent # <<>> /\ Head(sent) = tx
                      \/ tx \notin Range(sent)

\* If a buffer was free as the search was restarted, it is still ahead.
FreeAhead ==
    pc = "again" /\ ~full =>
        \E b \in Bufs : index <= b /\ b \notin in_use

\* The buffers submitted hold the youngest frames accepted, in order.
InOrder ==
    /\ \A i \in 1 .. Len(dma) : data[dma[i]] = accepted - Len(dma) + i
    /\ pc = "submit" => data[tx] = accepted + 1

IInv ==
    /\ TypeOK /\ BuffersOwned
    /\ Walk /\ Releasing /\ FreeAhead /\ InOrder

------------------------------------------------------------------------------
(* Types *)

LEMMA InitIInv == Init => IInv
<1> SUFFICES ASSUME Init PROVE IInv
  OBVIOUS
<1> USE TxAssumption
<1>1. index \in Bufs
  BY DEF Init, Bufs
<1>2. Mode(Abilities) \in {"100_FULL", "100_HALF", "10_FULL", "10_HALF"}
  BY DEF Mode
<1>3. /\ mode \in {"100_FULL", "100_HALF", "10_FULL", "10_HALF"}
      /\ link_up \in BOOLEAN
  BY <1>2, Zenon DEF Init
<1>4. /\ data \in [Bufs -> 0..MaxFrames] /\ accepted \in 0..MaxFrames
      /\ plugs \in 0..MaxPlugs /\ wire \in Seq(0..MaxFrames)
      /\ dma \in Seq(Bufs) /\ sent \in Seq(Bufs)
  BY DEF Init
<1>5. TypeOK
  BY <1>1, <1>3, <1>4 DEF Init, TypeOK
<1>6. BuffersOwned
  BY EmptyRange DEF Init, BuffersOwned, Filling
<1> QED
  BY <1>5, <1>6 DEF Init, IInv, Walk, Releasing, FreeAhead, InOrder, Busy

LEMMA NextType == IInv /\ [Next]_vars => TypeOK'
<1> SUFFICES ASSUME IInv, [Next]_vars PROVE TypeOK'
  OBVIOUS
<1> USE TxAssumption DEF halVars, txVars, linkVars, cableVars
<1>0. TypeOK /\ Walk
  BY DEF IInv
<1>1. ASSUME NEW p \in {"good", "bad"}, HostPacket(p) PROVE TypeOK'
  BY <1>0, <1>1 DEF HostPacket, TypeOK
<1>2. CASE Send
  <2>1. Head(dma) \in Bufs /\ dma' \in Seq(Bufs)
    BY <1>0, <1>2, HeadIn DEF Send, TypeOK
  <2>2. sent' \in Seq(Bufs) /\ wire' \in Seq(0..MaxFrames)
    BY <1>0, <1>2, <2>1 DEF Send, TypeOK
  <2> QED
    BY <1>0, <1>2, <2>1, <2>2, SMTT(30) DEF Send, TypeOK
<1>3. ASSUME NEW event, Interrupt(event) PROVE TypeOK'
  <2>1. started' \in BOOLEAN
    BY <1>3, Zenon DEF Interrupt
  <2>2. irq' = FALSE /\ sent' = <<>> /\ in_use' \subseteq in_use
    BY <1>3, Zenon DEF Interrupt
  <2>3. /\ UNCHANGED <<dma, wire, data, index, tx, packet, accepted, full>>
        /\ UNCHANGED <<pc, linkVars, cableVars>>
    BY <1>3 DEF Interrupt
  <2>4. irq' \in BOOLEAN /\ sent' \in Seq(Bufs) /\ in_use' \subseteq Bufs
    <3>1. irq' \in BOOLEAN
      BY <2>2
    <3>2. sent' \in Seq(Bufs)
      BY <2>2
    <3>3. in_use' \subseteq Bufs
      BY <1>0, <2>2 DEF TypeOK
    <3> QED
      BY <3>1, <3>2, <3>3
  <2> QED
    BY <1>0, <2>1, <2>3, <2>4 DEF TypeOK
<1>4. CASE Plug
  <2>1. cable' \in BOOLEAN
    BY <1>4, Zenon DEF Plug
  <2> QED
    BY <1>0, <1>4, <2>1 DEF Plug, TypeOK
<1>5. CASE Offer
  <2>1. index' \in Bufs
    BY <1>0, <1>5 DEF Offer, TypeOK, Bufs
  <2> QED
    BY <1>0, <1>5, <2>1 DEF Offer, TypeOK
<1>6. ASSUME NEW at, NEW next \in {"release", "task"}, Search(at, next)
      PROVE  TypeOK'
  <2>1. index' \in Bufs
    BY <1>0, <1>6 DEF Search, LastBuf, TypeOK, Bufs
  <2> QED
    BY <1>0, <1>6, <2>1 DEF Search, TypeOK
<1>7. CASE Release
  <2>1. full' \in BOOLEAN
    <3>1. full \in BOOLEAN
      BY <1>0 DEF TypeOK
    <3> QED
      BY <1>7, <3>1, Zenon DEF Release
  <2>2. tx' \in Bufs \cup {0}
    BY <1>0, <1>7, HeadIn DEF Release, TypeOK
  <2> QED
    BY <1>0, <1>7, <2>1, <2>2 DEF Release, TypeOK
<1>8. CASE Free
  <2>1. sent' \in Seq(Bufs)
    BY <1>0, <1>8, HeadIn DEF Free, TypeOK
  <2> QED
    BY <1>0, <1>8, <2>1 DEF Free, TypeOK
<1>9. CASE Copy
  <2>1. accepted + 1 \in 0..MaxFrames
    BY <1>0, <1>9 DEF Copy, Walk, Busy, TypeOK
  <2> QED
    BY <1>0, <1>9, <2>1, ZenonT(40) DEF Copy, TypeOK
<1>10. CASE Submit
  <2>1. accepted + 1 \in 0..MaxFrames /\ tx \in Bufs
    BY <1>0, <1>10 DEF Submit, Walk, Busy, TypeOK
  <2>2. /\ dma' = dma \/ dma' = Append(dma, tx)
        /\ accepted' = accepted \/ accepted' = accepted + 1
        /\ in_use' = in_use \/ in_use' = in_use \ {tx}
        /\ packet' = packet \/ packet' = "none"
    BY <1>10, Zenon DEF Submit, SubmitRefused
  <2>3. /\ dma' \in Seq(Bufs) /\ accepted' \in 0..MaxFrames
        /\ in_use' \subseteq Bufs /\ packet' \in {"none", "good", "bad"}
    <3>1. dma' \in Seq(Bufs)
      <4>1. dma \in Seq(Bufs)
        BY <1>0 DEF TypeOK
      <4>2. Append(dma, tx) \in Seq(Bufs)
        BY <2>1, <4>1, AppendType
      <4> QED
        BY <2>2, <4>1, <4>2
    <3>2. accepted' \in 0..MaxFrames
      BY <1>0, <2>1, <2>2 DEF TypeOK
    <3>3. in_use' \subseteq Bufs
      BY <1>0, <2>2 DEF TypeOK
    <3>4. packet' \in {"none", "good", "bad"}
      BY <1>0, <2>2 DEF TypeOK
    <3> QED
      BY <3>1, <3>2, <3>3, <3>4
  <2>4. /\ tx' = 0 /\ pc' = "task"
        /\ UNCHANGED <<sent, irq, started, wire, data, index, full>>
        /\ UNCHANGED <<linkVars, cableVars>>
    BY <1>10 DEF Submit
  <2> QED
    BY <1>0, <2>3, <2>4 DEF TypeOK
<1>11. CASE GiveUp
  BY <1>0, <1>11 DEF GiveUp, TypeOK
<1>12. CASE TaskDone \/ PollIdle
  BY <1>0, <1>12 DEF TaskDone, PollIdle, TypeOK
<1>13. CASE PollLink
  <2>1. mode' \in {"100_FULL", "100_HALF", "10_FULL", "10_HALF"}
    <3>1. mode \in {"100_FULL", "100_HALF", "10_FULL", "10_HALF"}
      BY <1>0 DEF TypeOK
    <3>2. Mode(Abilities) \in {"100_FULL", "100_HALF", "10_FULL", "10_HALF"}
      BY DEF Mode
    <3> QED
      BY <1>13, <3>1, <3>2, Zenon DEF PollLink, UpdateLink
  <2> QED
    BY <1>0, <1>13, <2>1 DEF PollLink, UpdateLink, TypeOK
<1>14. CASE TellHost
  BY <1>0, <1>14 DEF TellHost, TypeOK
<1>15. CASE UNCHANGED vars
  BY <1>0, <1>15 DEF vars, TypeOK
<1> QED
  BY <1>1, <1>2, <1>3, <1>4, <1>5, <1>6, <1>7, <1>8, <1>9, <1>10, <1>11,
     <1>12, <1>13, <1>14, <1>15
  DEF Next, Wire, Transmit, Loop, Find, FindAgain

------------------------------------------------------------------------------
(* The walk of the main loop *)

LEMMA NextWalk == IInv /\ [Next]_vars => Walk'
<1> SUFFICES ASSUME IInv, [Next]_vars PROVE Walk'
  OBVIOUS
<1> USE TxAssumption DEF halVars, txVars, linkVars, cableVars
<1>0. TypeOK /\ Walk
  BY DEF IInv
<1>1. ASSUME NEW p \in {"good", "bad"}, HostPacket(p) PROVE Walk'
  BY <1>0, <1>1 DEF HostPacket, Walk, TypeOK
<1>2. CASE Send \/ Plug \/ \E event \in {"sent", "error", "fatal"} : Interrupt(event)
  BY <1>0, <1>2 DEF Send, Plug, Interrupt, Walk
<1>3. CASE Offer
  BY <1>0, <1>3 DEF Offer, Walk, Busy
<1>4. ASSUME NEW at \in {"find", "again"}, NEW next \in {"release", "task"},
             Search(at, next)
      PROVE  Walk'
  BY <1>0, <1>4 DEF Search, Walk, Busy, TypeOK, Bufs
<1>5. CASE Release
  <2>1. sent # <<>> => Head(sent) \in Bufs
    BY <1>0, HeadIn DEF TypeOK
  <2> QED
    BY <1>0, <1>5, <2>1 DEF Release, Walk, Busy, Bufs
<1>6. CASE Free
  BY <1>0, <1>6 DEF Free, Walk, Busy
<1>7. CASE Copy
  BY <1>0, <1>7 DEF Copy, Walk, Busy
<1>8. CASE Submit
  BY <1>0, <1>8 DEF Submit, Walk, Busy
<1>9. CASE GiveUp \/ Loop
  BY <1>0, <1>9 DEF GiveUp, Loop, TaskDone, PollIdle, PollLink, TellHost, Walk, Busy
<1>10. CASE UNCHANGED vars
  BY <1>0, <1>10 DEF vars, Walk
<1> QED
  BY <1>1, <1>2, <1>3, <1>4, <1>5, <1>6, <1>7, <1>8, <1>9, <1>10
  DEF Next, Wire, Transmit, Find, FindAgain, Busy

------------------------------------------------------------------------------
(* The owners of the buffers *)

LEMMA OwnedUnchanged ==
    ASSUME BuffersOwned, Releasing, UNCHANGED <<in_use, dma, sent, tx, pc>>
    PROVE  BuffersOwned' /\ Releasing'
BY DEF BuffersOwned, Releasing, Filling

LEMMA NextOwned == IInv /\ [Next]_vars => BuffersOwned' /\ Releasing'
<1> SUFFICES ASSUME IInv, [Next]_vars PROVE BuffersOwned' /\ Releasing'
  OBVIOUS
<1> USE TxAssumption DEF halVars, txVars, linkVars, cableVars
<1>0. TypeOK /\ Walk /\ BuffersOwned /\ Releasing
  BY DEF IInv
<1>1. CASE \/ \E p \in {"good", "bad"} : HostPacket(p)
           \/ Plug \/ GiveUp \/ UNCHANGED vars
  BY <1>0, <1>1, OwnedUnchanged DEF HostPacket, Plug, GiveUp, vars
<1>2. CASE Send
  <2>1. /\ dma \in Seq(Bufs) /\ sent \in Seq(Bufs) /\ dma # <<>>
        /\ Head(dma) \in Bufs
    BY <1>0, <1>2, HeadIn DEF Send, TypeOK
  <2>2. /\ Head(dma) \in Range(dma)
        /\ Range(dma') = Range(dma) \ {Head(dma)}
        /\ IsInjective(dma')
    BY <1>0, <1>2, <2>1, TailRange DEF Send, BuffersOwned
  <2>3. /\ Range(sent') = Range(sent) \cup {Head(dma)}
        /\ IsInjective(sent')
    BY <1>0, <1>2, <2>1, <2>2, AppendRange DEF Send, BuffersOwned
  <2>4. BuffersOwned'
    BY <1>0, <1>2, <2>2, <2>3 DEF Send, BuffersOwned, Filling
  <2>5. /\ sent # <<>> => Head(sent') = Head(sent)
        /\ sent' # <<>>
    BY <1>2, <2>1 DEF Send
  <2>6. Releasing'
    BY <1>0, <1>2, <2>2, <2>3, <2>5 DEF Send, Releasing
  <2> QED
    BY <2>4, <2>6
<1>3. ASSUME NEW event, Interrupt(event) PROVE BuffersOwned' /\ Releasing'
  <2>1. Range(sent') = {} /\ IsInjective(sent')
    BY <1>3, EmptyRange DEF Interrupt
  <2> QED
    BY <1>0, <1>3, <2>1 DEF Interrupt, Freed, BuffersOwned, Filling, Releasing
<1>4. CASE Offer
  BY <1>0, <1>4 DEF Offer, BuffersOwned, Filling, Releasing
<1>5. ASSUME NEW at \in {"find", "again"}, NEW next \in {"release", "task"},
             Search(at, next)
      PROVE  BuffersOwned' /\ Releasing'
  BY <1>0, <1>5 DEF Search, Taken, BuffersOwned, Filling, Releasing
<1>6. CASE Release
  <2>1. sent # <<>> => Head(sent) \in Range(sent)
    BY <1>0, TailRange DEF TypeOK, BuffersOwned
  <2> QED
    BY <1>0, <1>6, <2>1 DEF Release, BuffersOwned, Filling, Releasing
<1>7. CASE Free
  <2>1. CASE sent # <<>> /\ Head(sent) = tx
    <3>1. Range(sent') = Range(sent) \ {tx} /\ IsInjective(sent')
      BY <1>0, <1>7, <2>1, TailRange DEF Free, TypeOK, BuffersOwned
    <3> QED
      BY <1>0, <1>7, <3>1 DEF Free, BuffersOwned, Filling, Releasing
  <2>2. CASE ~(sent # <<>> /\ Head(sent) = tx)
    <3>1. tx \notin in_use /\ sent' = sent
      BY <1>0, <1>7, <2>2 DEF Free, BuffersOwned, Filling, Releasing
    <3> QED
      BY <1>0, <1>7, <3>1 DEF Free, BuffersOwned, Filling, Releasing
  <2> QED
    BY <2>1, <2>2
<1>8. CASE Copy
  BY <1>0, <1>8 DEF Copy, BuffersOwned, Filling, Releasing
<1>9. CASE Submit
  <2>1. dma \in Seq(Bufs) /\ tx \in Bufs /\ tx \notin Range(dma)
    BY <1>0, <1>9 DEF Submit, TypeOK, Walk, BuffersOwned, Filling
  <2>2. /\ Range(Append(dma, tx)) = Range(dma) \cup {tx}
        /\ IsInjective(Append(dma, tx))
    BY <1>0, <2>1, AppendRange DEF BuffersOwned
  <2> QED
    BY <1>0, <1>9, <2>2
    DEF Submit, SubmitRefused, BuffersOwned, Filling, Releasing
<1>10. CASE Loop
  BY <1>0, <1>10
  DEF Loop, TaskDone, PollIdle, PollLink, TellHost, BuffersOwned, Filling, Releasing
<1> QED
  BY <1>1, <1>2, <1>3, <1>4, <1>5, <1>6, <1>7, <1>8, <1>9, <1>10
  DEF Next, Wire, Transmit, Find, FindAgain
------------------------------------------------------------------------------
(* The search for a free buffer *)

LEMMA NextFreeAhead == IInv /\ [Next]_vars => FreeAhead'
<1> SUFFICES ASSUME IInv, [Next]_vars PROVE FreeAhead'
  OBVIOUS
<1> USE TxAssumption DEF halVars, txVars, linkVars, cableVars
<1>0. in_use \subseteq Bufs /\ index \in Bufs /\ Walk /\ FreeAhead
  BY DEF IInv, TypeOK
<1>1. CASE \/ \E p \in {"good", "bad"} : HostPacket(p)
           \/ Send \/ Plug \/ GiveUp \/ UNCHANGED vars
  BY <1>0, <1>1 DEF HostPacket, Send, Plug, GiveUp, vars, FreeAhead
<1>2. ASSUME NEW event, Interrupt(event) PROVE FreeAhead'
  <2>1. UNCHANGED <<pc, index, full>> /\ in_use' \subseteq in_use
    BY <1>2, Zenon DEF Interrupt
  <2> QED
    BY <1>0, <2>1 DEF FreeAhead
<1>3. CASE Offer \/ Free \/ Copy \/ Submit \/ Loop
  <2>1. pc' # "again"
    BY <1>3
    DEF Offer, Free, Copy, Submit, Loop, TaskDone, PollIdle, PollLink, TellHost
  <2> QED
    BY <2>1 DEF FreeAhead
<1>4. CASE Find
  <2>1. pc' # "again"
    BY <1>4 DEF Find, Search
  <2> QED
    BY <2>1 DEF FreeAhead
<1>5. CASE FindAgain
  <2>1. CASE pc' = "again"
    <3>1. /\ pc = "again" /\ index \in in_use /\ index' = index + 1
          /\ UNCHANGED <<in_use, full>>
      BY <1>5, <2>1 DEF FindAgain, Search, Taken
    <3> QED
      BY <1>0, <3>1 DEF FreeAhead, Bufs
  <2>2. CASE pc' # "again"
    BY <2>2 DEF FreeAhead
  <2> QED
    BY <2>1, <2>2
<1>6. CASE Release
  <2>1. CASE pc' = "again"
    <3>1. index' = 1 /\ in_use' = in_use /\ (full' <=> in_use = Bufs)
      BY <1>0, <1>6, <2>1, Zenon DEF Release, Walk
    <3>2. ~full' => \E b \in Bufs : b \notin in_use
      BY <1>0, <3>1
    <3>3. \A b \in Bufs : 1 <= b
      BY DEF Bufs
    <3> QED
      BY <3>1, <3>2, <3>3 DEF FreeAhead
  <2>2. CASE pc' # "again"
    BY <2>2 DEF FreeAhead
  <2> QED
    BY <2>1, <2>2
<1> QED
  BY <1>1, <1>2, <1>3, <1>4, <1>5, <1>6 DEF Next, Wire, Transmit

------------------------------------------------------------------------------
(* The frames in the buffers *)

LEMMA InOrderUnchanged ==
    ASSUME InOrder, UNCHANGED <<dma, data, accepted>>,
           pc' = "submit" => pc = "submit" /\ tx' = tx
    PROVE  InOrder'
BY DEF InOrder

LEMMA NextInOrder == IInv /\ [Next]_vars => InOrder'
<1> SUFFICES ASSUME IInv, [Next]_vars PROVE InOrder'
  OBVIOUS
<1> USE TxAssumption DEF halVars, txVars, linkVars, cableVars
<1>0. /\ dma \in Seq(Bufs) /\ data \in [Bufs -> 0..MaxFrames]
      /\ accepted \in Nat /\ Len(dma) \in Nat
      /\ tx \in Bufs \cup {0}
      /\ Walk /\ InOrder /\ BuffersOwned
  BY DEF IInv, TypeOK
<1>1. CASE \/ \E p \in {"good", "bad"} : HostPacket(p)
           \/ Plug \/ GiveUp \/ Offer \/ Loop \/ Free \/ Release
           \/ UNCHANGED vars
           \/ \E event \in {"sent", "error", "fatal"} : Interrupt(event)
  <2>1. /\ UNCHANGED <<dma, data, accepted>>
        /\ pc' = "submit" => pc = "submit" /\ tx' = tx
    BY <1>1
    DEF HostPacket, Plug, GiveUp, Offer, Loop, TaskDone, PollIdle, PollLink,
        TellHost, Free, Release, Interrupt, vars
  <2> QED
    BY <1>0, <2>1, InOrderUnchanged
<1>2. CASE Find \/ FindAgain
  <2>1. /\ UNCHANGED <<dma, data, accepted>>
        /\ pc' # "submit"
    BY <1>2 DEF Find, FindAgain, Search
  <2> QED
    BY <1>0, <2>1, InOrderUnchanged
<1>3. CASE Send
  <2>1. /\ dma # <<>> /\ dma' = Tail(dma)
        /\ UNCHANGED <<data, accepted, pc, tx>>
    BY <1>3 DEF Send
  <2>2. /\ Len(dma') = Len(dma) - 1
        /\ \A i \in 1 .. Len(dma') : /\ i + 1 \in 1 .. Len(dma)
                                     /\ dma'[i] = dma[i + 1]
    BY <1>0, <2>1
  <2> QED
    BY <1>0, <2>1, <2>2 DEF InOrder
<1>4. CASE Copy
  <2>1. /\ data' = [data EXCEPT ![tx] = accepted + 1]
        /\ UNCHANGED <<dma, accepted, tx>> /\ tx \in Bufs
    BY <1>0, <1>4 DEF Copy, Walk
  <2>2. \A i \in 1 .. Len(dma) : dma[i] # tx /\ dma[i] \in Bufs
    BY <1>0, <1>4 DEF Copy, BuffersOwned, Filling, Range
  <2> QED
    BY <1>0, <2>1, <2>2 DEF InOrder
<1>5. CASE Submit
  <2>1. /\ pc' # "submit" /\ pc = "submit" /\ data' = data /\ tx \in Bufs
        /\ \/ UNCHANGED <<dma, accepted>>
           \/ dma' = Append(dma, tx) /\ accepted' = accepted + 1
    BY <1>0, <1>5 DEF Submit, Walk
  <2>2. CASE UNCHANGED <<dma, accepted>>
    BY <1>0, <2>1, <2>2, InOrderUnchanged
  <2>3. CASE dma' = Append(dma, tx) /\ accepted' = accepted + 1
    <3>1. /\ Len(dma') = Len(dma) + 1
          /\ dma'[Len(dma) + 1] = tx
          /\ \A i \in 1 .. Len(dma) : dma'[i] = dma[i]
      BY <1>0, <2>1, <2>3
    <3>2. ASSUME NEW i \in 1 .. Len(dma')
          PROVE  data'[dma'[i]] = accepted' - Len(dma') + i
      <4>1. CASE i \in 1 .. Len(dma)
        BY <1>0, <2>1, <2>3, <3>1, <4>1 DEF InOrder
      <4>2. CASE i = Len(dma) + 1
        BY <1>0, <2>1, <2>3, <3>1, <4>2 DEF InOrder
      <4> QED
        BY <1>0, <3>1, <4>1, <4>2
    <3> QED
      BY <2>1, <3>2 DEF InOrder
  <2> QED
    BY <2>1, <2>2, <2>3
<1> QED
  BY <1>1, <1>2, <1>3, <1>4, <1>5 DEF Next, Wire, Transmit

LEMMA NextIInv == IInv /\ [Next]_vars => IInv'
BY NextType, NextWalk, NextOwned, NextFreeAhead, NextInOrder DEF IInv

------------------------------------------------------------------------------
(* Theorems *)

\* Every reachable state of the transmit half is well typed, whatever the
\* number of buffers and descriptors.
THEOREM TypeCorrect == Spec => []TypeOK
<1>1. IInv => TypeOK
  BY DEF IInv
<1> QED
  BY InitIInv, NextIInv, <1>1, PTL DEF Spec

\* No buffer of tx_queue leaks or has two owners, although the main loop and
\* the interrupt release buffers at the same time.
THEOREM EveryBufferOwned == Spec => []BuffersOwned
<1>1. IInv => BuffersOwned
  BY DEF IInv
<1> QED
  BY InitIInv, NextIInv, <1>1, PTL DEF Spec

LEMMA NextRefused ==
    IInv /\ [Next]_vars => [pc = "again" /\ pc' = "task" => full]_vars
<1> SUFFICES ASSUME IInv, [Next]_vars, pc = "again", pc' = "task" PROVE full
  OBVIOUS
<1> USE DEF halVars, txVars, linkVars, cableVars
<1>1. index \in Bufs /\ FreeAhead
  BY DEF IInv, TypeOK
<1>2. CASE FindAgain
  <2>1. index \in in_use /\ ~(index < ETH_TX_QUEUE_SIZE)
    BY <1>2 DEF FindAgain, Search, Taken, LastBuf
  <2>2. \A b \in Bufs : index <= b => b = index
    BY <1>1, <2>1, TxAssumption DEF Bufs
  <2> QED
    BY <1>1, <2>1, <2>2 DEF FreeAhead
<1>3. CASE ~FindAgain
  BY <1>3
  DEF Next, HostPacket, Wire, Send, Interrupt, Plug, Transmit, GiveUp, Loop,
      Offer, Find, Search, Release, Free, Copy, Submit, TaskDone, PollIdle,
      PollLink, TellHost, vars
<1> QED
  BY <1>2, <1>3

\* The search gives up only if all buffers were in use as it was restarted.
THEOREM RefusedOnlyWhenFull == Spec => RefusedForCause
BY InitIInv, NextIInv, NextRefused, PTL DEF Spec, RefusedForCause
------------------------------------------------------------------------------
(* No buffer is forgotten *)

\* A frame that was sent and whose buffer is not yet free has its interrupt
\* pending.
Announced == sent # <<>> => irq

\* A buffer in use is being filled, or the DMA still has its frame to send,
\* or the interrupt that frees it is pending: none waits for the next packet
\* to be freed (eth_bridge.c:151-174).
BuffersComeBack ==
    \A b \in in_use \ Filling :
        b \in Range(dma) \/ (b \in Range(sent) /\ irq)

LEMMA NextAnnounced == IInv /\ Announced /\ [Next]_vars => Announced'
<1> SUFFICES ASSUME IInv, Announced, [Next]_vars PROVE Announced'
  OBVIOUS
<1> USE DEF halVars, txVars, linkVars, cableVars
<1>1. CASE Send
  BY <1>1 DEF Send, Announced
<1>2. ASSUME NEW event, Interrupt(event) PROVE Announced'
  BY <1>2 DEF Interrupt, Announced
<1>3. CASE Free
  <2>1. irq' = irq /\ (sent' # <<>> => sent # <<>>)
    BY <1>3 DEF Free
  <2> QED
    BY <2>1 DEF Announced
<1>4. CASE \/ \E p \in {"good", "bad"} : HostPacket(p)
           \/ Plug \/ GiveUp \/ Loop \/ UNCHANGED vars
           \/ Offer \/ Find \/ Release \/ FindAgain \/ Copy \/ Submit
  <2>1. UNCHANGED <<sent, irq>>
    BY <1>4
    DEF HostPacket, Plug, GiveUp, Loop, TaskDone, PollIdle, PollLink, TellHost,
        vars, Offer, Find, FindAgain, Search, Release, Copy, Submit
  <2> QED
    BY <2>1 DEF Announced
<1> QED
  BY <1>1, <1>2, <1>3, <1>4 DEF Next, Wire, Transmit

\* Every buffer in use is on its way back without the main loop: what makes
\* full buffers empty again (the safety half of FrameAccepted).
THEOREM BuffersReturn == Spec => []BuffersComeBack
<1>1. Init => Announced
  BY DEF Init, Announced
<1>2. IInv /\ Announced => BuffersComeBack
  <2> SUFFICES ASSUME IInv, Announced, NEW b \in in_use \ Filling
               PROVE  b \in Range(dma) \/ (b \in Range(sent) /\ irq)
    BY DEF BuffersComeBack
  <2>1. b \in Range(dma) \/ b \in Range(sent)
    BY DEF IInv, BuffersOwned
  <2>2. b \in Range(sent) => sent # <<>>
    BY EmptyRange
  <2> QED
    BY <2>1, <2>2 DEF Announced
<1> QED
  BY InitIInv, NextIInv, NextAnnounced, <1>1, <1>2, PTL DEF Spec

------------------------------------------------------------------------------
(* The queue *)

\* What is submitted and unsent, as the abstract queue has it.
Pending == [i \in 1 .. Len(dma) |-> accepted - Len(dma) + i]

\* As the buffers are all different, there are no more than there are.
LEMMA RoomLeft ==
    ASSUME IInv, pc = "submit" PROVE Len(dma) + 1 <= ETH_TX_QUEUE_SIZE
<1> USE TxAssumption
<1> DEFINE n == Len(dma)
           f == [i \in 1 .. n + 1 |-> IF i <= n THEN dma[i] ELSE tx]
<1>1. /\ dma \in Seq(Bufs) /\ n \in Nat /\ tx \in Bufs
      /\ tx \notin Range(dma) /\ IsInjective(dma)
  BY DEF IInv, TypeOK, Walk, BuffersOwned, Filling
<1>2. \A i \in 1 .. n : dma[i] \in Bufs /\ dma[i] # tx
  BY <1>1 DEF Range
<1>3. f \in [1 .. n + 1 -> Bufs]
  BY <1>1, <1>2
<1>4. \A i, j \in 1 .. n + 1 : f[i] = f[j] => i = j
  BY <1>1, <1>2 DEF IsInjective
<1>5. f \in Injection(1 .. n + 1, Bufs)
  BY <1>3, <1>4 DEF Injection, IsInjective
<1>6. IsFiniteSet(Bufs) /\ Cardinality(Bufs) = ETH_TX_QUEUE_SIZE
  BY FS_Interval DEF Bufs
<1>7. Cardinality(1 .. n + 1) = n + 1
  BY <1>1, FS_Interval
<1>8. Cardinality(1 .. n + 1) <= Cardinality(Bufs)
  BY <1>5, <1>6, FS_Injection, Zenon
<1> QED
  BY <1>6, <1>7, <1>8

LEMMA CountFrom ==
    ASSUME NEW n \in Nat, n >= 1, NEW a \in Int
    PROVE  LET s == [i \in 1 .. n |-> a + i]
           IN  /\ Len(s) = n /\ Head(s) = a + 1
               /\ SubSeq(s, 2, Len(s)) = [i \in 1 .. n - 1 |-> a + 1 + i]
<1> DEFINE s == [i \in 1 .. n |-> a + i]
           t == SubSeq(s, 2, n)
<1>1. s \in Seq(Int) /\ Len(s) = n /\ Head(s) = a + 1
  OBVIOUS
<1>2. \A i \in 1 .. n : s[i] = a + i
  OBVIOUS
<1> HIDE DEF s
<1>3. /\ t \in Seq(Int) /\ Len(t) = n - 1
      /\ \A i \in 1 .. n - 1 : t[i] = s[i + 1]
  BY <1>1
<1>4. \A i \in 1 .. n - 1 : t[i] = a + 1 + i
  BY <1>2, <1>3
<1>5. t = [i \in 1 .. n - 1 |-> t[i]]
  BY <1>3
<1>6. t = [i \in 1 .. n - 1 |-> a + 1 + i]
  BY <1>4, <1>5
<1> QED
  BY <1>1, <1>6 DEF s

LEMMA StepQueue == IInv /\ IInv' /\ [Next]_vars => [Queue!Next]_(Queue!vars)
<1> SUFFICES ASSUME IInv, IInv', [Next]_vars PROVE [Queue!Next]_(Queue!vars)
  OBVIOUS
<1> USE TxAssumption DEF halVars, txVars, linkVars, cableVars
<1>0. /\ dma \in Seq(Bufs) /\ Len(dma) \in Nat /\ accepted \in Nat
      /\ InOrder
  BY DEF IInv, TypeOK
<1>1. Queue!vars = <<accepted, 0, Pending, wire>>
  BY DEF Queue!vars, Pending
<1>2. ASSUME UNCHANGED <<dma, accepted, wire>> PROVE UNCHANGED Queue!vars
  BY <1>2 DEF Queue!vars
<1>3. CASE Send
  <2>1. /\ dma # <<>> /\ dma' = Tail(dma) /\ accepted' = accepted
        /\ wire' = Append(wire, data[Head(dma)])
    BY <1>3 DEF Send
  <2>2. Len(dma') = Len(dma) - 1 /\ Head(dma) = dma[1] /\ Len(dma) >= 1
    BY <1>0, <2>1
  <2> DEFINE a == accepted - Len(dma)
  <2>3. Pending' = [i \in 1 .. Len(dma) - 1 |-> a + 1 + i]
    BY <1>0, <2>1, <2>2 DEF Pending
  <2>4. /\ SubSeq(Pending, 2, Len(Pending)) = Pending'
        /\ Head(Pending) = a + 1 /\ Len(Pending) = Len(dma)
    <3>1. a \in Int /\ Pending = [i \in 1 .. Len(dma) |-> a + i]
      BY <1>0 DEF Pending
    <3> HIDE DEF a
    <3> QED
      BY <1>0, <2>2, <2>3, <3>1, CountFrom
  <2>5. Head(Pending) = data[Head(dma)] /\ 1 <= Len(Pending)
    BY <1>0, <2>2, <2>4 DEF InOrder
  <2>6. Queue!Leave(1)
    <3>1. /\ Pending' = SubSeq(Pending, 1 + 1, Len(Pending))
          /\ wire' \in {wire, Append(wire, Head(Pending))}
          /\ UNCHANGED <<accepted, 0>>
      BY <2>1, <2>4, <2>5
    <3> QED
      BY <2>5, <3>1, Zenon DEF Queue!Leave, Pending
  <2> QED
    BY <2>6 DEF Queue!Next
<1>4. CASE Submit
  <2>1. CASE started /\ Len(dma) + Len(sent) < ETH_TX_DESC_CNT
    <3>1. /\ dma' = Append(dma, tx) /\ accepted' = accepted + 1
          /\ wire' = wire /\ tx \in Bufs
      BY <1>4, <2>1 DEF Submit, IInv, TypeOK, Walk
    <3>2. Len(dma') = Len(dma) + 1
      BY <1>0, <3>1
    <3>3. Pending' = [i \in 1 .. Len(dma) + 1 |-> accepted - Len(dma) + i]
      BY <1>0, <3>1, <3>2 DEF Pending
    <3>4. Pending' = Append(Pending, accepted + 1)
      BY <1>0, <3>3, SMTT(30) DEF Pending
    <3>5. Len(Pending) < ETH_TX_QUEUE_SIZE - 1 + 1
      BY <1>0, <1>4, RoomLeft DEF Submit, Pending
    <3>6. Queue!Accept
      BY <3>1, <3>4, <3>5 DEF Queue!Accept, Pending
    <3> QED
      BY <3>6 DEF Queue!Next
  <2>2. CASE ~(started /\ Len(dma) + Len(sent) < ETH_TX_DESC_CNT)
    BY <1>2, <1>4, <2>2 DEF Submit
  <2> QED
    BY <2>1, <2>2
<1>5. CASE \/ \E p \in {"good", "bad"} : HostPacket(p)
           \/ \E event \in {"sent", "error", "fatal"} : Interrupt(event)
           \/ Plug \/ GiveUp \/ Loop \/ UNCHANGED vars
           \/ Offer \/ Find \/ Release \/ Free \/ FindAgain \/ Copy
  <2>1. UNCHANGED <<dma, accepted, wire>>
    BY <1>5
    DEF HostPacket, Interrupt, Plug, GiveUp, Loop, TaskDone, PollIdle, PollLink,
        TellHost, vars, Offer, Find, FindAgain, Search, Release, Free, Copy
  <2> QED
    BY <1>2, <2>1
<1> QED
  BY <1>3, <1>4, <1>5 DEF Next, Wire, Transmit

\* Host to wire, the bridge implements one bounded queue.
THEOREM TransmitsAsQueue == Spec => QueueSpec
<1>1. Init => Queue!Init
  BY DEF Init, Queue!Init
<1>2. Spec => []IInv
  BY InitIInv, NextIInv, PTL DEF Spec
<1> QED
  BY <1>1, <1>2, StepQueue, PTL DEF Spec, QueueSpec, Queue!Spec
==============================================================================
