--------------------------- MODULE PcanUsb_proofs ---------------------------
(***************************************************************************)
(* The safety properties of the IN endpoints, for any number of transfers  *)
(* and of lost configurations.                                             *)
(*                                                                         *)
(* The inductive invariant ties the flags of the code to the transfer in   *)
(* the controller: in state 0 nothing was ever sent; a transfer, or a      *)
(* completion, that no vendor request cut off has the endpoint in use, and *)
(* there is only one of the two.  It holds also across bus resets, where   *)
(* the flags stay and the transfer goes.                                   *)
(***************************************************************************)
EXTENDS PcanUsb, TLAPS

\* State 0 of the pump is left by the first transfer and not seen again.
Fresh ==
    fsm = 0 => /\ ~ep_tx_in_use["MSGIN"]
               /\ inflight["MSGIN"] = 0
               /\ ~done["MSGIN"]

\* The flag stands for the transfer, unless a vendor request cleared it.
InUse ==
    ~cut => /\ inflight["MSGIN"] # 0 => ep_tx_in_use["MSGIN"]
            /\ done["MSGIN"] => ep_tx_in_use["MSGIN"] /\ inflight["MSGIN"] = 0

IInv == TypeOK /\ Fresh /\ InUse /\ StuckOnlyAfterReset

LEMMA InitIInv == Init => IInv
  <1> SUFFICES ASSUME Init PROVE IInv
    OBVIOUS
  <1>1. TypeOK
    <2>1. 0 \in 0..MaxTransfers /\ 0 \in 0..MaxResets
      BY UsbAssumption
    <2>2. received \in [EpIn -> Seq(1..MaxTransfers)]
      BY DEF Init
    <2> QED
      BY <2>1, <2>2 DEF Init, TypeOK
  <1>2. Fresh /\ InUse
    BY DEF Init, Fresh, InUse, EpIn
  <1>3. StuckOnlyAfterReset
    BY DEF Init, StuckOnlyAfterReset, Stuck, Busy, EpIn
  <1> QED
    BY <1>1, <1>2, <1>3 DEF IInv

\* A started transfer is numbered and is the one in flight.
LEMMA TransmitType ==
    ASSUME TypeOK, NEW ep \in EpIn, Transmit(ep)
    PROVE  /\ inflight' \in [EpIn -> 0..MaxTransfers]
           /\ started' \in [EpIn -> 0..MaxTransfers]
           /\ inflight'[ep] # 0
           /\ \A e \in EpIn : e # ep => inflight'[e] = inflight[e]
           /\ done' = done /\ received' = received
  <1>1. started[ep] + 1 \in 1..MaxTransfers
    BY UsbAssumption DEF TypeOK, Transmit
  <1> QED
    BY <1>1 DEF TypeOK, Transmit

LEMMA NextTypeOK == TypeOK /\ [Next]_vars => TypeOK'
  <1> SUFFICES ASSUME TypeOK, [Next]_vars PROVE TypeOK'
    OBVIOUS
  <1> USE UsbAssumption DEF EpIn
  <1>1. CASE SetConfiguration
    BY <1>1 DEF TypeOK, SetConfiguration, flags, ctrl
  <1>2. CASE Deconfigure
    <2>1. 0 \in 0..MaxTransfers /\ resets' \in 0..MaxResets
      BY <1>2 DEF TypeOK, Deconfigure
    <2>2. inflight' \in [EpIn -> 0..MaxTransfers]
      BY <1>2, <2>1 DEF Deconfigure
    <2> QED
      BY <1>2, <2>1, <2>2 DEF TypeOK, Deconfigure, flags
  <1>3. CASE VendorInfo
    BY <1>3 DEF TypeOK, VendorInfo, FlushEp, ctrl
  <1>4. ASSUME NEW zlp \in BOOLEAN, FlushData(zlp) PROVE TypeOK'
    <2>1. Transmit("MSGIN")
      BY <1>4 DEF FlushData
    <2> QED
      BY <1>4, <2>1, TransmitType DEF TypeOK, FlushData
  <1>5. CASE GetCommand
    <2>1. Transmit("CMDIN")
      BY <1>5 DEF GetCommand
    <2> QED
      BY <1>5, <2>1, TransmitType DEF TypeOK, GetCommand
  <1>6. ASSUME NEW ep \in EpIn, HostReads(ep) PROVE TypeOK'
    <2>1. inflight[ep] \in 1..MaxTransfers
      BY <1>6 DEF TypeOK, HostReads
    <2>2. Append(received[ep], inflight[ep]) \in Seq(1..MaxTransfers)
      BY <2>1 DEF TypeOK
    <2>3. received' \in [EpIn -> Seq(1..MaxTransfers)]
      BY <1>6, <2>2 DEF TypeOK, HostReads
    <2> QED
      BY <1>6, <2>3 DEF TypeOK, HostReads, flags
  <1>7. ASSUME NEW ep \in EpIn, DataIn(ep) PROVE TypeOK'
    BY <1>7 DEF TypeOK, DataIn
  <1>8. CASE UNCHANGED vars
    BY <1>8 DEF TypeOK, vars, flags, ctrl
  <1> QED
    BY <1>1, <1>2, <1>3, <1>4, <1>5, <1>6, <1>7, <1>8 DEF Next

LEMMA NextIInv == IInv /\ [Next]_vars => IInv'
  <1> SUFFICES ASSUME IInv, [Next]_vars PROVE IInv'
    OBVIOUS
  <1> USE DEF EpIn
  <1>t. TypeOK /\ TypeOK'
    BY NextTypeOK DEF IInv
  <1> SUFFICES Fresh' /\ InUse' /\ StuckOnlyAfterReset'
    BY <1>t DEF IInv
  <1> USE DEF IInv, Fresh, InUse, StuckOnlyAfterReset, Stuck, Busy
  <1>1. CASE SetConfiguration
    BY <1>1 DEF SetConfiguration, flags, ctrl
  <1>2. CASE Deconfigure
    <2>1. resets' # 0
      BY <1>2, <1>t, UsbAssumption DEF Deconfigure, TypeOK
    <2> QED
      BY <1>2, <2>1 DEF Deconfigure, flags
  <1>3. CASE VendorInfo
    BY <1>3 DEF VendorInfo, FlushEp, ctrl
  <1>4. ASSUME NEW zlp \in BOOLEAN, FlushData(zlp)
        PROVE  Fresh' /\ InUse' /\ StuckOnlyAfterReset'
    <2>1. Transmit("MSGIN")
      BY <1>4 DEF FlushData
    <2>2. /\ inflight'["MSGIN"] # 0 /\ inflight'["CMDIN"] = inflight["CMDIN"]
          /\ done' = done
      BY <2>1, <1>t, TransmitType
    <2>3. ep_tx_in_use'["MSGIN"] /\ fsm' = 1
      BY <1>4, <1>t DEF FlushData, TypeOK
    <2>4. ~cut' => ~done'["MSGIN"]
      BY <1>4, <1>t, <2>2 DEF FlushData, TypeOK
    <2>5. total_length'["CMDIN"] = total_length["CMDIN"]
      BY <1>4, <1>t DEF FlushData, TypeOK
    <2> QED
      BY <1>4, <2>2, <2>3, <2>4, <2>5 DEF FlushData
  <1>5. CASE GetCommand
    <2>1. Transmit("CMDIN")
      BY <1>5 DEF GetCommand
    <2>2. /\ inflight'["CMDIN"] # 0 /\ inflight'["MSGIN"] = inflight["MSGIN"]
          /\ done' = done
      BY <2>1, <1>t, TransmitType
    <2> QED
      BY <1>5, <2>2 DEF GetCommand
  <1>6. ASSUME NEW ep \in EpIn, HostReads(ep)
        PROVE  Fresh' /\ InUse' /\ StuckOnlyAfterReset'
    BY <1>6, <1>t DEF HostReads, flags, TypeOK
  <1>7. ASSUME NEW ep \in EpIn, DataIn(ep)
        PROVE  Fresh' /\ InUse' /\ StuckOnlyAfterReset'
    BY <1>7, <1>t DEF DataIn, TypeOK
  <1>8. CASE UNCHANGED vars
    BY <1>8 DEF vars, flags, ctrl
  <1> QED
    BY <1>1, <1>2, <1>3, <1>4, <1>5, <1>6, <1>7, <1>8 DEF Next

\* Every reachable state is well typed; in particular the state of the pump
\* is one that its switch statement handles.
THEOREM TypeCorrect == Spec => []TypeOK
  <1>1. IInv => TypeOK
    BY DEF IInv
  <1> QED
    BY InitIInv, NextIInv, <1>1, PTL DEF Spec

\* The assertion at line 360 of pcan_usb.c never fails.
THEOREM AssertionHolds == Spec => []AssertEpFree
  <1>1. IInv => AssertEpFree
    BY DEF IInv, Fresh, AssertEpFree
  <1> QED
    BY InitIInv, NextIInv, <1>1, PTL DEF Spec

\* Without a reset in the middle of a transfer, a busy endpoint always has a
\* completion to wait for.
THEOREM NotStuck == Spec => []StuckOnlyAfterReset
  <1>1. IInv => StuckOnlyAfterReset
    BY DEF IInv
  <1> QED
    BY InitIInv, NextIInv, <1>1, PTL DEF Spec

\* No buffer of records is replaced before the host has read it, unless a
\* vendor request or the loss of the configuration cut it off.
THEOREM Delivery == Spec => BufferDelivered
  <1> DEFINE Step ==
        inflight["MSGIN"] # 0 /\ inflight'["MSGIN"] # inflight["MSGIN"]
          => \/ received'["MSGIN"] = Append(received["MSGIN"], inflight["MSGIN"])
             \/ cut
             \/ ~configured'
  <1>1. IInv /\ [Next]_vars => [Step]_vars
    <2> SUFFICES ASSUME IInv, [Next]_vars PROVE [Step]_vars
      OBVIOUS
    <2> USE DEF EpIn
    <2>t. TypeOK
      BY DEF IInv
    <2>1. CASE SetConfiguration \/ VendorInfo
      BY <2>1 DEF SetConfiguration, VendorInfo, ctrl
    <2>2. CASE Deconfigure
      BY <2>2 DEF Deconfigure
    <2>3. ASSUME NEW zlp \in BOOLEAN, FlushData(zlp) PROVE Step
      BY <2>3 DEF IInv, Fresh, InUse, FlushData, TypeOK
    <2>4. CASE GetCommand
      <3>1. Transmit("CMDIN")
        BY <2>4 DEF GetCommand
      <3> QED
        BY <3>1, <2>t, TransmitType
    <2>5. ASSUME NEW ep \in EpIn, HostReads(ep) PROVE Step
      BY <2>5, <2>t DEF HostReads, TypeOK
    <2>6. ASSUME NEW ep \in EpIn, DataIn(ep) PROVE Step
      BY <2>6 DEF DataIn
    <2>7. CASE UNCHANGED vars
      BY <2>7
    <2> QED
      BY <2>1, <2>2, <2>3, <2>4, <2>5, <2>6, <2>7 DEF Next
  <1> QED
    BY InitIInv, NextIInv, <1>1, PTL DEF Spec, BufferDelivered
==============================================================================
