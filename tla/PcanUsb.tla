------------------------------- MODULE PcanUsb -------------------------------
(***************************************************************************)
(* The device-to-host half of the USB class, src/src/c/pcan_usb.c: the     *)
(* data pump that sends one buffer of records at a time on MSG IN          *)
(* (pcan_flush_data), the responses on CMD IN                              *)
(* (pcan_usb_send_command_buffer), and what configuration, bus reset and   *)
(* the vendor request do to their flags.                                   *)
(*                                                                         *)
(* The ST device library and the controller are modelled from how this     *)
(* file uses them.  A transfer on an endpoint is in flight until the host  *)
(* has read it all; the completion then waits (done) for the interrupt     *)
(* handler that pcan_usb_poll calls.  Closing an endpoint, or a bus reset, *)
(* loses the transfer in flight, and the library then calls no DataIn for  *)
(* it.  Starting a transfer replaces the one in flight.                    *)
(*                                                                         *)
(* A transfer is named by its number on its endpoint.  The OUT endpoints   *)
(* are armed by device_init and re-armed by every device_data_out, so a    *)
(* command can arrive whenever the device is configured; what it contains  *)
(* is the business of the protocol layer, except that a GET is answered.   *)
(***************************************************************************)
EXTENDS Naturals, Sequences

CONSTANTS
    MaxTransfers,  \* bound: transfers started on each endpoint
    MaxResets      \* bound: times the device loses its configuration

ASSUME UsbAssumption == MaxTransfers \in Nat /\ MaxResets \in Nat

EpIn == {"MSGIN", "CMDIN"}

VARIABLES
    configured,    \* pdev->pClassData # 0
    fsm,           \* data_fsm.state
    ep_tx_in_use,  \* p_data->ep_tx_in_use of the IN endpoints
    total_length,  \* pdev->ep_in[ep].total_length # 0
    inflight,      \* controller: number of the transfer in flight, 0 if none
    done,          \* controller: a completion waits for the interrupt handler
    started,       \* history: transfers started
    received,      \* history: transfers the host has read, in order
    resets,        \* history: configurations lost
    cut            \* history: a vendor request came while a transfer on
                   \* MSG IN was in flight, or its completion not yet served

flags == <<fsm, ep_tx_in_use, total_length>>
ctrl == <<inflight, done, received>>
vars == <<configured, flags, ctrl, started, resets, cut>>

------------------------------------------------------------------------------
Init ==
    /\ configured = FALSE
    /\ fsm = 0
    /\ ep_tx_in_use = [ep \in EpIn |-> FALSE]
    /\ total_length = [ep \in EpIn |-> FALSE]
    /\ inflight = [ep \in EpIn |-> 0]
    /\ done = [ep \in EpIn |-> FALSE]
    /\ started = [ep \in EpIn |-> 0]
    /\ received = [ep \in EpIn |-> <<>>]
    /\ resets = 0
    /\ cut = FALSE

\* USBD_LL_Transmit of usbd_conf.c, and the HAL behind it: the next transfer
\* of ep takes the place of any other.
Transmit(ep) ==
    /\ started[ep] < MaxTransfers
    /\ started' = [started EXCEPT ![ep] = @ + 1]
    /\ inflight' = [inflight EXCEPT ![ep] = started[ep] + 1]
    /\ UNCHANGED <<done, received>>

\* device_init, on SET_CONFIGURATION: the endpoints are opened, the flags of
\* the class left as they are.
SetConfiguration ==
    /\ ~configured
    /\ configured' = TRUE
    /\ UNCHANGED <<flags, ctrl, started, resets, cut>>

\* device_deinit, on a bus reset or SET_CONFIGURATION(0).  A completion that
\* waits may be served before or be lost with the configuration: the interrupt
\* handler serves EP0 before the other endpoints.
Deconfigure ==
    /\ configured
    /\ resets < MaxResets
    /\ configured' = FALSE
    /\ inflight' = [ep \in EpIn |-> 0]
    /\ done' = [ep \in EpIn |-> FALSE]
    /\ resets' = resets + 1
    /\ cut' = FALSE
    /\ UNCHANGED <<flags, received, started>>

\* pcan_flush_ep.  USBD_LL_FlushEP has no effect on this controller: it has
\* no transmit FIFO to flush.
FlushEp(inUse, eps) == [ep \in EpIn |-> inUse[ep] /\ ep \notin eps]

\* device_setup, the vendor request for the bootloader information: "reset
\* endpoints".  The host sends it to a configured device; a completion that
\* waits is served after it.
VendorInfo ==
    /\ configured
    /\ ep_tx_in_use' = FlushEp(ep_tx_in_use, {"MSGIN", "CMDIN"})
    /\ cut' = (cut \/ inflight["MSGIN"] # 0 \/ done["MSGIN"])
    /\ UNCHANGED <<configured, fsm, total_length, ctrl, started, resets>>

\* Fault: the state counts up instead of being set.
FlushDataCountsState(zlp) ==
    /\ configured
    /\ fsm >= 1 => ~ep_tx_in_use["MSGIN"]
    /\ ep_tx_in_use' = [ep_tx_in_use EXCEPT !["MSGIN"] = TRUE]
    /\ total_length' = [total_length EXCEPT !["MSGIN"] = ~zlp]
    /\ Transmit("MSGIN")
    /\ fsm' = fsm + 1
    /\ UNCHANGED <<configured, resets, cut>>

\* Fault: the state is not set (line 372).
FlushDataStaysIdle(zlp) ==
    /\ configured
    /\ fsm = 1 => ~ep_tx_in_use["MSGIN"]
    /\ ep_tx_in_use' = [ep_tx_in_use EXCEPT !["MSGIN"] = TRUE]
    /\ total_length' = [total_length EXCEPT !["MSGIN"] = ~zlp]
    /\ Transmit("MSGIN")
    /\ fsm' = 0
    /\ UNCHANGED <<configured, resets, cut>>

\* Fault: the endpoint's flag is not looked at (lines 352-356).
FlushDataUnguarded(zlp) ==
    /\ configured
    /\ ep_tx_in_use' = [ep_tx_in_use EXCEPT !["MSGIN"] = TRUE]
    /\ total_length' = [total_length EXCEPT !["MSGIN"] = ~zlp]
    /\ Transmit("MSGIN")
    /\ fsm' = 1
    /\ UNCHANGED <<configured, resets, cut>>

\* pcan_flush_data when it takes the data: in state 1 only once the endpoint
\* is free.  More than 0 bytes, or the zero-length packet (zlp).
FlushData(zlp) ==
    /\ configured
    /\ fsm = 1 => ~ep_tx_in_use["MSGIN"]
    /\ ep_tx_in_use' = [ep_tx_in_use EXCEPT !["MSGIN"] = TRUE]
    /\ total_length' = [total_length EXCEPT !["MSGIN"] = ~zlp]
    /\ Transmit("MSGIN")
    /\ fsm' = 1
    /\ UNCHANGED <<configured, resets, cut>>

\* device_data_out with a GET command: pcan_usb_send_command_buffer answers
\* unless the last answer is still there, and then drops this one.
GetCommand ==
    /\ configured
    /\ ~total_length["CMDIN"]
    /\ total_length' = [total_length EXCEPT !["CMDIN"] = TRUE]
    /\ Transmit("CMDIN")
    /\ UNCHANGED <<configured, fsm, ep_tx_in_use, resets, cut>>

\* The host reads the transfer in flight.
HostReads(ep) ==
    /\ configured
    /\ inflight[ep] # 0
    /\ received' = [received EXCEPT ![ep] = Append(@, inflight[ep])]
    /\ inflight' = [inflight EXCEPT ![ep] = 0]
    /\ done' = [done EXCEPT ![ep] = TRUE]
    /\ UNCHANGED <<configured, flags, started, resets, cut>>

\* Fault: the length of the transfer is not cleared (line 221).
DataInKeepsLength(ep) ==
    /\ configured
    /\ done[ep]
    /\ done' = [done EXCEPT ![ep] = FALSE]
    /\ ep_tx_in_use' = [ep_tx_in_use EXCEPT ![ep] = FALSE]
    /\ UNCHANGED <<configured, fsm, total_length, inflight, received>>
    /\ UNCHANGED <<started, resets, cut>>

\* Fault: the endpoint's flag is not cleared (line 222).
DataInKeepsUse(ep) ==
    /\ configured
    /\ done[ep]
    /\ done' = [done EXCEPT ![ep] = FALSE]
    /\ total_length' = [total_length EXCEPT ![ep] = FALSE]
    /\ UNCHANGED <<configured, fsm, ep_tx_in_use, inflight, received>>
    /\ UNCHANGED <<started, resets, cut>>

\* device_data_in, from the interrupt handler.
DataIn(ep) ==
    /\ configured
    /\ done[ep]
    /\ done' = [done EXCEPT ![ep] = FALSE]
    /\ total_length' = [total_length EXCEPT ![ep] = FALSE]
    /\ ep_tx_in_use' = [ep_tx_in_use EXCEPT ![ep] = FALSE]
    /\ UNCHANGED <<configured, fsm, inflight, received, started, resets, cut>>

Next ==
    \/ SetConfiguration
    \/ Deconfigure
    \/ VendorInfo
    \/ \E zlp \in BOOLEAN : FlushData(zlp)
    \/ GetCommand
    \/ \E ep \in EpIn : HostReads(ep) \/ DataIn(ep)

Spec == Init /\ [][Next]_vars

\* The main loop calls the interrupt handler for ever; a host that has
\* configured the device keeps reading from it.
Fairness == \A ep \in EpIn : WF_vars(DataIn(ep)) /\ WF_vars(HostReads(ep))

FairSpec == Spec /\ Fairness

------------------------------------------------------------------------------
(* Properties *)

TypeOK ==
    /\ configured \in BOOLEAN
    /\ fsm \in {0, 1}
    /\ ep_tx_in_use \in [EpIn -> BOOLEAN]
    /\ total_length \in [EpIn -> BOOLEAN]
    /\ inflight \in [EpIn -> 0..MaxTransfers]
    /\ done \in [EpIn -> BOOLEAN]
    /\ started \in [EpIn -> 0..MaxTransfers]
    /\ received \in [EpIn -> Seq(1..MaxTransfers)]
    /\ resets \in 0..MaxResets
    /\ cut \in BOOLEAN

\* The flag that makes the code refuse to use an endpoint.
Busy(ep) == IF ep = "MSGIN" THEN fsm = 1 /\ ep_tx_in_use[ep] ELSE total_length[ep]

\* Refused, and no transfer is left whose completion could end it.
Stuck(ep) == Busy(ep) /\ inflight[ep] = 0 /\ ~done[ep]

\* The assertion of pcan_flush_data, line 360: in state 0 the endpoint is
\* free, over every order of resets, vendor requests and completions.
AssertEpFree == configured /\ fsm = 0 => ~ep_tx_in_use["MSGIN"]

\* A buffer of records that the pump took reaches the host: it is replaced
\* before it is read only after a vendor request cut it off, and lost
\* otherwise only with the configuration (pcan_flush_data, device_data_in).
BufferDelivered ==
    [][inflight["MSGIN"] # 0 /\ inflight'["MSGIN"] # inflight["MSGIN"]
          => \/ received'["MSGIN"] = Append(received["MSGIN"], inflight["MSGIN"])
             \/ cut
             \/ ~configured']_vars

\* An endpoint that was never reset in the middle of a transfer never ends
\* up refusing for good: whenever it is busy, a completion is due.
StuckOnlyAfterReset == \A ep \in EpIn : resets = 0 => ~Stuck(ep)

\* While the device keeps its configuration, both endpoints become free
\* again and again: records and responses keep flowing.
EndpointsServe ==
    [](resets = 0) => \A ep \in EpIn : [](Busy(ep) => <>~Busy(ep))

\* pcan_usb.c:196 calls what the vendor request does "reset endpoints": after
\* it, no endpoint refuses with nothing left to wait for.
VendorResets == [][VendorInfo => \A ep \in EpIn : ~Stuck(ep)']_vars
==============================================================================
