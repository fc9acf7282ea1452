------------------------------- MODULE TxQueue -------------------------------
(***************************************************************************)
(* What the CAN driver promises the code that hands it frames, with no     *)
(* ring, index or mailbox in sight: one queue of frames in the order they  *)
(* were accepted.  Frames leave from the front only.  The front frame may  *)
(* go out on the bus; a start or a stop of the bus may throw away at most  *)
(* REACH frames, those the controller has already been given; and a frame  *)
(* is refused only when at least ROOM frames are waiting.                  *)
(*                                                                         *)
(* PcanCan implements this specification.                                  *)
(***************************************************************************)
EXTENDS Naturals, Sequences

CONSTANTS
    ROOM,   \* frames that fit behind the controller
    REACH   \* frames the controller holds at most

VARIABLES
    accepted,  \* frames accepted so far; a frame is named by its number
    refused,   \* frames refused so far
    queue,     \* accepted, and neither sent nor thrown away
    wire       \* sent, in the order they reached the bus

vars == <<accepted, refused, queue, wire>>

Init ==
    /\ accepted = 0
    /\ refused = 0
    /\ queue = <<>>
    /\ wire = <<>>

Accept ==
    /\ Len(queue) < ROOM + REACH
    /\ accepted' = accepted + 1
    /\ queue' = Append(queue, accepted + 1)
    /\ UNCHANGED <<refused, wire>>

Refuse ==
    /\ Len(queue) >= ROOM
    /\ refused' = refused + 1
    /\ UNCHANGED <<accepted, queue, wire>>

\* n frames leave from the front; the first of them may have been sent.
Leave(n) ==
    /\ n <= Len(queue)
    /\ queue' = SubSeq(queue, n + 1, Len(queue))
    /\ wire' \in {wire, Append(wire, Head(queue))}
    /\ UNCHANGED <<accepted, refused>>

Next ==
    \/ Accept
    \/ Refuse
    \/ \E n \in 1..REACH : Leave(n)

Spec == Init /\ [][Next]_vars
==============================================================================
