----------------------------- MODULE FrameQueue -----------------------------
(***************************************************************************)
(* What the receive half of the Ethernet bridge promises between the wire  *)
(* and the host, with no descriptor, buffer, slot or interrupt in sight:   *)
(* one bounded queue.  Frames are numbered as they arrive.  They enter and *)
(* leave in that order, whole, and at most once; a good frame is dropped   *)
(* only when the queue is full, or one short of it.                        *)
(*                                                                         *)
(* EthRx implements this specification.                                    *)
(***************************************************************************)
EXTENDS Naturals, Sequences

CONSTANT ROOM   \* frames that fit

VARIABLES
    queue,      \* frames to be forwarded, oldest first
    last,       \* number of the newest good frame, queued or dropped
    forwarded   \* number of the frame last given to the host

vars == <<queue, last, forwarded>>

Init ==
    /\ queue = <<>>
    /\ last = 0
    /\ forwarded = 0

Put ==
    /\ Len(queue) < ROOM
    /\ last' > last
    /\ queue' = Append(queue, last')
    /\ UNCHANGED forwarded

Drop ==
    /\ Len(queue) >= ROOM - 1
    /\ last' > last
    /\ UNCHANGED <<queue, forwarded>>

Forward ==
    /\ queue # <<>>
    /\ forwarded' = Head(queue)
    /\ queue' = Tail(queue)
    /\ UNCHANGED last

Next == Put \/ Drop \/ Forward

Spec == Init /\ [][Next]_vars
==============================================================================
