---------------------------- MODULE MCPcanRecords ----------------------------
(***************************************************************************)
(* Instances of PcanRecords for TLC: the frames that are received and the  *)
(* masks the host sets.                                                    *)
(***************************************************************************)
EXTENDS PcanRecords

Frame(ext, rtr, echo, dlc) == [ext |-> ext, rtr |-> rtr, echo |-> echo, dlc |-> dlc]

\* Records of 6 or 5 bytes, and of 9 or 8: the larger one with a time-sync
\* record, and the smaller one with a time-sync and an error record, fill a
\* block of 16 bytes to its last byte.
SmallFrames == {Frame(FALSE, FALSE, FALSE, 1), Frame(TRUE, FALSE, FALSE, 2)}

\* The largest record, the echo of a full extended frame: 16 bytes when its
\* timestamp is wide.
LargeFrame == {Frame(TRUE, FALSE, TRUE, 8)}

\* The power-up value, and a mask that lets one of the flags through.
TwoMasks == {{}, {"BUS_OFF"}}
OneMask == {{}}
==============================================================================
