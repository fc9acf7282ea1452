------------------------------ MODULE HostPacket ------------------------------
(***************************************************************************)
(* MSG OUT packets as a host makes them, by the format src/README.md       *)
(* documents (lines 82-92) and apart from the code that reads them, which  *)
(* is MsgOut: a prefix, the number of records, the records.                *)
(*                                                                         *)
(* A packet may be cut anywhere, or be followed by anything.  Behind the   *)
(* frames there may be records of another kind, which the adapter does not *)
(* accept.                                                                 *)
(***************************************************************************)
EXTENDS Naturals, Sequences

Byte == 0..255

MSG_OUT == 64   \* bytes of the endpoint, and so of a packet

StdIds == {n \in Nat : n < 2048}
ExtIds == {n \in Nat : n < 32 * (256 * (256 * 256))}

\* A remote frame has no data; a length code above 8 is possible.  A frame
\* that is to be echoed carries a byte for it.
HostFrame(f) ==
    /\ f.ext \in BOOLEAN /\ f.rtr \in BOOLEAN
    /\ f.id \in IF f.ext THEN ExtIds ELSE StdIds
    /\ f.dlc \in 0..15
    /\ f.data \in Seq(Byte) /\ Len(f.data) = IF f.rtr THEN 0 ELSE f.dlc
    /\ f.echo \in Seq(Byte) /\ Len(f.echo) \in 0..1

StatusLength(dlc, rtr, ext) ==
    dlc + (IF rtr THEN 16 ELSE 0) + (IF ext THEN 32 ELSE 0)

\* Identifiers, little endian, moved up by 5 bits or by 3; the lowest bit asks
\* for an echo.
StdIdBytes(id, echo) == <<32 * (id % 8) + echo, id \div 8>>

ExtIdBytes(id, echo) ==
    LET high == id \div 32
    IN  <<8 * (id % 32) + echo, high % 256,
          (high \div 256) % 256, (high \div 256) \div 256>>

IdBytes(f) == IF f.ext THEN ExtIdBytes(f.id, Len(f.echo))
              ELSE StdIdBytes(f.id, Len(f.echo))

RecordOf(f) ==
    (<<StatusLength(f.dlc, f.rtr, f.ext)>> \o IdBytes(f)) \o (f.data \o f.echo)

CanDlc(n) == IF n < 8 THEN n ELSE 8

\* The frame as the adapter should see it.
Expected(f) ==
    [ext |-> f.ext, rtr |-> f.rtr, id |-> f.id, dlc |-> CanDlc(f.dlc),
     data |-> SubSeq(f.data, 1, CanDlc(Len(f.data))), echo |-> f.echo]

\* Bit 6 of its first byte marks a record that is not a frame.
IsStatus(sl) == (sl \div 64) % 2 = 1

\* p.frames is what the host put into packet p, p.at[i] the number of bytes
\* in front of frame i, and p.bytes what arrives.
IsPacket(p) ==
    LET N == Len(p.frames)
        Size == Len(p.bytes)
    IN  /\ p.frames \in Seq({p.frames[i] : i \in 1..N})
        /\ \A i \in 1..N : HostFrame(p.frames[i])
        /\ p.bytes \in Seq(Byte) /\ Size <= MSG_OUT
        /\ p.at \in Seq(Nat) /\ Len(p.at) = N + 1 /\ p.at[1] = 2
        /\ \A i \in 1..N :
             LET r == RecordOf(p.frames[i])
             IN  /\ p.at[i + 1] = p.at[i] + Len(r)
                 /\ \A k \in 1..Len(r) :
                      p.at[i] + k <= Size => p.bytes[p.at[i] + k] = r[k]
        /\ Size >= 2 =>
             /\ p.bytes[2] >= N
             /\ p.bytes[2] > N /\ Size > p.at[N + 1] =>
                  IsStatus(p.bytes[p.at[N + 1] + 1])

\* The packet ends inside of record i, or behind a remote frame that is
\* followed by fewer bytes than its length code says.
EndsIn(p, i) ==
    \/ Len(p.bytes) < p.at[i + 1]
    \/ /\ p.frames[i].rtr
       /\ Len(p.bytes)
            < p.at[i] + 1 + Len(IdBytes(p.frames[i])) + p.frames[i].dlc
==============================================================================
