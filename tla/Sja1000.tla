------------------------------- MODULE Sja1000 -------------------------------
(***************************************************************************)
(* The registers of an SJA1000 as the host sees them through the REGISTER  *)
(* commands: pcan_sja1000_write and pcan_sja1000_read, in                  *)
(* src/src/c/pcan_protocol.c.  Six values are kept, at the addresses they  *)
(* have in the mode the chip is in; register 31 selects the mode.          *)
(***************************************************************************)
EXTENDS Naturals, Sequences

VARIABLES
    sja1000_shadow,    \* the six values
    sja1000_ic_mode    \* "PELICAN" or "BASICCAN"

\* Fault: the modes do not share the acceptance registers.
AddressesApart ==
    IF sja1000_ic_mode = "PELICAN"
    THEN <<16, 20, 6, 7, 14, 15>>
    ELSE <<0, 0, 6, 7, 4, 5>>

\* Where each of the values is addressed; BasicCAN has the first four only.
Addresses ==
    IF sja1000_ic_mode = "PELICAN"
    THEN <<16, 20, 6, 7, 14, 15>>
    ELSE <<4, 5, 6, 7>>

\* The bits of reg_addr that count.
Masked(addr) == addr % (IF sja1000_ic_mode = "PELICAN" THEN 128 ELSE 32)

\* What is kept of a value; register 15 of PeliCAN does not take 0xFF.
Kept(addr, value) ==
    IF sja1000_ic_mode = "PELICAN" /\ addr = 15 /\ value = 255
    THEN 127 ELSE value

SjaInit ==
    /\ sja1000_shadow = <<0, 0, 0, 0, 0, 0>>
    /\ sja1000_ic_mode = "PELICAN"

\* pcan_sja1000_write.
Write(addr, value) ==
    /\ sja1000_shadow' =
         [r \in 1..6 |->
            IF r \in DOMAIN Addresses /\ Addresses[r] = Masked(addr)
            THEN Kept(Masked(addr), value)
            ELSE sja1000_shadow[r]]
    /\ sja1000_ic_mode' =
         IF Masked(addr) # 31 THEN sja1000_ic_mode
         ELSE IF value >= 128 THEN "PELICAN" ELSE "BASICCAN"

\* pcan_sja1000_read.
Read(addr) ==
    IF Masked(addr) = 0 THEN 1
    ELSE IF Masked(addr) = 31
         THEN IF sja1000_ic_mode = "PELICAN" THEN 128 ELSE 0
    ELSE IF \E r \in DOMAIN Addresses : Addresses[r] = Masked(addr)
         THEN sja1000_shadow[CHOOSE r \in DOMAIN Addresses :
                                Addresses[r] = Masked(addr)]
    ELSE 0
==============================================================================
