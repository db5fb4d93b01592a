----------------------------- MODULE MCTransports -----------------------------
(***************************************************************************)
(* The instance of Transports that TLC explores.                            *)
(*                                                                          *)
(* KISS in TM frames: two virtual channels to extract and one that is not.  *)
(* Space packets: two virtual channels, one with a control field, and one   *)
(* AP_ID are connected, another of each is not; packets are shorter than a  *)
(* TM frame, as long, and as long as two.  NANOLINK: an empty frame, one    *)
(* whose contents look like half a syncword, and fill that does.            *)
(* LilacSat-1: packets of two chunks, with 2 bits to a byte.  CUTE: two      *)
(* applications, counts that wrap at 4.  FUNcube: two orbits of four        *)
(* payloads, of 7 bytes with records of 5.                                  *)
(***************************************************************************)
EXTENDS Transports

MCPackets == {<<1, FEND>>, <<FESC, 2>>}
MCPayloads == {<<>>, <<0>>, <<1, 0, 2, 1>>}
MCContents == {<<>>, <<8>>, <<5, 5>>}
MCPacketContents == {[i \in 1 .. 14 |-> i % 2],
                     [i \in 1 .. 14 |-> IF i \in {2, 3, 6, 7, 12, 14} THEN 1 ELSE 0]}
==============================================================================
