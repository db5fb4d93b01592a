--------------------------- MODULE MCFixedlenToPdu ---------------------------
(***************************************************************************)
(* The instance of FixedlenToPdu that TLC explores.  Length tags are below, *)
(* at and above packet_len, zero and negative; a call may bring fewer items *)
(* than the ring holds, as many, or more.                                   *)
(***************************************************************************)
EXTENDS FixedlenToPdu

MCLengthTags == {-1, 0, 1, 2, 3, 9}
==============================================================================
