------------------------------ MODULE MCSelector ------------------------------
(***************************************************************************)
(* The instance of Selector that TLC explores: one input, two (where        *)
(* forecast() asks for the inactive one) and three.  A buffer has room for  *)
(* two items, one fewer than are written, so that a block before the        *)
(* selector can be stopped, and so that requests above 1 can be met.        *)
(***************************************************************************)
EXTENDS Selector

MCTopologies == {<<1, 2>>, <<2, 1>>, <<3, 1>>}
==============================================================================
