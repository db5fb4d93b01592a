------------------------------ MODULE MCTimeLine ------------------------------
(***************************************************************************)
(* The instance of TimeLine that TLC explores.  Delays are in quarters of  *)
(* a sample, the filter's is half a sample.  In one file the delay falls   *)
(* by less than one sample per sample, and the longest is a whole one; in  *)
(* the other it falls by two samples per sample.  Time starts before both  *)
(* files; it is told as that again, or as one past them.                   *)
(***************************************************************************)
EXTENDS TimeLine

MCDelayFiles == {[times |-> <<1, 3, 4>>, values |-> <<10, 4, 2>>],
                 [times |-> <<1, 2>>, values |-> <<11, 3>>]}

MCDopplerFiles == {[times |-> <<1, 3>>, values |-> <<2, 6>>, newline |-> TRUE]}
==============================================================================
