--------------------------------- MODULE Kiss ---------------------------------
(***************************************************************************)
(* python/kiss.py and the byte by byte decoding of python/kiss_to_pdu.py    *)
(* and python/components/transports/tm_kiss_transport.py.                   *)
(*                                                                          *)
(* Bytes are the numbers the code uses: the control byte is told by its     *)
(* low nibble, so the values matter.                                        *)
(***************************************************************************)
EXTENDS Naturals, SequencesExt

FEND  == 192
FESC  == 219
TFEND == 220
TFESC == 221

------------------------------------------------------------------------------
\* A slip: FESC is not escaped itself.
EscapedFend(x) == IF x = FEND THEN <<FESC, TFEND>> ELSE <<x>>

\* What a byte is written as.
Escaped(x) == CASE x = FESC -> <<FESC, TFESC>>
                [] x = FEND -> <<FESC, TFEND>>
                [] OTHER    -> <<x>>

kiss_escape(a) ==
    LET buff[i \in 0 .. Len(a)] == IF i = 0 THEN <<>> ELSE buff[i - 1] \o Escaped(a[i])
    IN  buff[Len(a)]

\* What byte c, which is not FEND, adds to the packet being decoded: the byte it
\* stands for after FESC (nothing if it may not follow FESC), itself otherwise.
Unescaped(transpose, c) ==
    CASE transpose /\ c = TFEND                     -> <<FEND>>
      [] transpose /\ c = TFESC                     -> <<FESC>>
      [] transpose /\ c \notin {TFEND, TFESC}       -> <<>>
      [] ~ transpose /\ c = FESC                    -> <<>>
      [] ~ transpose /\ c # FESC                    -> <<c>>

\* Whether the byte after c, which is not FEND, is escaped.
TransposeAfter(transpose, c) == ~ transpose /\ c = FESC
==============================================================================
