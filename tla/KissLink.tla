------------------------------- MODULE KissLink -------------------------------
(***************************************************************************)
(* python/pdu_to_kiss.py at one end, python/kiss_to_pdu.py at the other.    *)
(*                                                                          *)
(* Between them is a file, a TCP connection or the downlink of a satellite  *)
(* whose frames carry a piece of the KISS stream each (kiss_transport.py).  *)
(* Pieces have nothing to do with packets, and on a downlink some are lost. *)
(*                                                                          *)
(* A byte of the stream is [byte, frame]: frame is the number of the KISS   *)
(* frame it was written for, which no block sees.                           *)
(***************************************************************************)
EXTENDS Kiss, FiniteSets

CONSTANTS
    Modes,          \* the settings of control_byte and include_timestamp in use
    Payloads,       \* contents of the PDUs
    Timestamps,     \* contents of a timestamp
    MaxFrames,      \* bound: KISS frames written
    MaxLosses       \* bound: pieces lost

VARIABLES
    mode,           \* constructor arguments, constant afterwards
    sent,           \* history: the KISS frames written
    stream,         \* bytes on their way
    lost,           \* history: numbers of the frames that lost a byte
    losses,         \* history: pieces lost
    pdu,            \* kiss_to_pdu: the packet being decoded
    transpose,      \* kiss_to_pdu: the last byte was FESC
    received        \* PDUs published, each with the frame its last FEND is of

vars == <<mode, sent, stream, lost, losses, pdu, transpose, received>>

Init == /\ mode \in Modes
        /\ sent = <<>>
        /\ stream = <<>>
        /\ lost = {}
        /\ losses = 0
        /\ pdu = <<>>
        /\ transpose = FALSE
        /\ received = <<>>

------------------------------------------------------------------------------
\* The bytes of KISS frame number n with this content.
KissFrame(n, content) ==
    LET bytes == <<FEND>> \o kiss_escape(content) \o <<FEND>>
    IN  [i \in DOMAIN bytes |-> [byte |-> bytes[i], frame |-> n]]

\* A PDU is written behind control byte 0, a timestamp behind control byte 9.
DataFrame(payload) == IF mode.control_byte THEN <<0>> \o payload ELSE payload
TimestampFrame(t) == <<9>> \o t

\* pdu_to_kiss gets a PDU; one handler call may write a timestamp before it.
SendPdu(payload, contents) ==
    /\ Len(sent) + Len(contents) <= MaxFrames
    /\ sent' = sent \o [i \in DOMAIN contents |->
                           [content |-> contents[i],
                            payload |-> IF i = Len(contents) THEN <<payload>> ELSE <<>>]]
    /\ stream' = stream \o FlattenSeq([i \in DOMAIN contents |->
                                          KissFrame(Len(sent) + i, contents[i])])
    /\ UNCHANGED <<mode, lost, losses, pdu, transpose, received>>

PduToKiss ==
    \E payload \in Payloads :
        IF mode.include_timestamp
        THEN \E t \in Timestamps :
                SendPdu(payload, <<TimestampFrame(t), DataFrame(payload)>>)
        ELSE SendPdu(payload, <<DataFrame(payload)>>)

\* Empty packets, and packets whose control byte is not that of data, are dropped.
IsData(packet) == packet # <<>> /\ (mode.control_byte => packet[1] % 16 = 0)

WithoutControl(packet) == IF mode.control_byte THEN Tail(packet) ELSE packet

PduAfterEnd(packet) == <<>>

\* The decoder, after one byte more.
ByteDecoded(r, b) ==
    IF b.byte = FEND
    THEN [pdu |-> PduAfterEnd(r.pdu),
          transpose |-> r.transpose,
          received |-> IF IsData(r.pdu)
                       THEN Append(r.received,
                                   [frame |-> b.frame, payload |-> WithoutControl(r.pdu)])
                       ELSE r.received]
    ELSE [pdu |-> r.pdu \o Unescaped(r.transpose, b.byte),
          transpose |-> TransposeAfter(r.transpose, b.byte),
          received |-> r.received]

\* kiss_to_pdu gets the next n bytes in a call to work().
KissToPdu(n) ==
    LET r == FoldLeft(ByteDecoded,
                      [pdu |-> pdu, transpose |-> transpose, received |-> received],
                      SubSeq(stream, 1, n))
    IN  /\ pdu' = r.pdu
        /\ transpose' = r.transpose
        /\ received' = r.received
        /\ stream' = SubSeq(stream, n + 1, Len(stream))
        /\ UNCHANGED <<mode, sent, lost, losses>>

\* The next n bytes never arrive.
LosePiece(n) ==
    /\ losses < MaxLosses
    /\ losses' = losses + 1
    /\ lost' = lost \cup {stream[i].frame : i \in 1 .. n}
    /\ stream' = SubSeq(stream, n + 1, Len(stream))
    /\ UNCHANGED <<mode, sent, pdu, transpose, received>>

Next == \/ PduToKiss
        \/ \E n \in 1 .. Len(stream) : KissToPdu(n)
        \/ \E n \in 1 .. Len(stream) : LosePiece(n)

Spec == Init /\ [][Next]_vars

------------------------------------------------------------------------------
\* The KISS frames no byte of which is on its way any more.
Passed == {k \in DOMAIN sent : stream = <<>> \/ k < stream[1].frame}

\* The payload frame k must give: none if it is a timestamp or has no byte at all.
Due(k) == IF sent[k].content = <<>> THEN <<>> ELSE sent[k].payload

\* The payloads that frame k has ended.
GivenBy(k) == LET ofK == SelectSeq(received, LAMBDA r : r.frame = k)
              IN  [i \in DOMAIN ofK |-> ofK[i].payload]

\* As long as nothing is lost, the PDUs that come out are those that went in, in the
\* order they went in, whatever bytes they are made of and however the stream is
\* cut; timestamps do not come out.
LosslessInOrder ==
    lost = {} =>
        [i \in DOMAIN received |-> received[i].payload]
            = FlattenSeq([k \in 1 .. Cardinality(Passed) |-> Due(k)])

\* A loss is over after one KISS frame: the first whole frame after it may be spoilt
\* by what the decoder still remembers (the code does not forget an escape at FEND),
\* a whole frame behind a whole frame is not, provided that one had a byte in it.
Resynchronises ==
    \A k \in Passed :
        (/\ k \notin lost
         /\ k > 1 => k - 1 \notin lost /\ sent[k - 1].content # <<>>)
            => GivenBy(k) = Due(k)
==============================================================================
