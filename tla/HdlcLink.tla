------------------------------- MODULE HdlcLink -------------------------------
(***************************************************************************)
(* python/hdlc_framer.py and nrzi_encode at one end, nrzi_decode and        *)
(* python/hdlc_deframer.py at the other, as in ax25_deframer.py.            *)
(*                                                                          *)
(* Between them is a radio link: a bit may be lost (the clock slips), its   *)
(* level may be wrong, and the polarity may change (the carrier slips).     *)
(* The bits on the line are numbered.  A call to work() is a step for each  *)
(* of its items: all that the blocks know between two items is in their     *)
(* variables, so how the line is cut into calls makes no difference.        *)
(*                                                                          *)
(* The checksum is not computed: the check accepts exactly the frames, data *)
(* and FCS, that were given to the framer.                                  *)
(***************************************************************************)
EXTENDS Integers, SequencesExt

CONSTANTS
    Frames,         \* records [data, fcs] of bytes that go through the framer
    Settings,       \* records preamble_bytes, postamble_bytes, check_fcs
    max_length,     \* of the deframer: bytes of the longest packet
    MaxSent,        \* bound: packets given to the framer
    MaxLine,        \* bound: bits on the line when a packet is given to the framer
    MaxFaults       \* bound: faults of the link

------------------------------------------------------------------------------
_flag == <<0, 1, 1, 1, 1, 1, 1, 0>>

\* Least significant bit first, as in the loop of the framer.
BitsOf(byte) == [i \in 1 .. 8 |-> (byte \div (2 ^ (i - 1))) % 2]

BytesToBits(bytes) == FlattenSeq([i \in DOMAIN bytes |-> BitsOf(bytes[i])])

\* One bit more of the frame; after five ones a zero is stuffed.
Stuffed(r, x) ==
    LET ones == IF x = 1 THEN r.ones + 1 ELSE 0
    IN  IF ones = 5 THEN [buff |-> r.buff \o <<x, 0>>, ones |-> 0]
        ELSE [buff |-> Append(r.buff, x), ones |-> ones]

\* The bits between the flags.
Body(frame) == FoldLeft(Stuffed, [buff |-> <<>>, ones |-> 0],
                        BytesToBits(frame.data \o frame.fcs)).buff

Repeat(s, n) == FlattenSeq([i \in 1 .. n |-> s])

------------------------------------------------------------------------------
\* The levels on the line after a run of bits: a zero changes the level.
NrziEncoded(d_last, bits) ==
    Tail(FoldLeft(LAMBDA levels, x :
                      Append(levels, IF x = 1 THEN Last(levels) ELSE 1 - Last(levels)),
                  <<d_last>>, bits))

NrziDecoded(previous, level) == IF level = previous THEN 1 ELSE 0

------------------------------------------------------------------------------
\* A byte of the frame, least significant bit first.
ByteOf(s) == LET value[i \in 0 .. 8] == IF i = 0 THEN 0
                                        ELSE value[i - 1] + s[i] * (2 ^ (i - 1))
             IN  value[8]

pack(s) == [i \in 1 .. Len(s) \div 8 |-> ByteOf(SubSeq(s, 8 * i - 7, 8 * i))]

fcs_ok(frame) == Len(frame) > 2 /\ \E f \in Frames : frame = f.data \o f.fcs

trim_fcs(frame) == SubSeq(frame, 1, Len(frame) - 2)

\* deque(maxlen): what is appended at the right drops what is at the left.
Pushed(bits, x, maxlen) ==
    IF Len(bits) = maxlen THEN Append(Tail(bits), x) ELSE Append(bits, x)

\* The frame in front of a flag: without the seven bits of the flag, padded to bytes.
FrameBits(bits) ==
    LET kept == IF Len(bits) < 7 THEN <<>> ELSE SubSeq(bits, 1, Len(bits) - 7)
        over == Len(kept) % 8
    IN  IF over = 0 THEN kept ELSE Repeat(<<0>>, 8 - over) \o kept

------------------------------------------------------------------------------
VARIABLES
    setting,        \* constructor arguments, constant afterwards
    sent,           \* history: the frames written, with the numbers of their bits
    position,       \* the number of the last bit written
    d_last,         \* nrzi_encode: the last level
    line,           \* levels on their way
    inverted,       \* the polarity is wrong
    faults,         \* history: the bits at which the link had a fault
    previous,       \* nrzi_decode: the last level (its history)
    bits,           \* hdlc_deframer: the deque
    ones,           \* hdlc_deframer: ones in a row
    received        \* PDUs published, with the number of the last bit

vars == <<setting, sent, position, d_last, line, inverted, faults,
          previous, bits, ones, received>>

Init == /\ setting \in Settings
        /\ sent = <<>>
        /\ position = 0
        /\ d_last = 0
        /\ line = <<>>
        /\ inverted = FALSE
        /\ faults = {}
        /\ previous = 0
        /\ bits = <<>>
        /\ ones = 0
        /\ received = <<>>

maxlen == (max_length + 2) * 8 + 7

------------------------------------------------------------------------------
\* What the framer writes for a frame, and the levels nrzi_encode makes of it.
Framed == [s \in Settings, f \in Frames |->
              Repeat(_flag, s.preamble_bytes) \o Body(f) \o Repeat(_flag, s.postamble_bytes)]

Levels == [s \in Settings, f \in Frames, d \in {0, 1} |-> NrziEncoded(d, Framed[s, f])]

\* The framer gets a PDU; nrzi_encode follows.
handle_msg(f) ==
    LET levels == Levels[setting, f, d_last]
        first  == position + 8 * setting.preamble_bytes + 1
        last   == position + Len(levels) - 8 * setting.postamble_bytes
    IN  /\ Len(sent) < MaxSent
        /\ Len(line) <= MaxLine
        /\ sent' = Append(sent, [data |-> f.data, first |-> first, last |-> last])
        /\ position' = position + Len(levels)
        /\ d_last' = Last(levels)
        /\ line' = line \o levels
        /\ UNCHANGED <<setting, inverted, faults, previous, bits, ones, received>>

\* The number of the next bit.
Number == position - Len(line) + 1

\* The deframer gets a flag.
Flag ==
    LET frame == pack(FrameBits(bits))
    IN  /\ bits' = <<>>
        /\ received' = IF frame # <<>> /\ (setting.check_fcs => fcs_ok(frame))
                       THEN Append(received, [data |-> trim_fcs(frame), number |-> Number])
                       ELSE received

\* The deframer gets a bit.
Deframe(x) ==
    /\ ones' = IF x = 1 THEN ones + 1 ELSE 0
    /\ IF x = 0 /\ ones > 5 THEN Flag
       ELSE /\ bits' = IF x = 0 /\ ones = 5 THEN bits ELSE Pushed(bits, x, maxlen)
            /\ received' = received

\* nrzi_decode and the deframer get the next level.
work ==
    /\ line # <<>>
    /\ LET level == IF inverted THEN 1 - line[1] ELSE line[1]
       IN  /\ previous' = level
           /\ Deframe(NrziDecoded(previous, level))
    /\ line' = Tail(line)
    /\ UNCHANGED <<setting, sent, position, d_last, inverted, faults>>

\* The faults of the link, at the next bit.
Fault == /\ line # <<>>
         /\ Cardinality(faults) < MaxFaults
         /\ Number \notin faults
         /\ faults' = faults \cup {Number}
         /\ UNCHANGED <<setting, sent, position, d_last, previous, bits, ones, received>>

LoseBit == Fault /\ line' = Tail(line) /\ UNCHANGED inverted

WrongLevel == Fault /\ line' = [line EXCEPT ![1] = 1 - @] /\ UNCHANGED inverted

WrongPolarity == Fault /\ inverted' = ~inverted /\ UNCHANGED line

Next == \/ \E f \in Frames : handle_msg(f)
        \/ work
        \/ LoseBit
        \/ WrongLevel
        \/ WrongPolarity

Spec == Init /\ [][Next]_vars

------------------------------------------------------------------------------
\* The bits of frame k with a flag before it and a flag behind it.
Span(k) == sent[k].first - 8 .. sent[k].last + 8

\* All the bits of the span have been written, and none is on its way any more.
Arrived(k) == LET last == sent[k].last + 8
              IN  position >= last /\ Number > last

\* What the frame must give: nothing if it has no data and is checked, or is too long
\* and is checked.  Without a check the end of a frame that is too long comes out.
Due(k) == LET data == sent[k].data
          IN  IF setting.check_fcs
              THEN IF Len(data) \in 1 .. max_length THEN <<data>> ELSE <<>>
              ELSE IF Len(data) <= max_length THEN <<data>>
              ELSE <<SubSeq(data, Len(data) - max_length + 1, Len(data))>>

GivenBy(k) == LET ofK == SelectSeq(received, LAMBDA r : r.number = sent[k].last + 8)
              IN  [i \in DOMAIN ofK |-> ofK[i].data]

\* On a link without faults the packets come out as they went in, in their order, and
\* nothing else does: for all data, also data that look like flags, for the shortest
\* and the longest packet, and whether flags are shared or not.
LosslessInOrder ==
    faults = {} =>
        [i \in DOMAIN received |-> received[i].data]
            = FlattenSeq([k \in 1 .. Cardinality({k \in DOMAIN sent : Arrived(k)}) |-> Due(k)])

\* A frame that comes with the flag before and the flag behind without a fault is
\* published once, whatever came before: lost bits, false flags, a wrong polarity.
IntactFrameArrives ==
    \A k \in DOMAIN sent :
        (Arrived(k) /\ Span(k) \cap faults = {}) => GivenBy(k) = Due(k)
==============================================================================
