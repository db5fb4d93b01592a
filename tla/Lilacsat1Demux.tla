---------------------------- MODULE Lilacsat1Demux ----------------------------
(***************************************************************************)
(* lib/lilacsat1_demux_impl.{h,cc}: a frame and Codec2 frames out of the    *)
(* bits behind a syncword.                                                  *)
(*                                                                          *)
(* work() handles its items one by one and keeps nothing else between them, *)
(* so an item is a step.  d_frame and d_codec2 are sequences of bits, the   *)
(* most significant bit of each byte first.  The syncword block before this *)
(* one may tag an item that begins no packet.                               *)
(***************************************************************************)
EXTENDS Integers, Sequences, FiniteSets, SequencesExt

CONSTANTS
    d_bits_per_byte, d_header_len, d_codec2_frame_len, d_chunk_len,
    Chunks,             \* chunks in a packet; the first is without its header
    PacketContents,     \* packets, as sequences of bits
    MaxRadioPackets,    \* bound: packets sent
    MaxGap,             \* bound: bits between packets, of the syncword
    MaxFalseTags        \* bound: tags where there is no packet

VARIABLES
    d_position,
    d_frame,
    d_codec2,
    radio,              \* history: the packets sent
    on_air,             \* bits of the last one that are still to come
    gap,                \* bits since its end
    false_tags,         \* history: the packet during or after which each false tag came
    frames,             \* published, each with the packet during or after which it was
    codec2_frames       \* the same

demuxVars == <<d_position, d_frame, d_codec2, radio, on_air, gap, false_tags, frames,
               codec2_frames>>

d_packet_len == Chunks * d_chunk_len - d_header_len
PacketBits == d_packet_len * d_bits_per_byte
frame_part == d_chunk_len - d_codec2_frame_len
FrameBits == (Chunks * frame_part - d_header_len) * d_bits_per_byte
Codec2Bits == d_codec2_frame_len * d_bits_per_byte
Zeros(n) == [i \in 1 .. n |-> 0]

NoPosition == -1

\* The header is in no codec2.  A packet is as many bits as there are positions.
ASSUME DemuxAssumption ==
    /\ d_bits_per_byte \in Nat \ {0}
    /\ d_codec2_frame_len \in Nat \ {0}
    /\ d_chunk_len \in Nat
    /\ d_header_len \in 0 .. frame_part
    /\ Chunks \in Nat \ {0}
    /\ PacketContents \subseteq [1 .. PacketBits -> {0, 1}]

DemuxInit == /\ d_position = NoPosition
             /\ d_frame = Zeros(FrameBits)
             /\ d_codec2 = Zeros(Codec2Bits)
             /\ radio = <<>>
             /\ on_air = <<>>
             /\ gap = 0
             /\ false_tags = <<>>
             /\ frames = <<>>
             /\ codec2_frames = <<>>

------------------------------------------------------------------------------
\* Where the bit at a position goes: its place in the chunk, and in d_codec2 or d_frame.
base(position) == position \div d_bits_per_byte + d_header_len
idx(position) == base(position) % d_chunk_len
IsCodec2(position) == idx(position) >= frame_part

codec2_bit(position) ==
    (idx(position) - frame_part) * d_bits_per_byte + (position % d_bits_per_byte) + 1
frame_bit(position) ==
    ((base(position) \div d_chunk_len) * frame_part + idx(position) - d_header_len)
    * d_bits_per_byte + (position % d_bits_per_byte) + 1

\* A bit is ored to what is there.
Ored(bits, i, bit) == [bits EXCEPT ![i] = IF bit = 1 THEN 1 ELSE @]

\* A slip: the frame is not cleared when it is published.
frame_left(published) == d_frame

\* What d_frame is after it may have been published.
frame_cleared(published) == IF published THEN Zeros(FrameBits) ELSE d_frame

\* An item.  A packet that has come to its end is published with the item after it,
\* unless that one begins another.
Demux(bit, tagged) ==
    LET start == IF tagged THEN 0 ELSE d_position
        ended == start = PacketBits
        position == IF ended THEN NoPosition ELSE start
        frame == frame_cleared(ended)
        codec2 == Ored(d_codec2, codec2_bit(position), bit)
    IN  /\ frames' = IF ended THEN Append(frames, [of |-> Len(radio'), bits |-> d_frame])
                     ELSE frames
        /\ d_position' = IF position = NoPosition THEN NoPosition ELSE position + 1
        /\ \/ /\ position = NoPosition
              /\ d_frame' = frame
              /\ UNCHANGED <<d_codec2, codec2_frames>>
           \/ /\ position # NoPosition
              /\ ~ IsCodec2(position)
              /\ d_frame' = Ored(frame, frame_bit(position), bit)
              /\ UNCHANGED <<d_codec2, codec2_frames>>
           \/ /\ position # NoPosition
              /\ IsCodec2(position)
              /\ d_frame' = frame
              /\ IF codec2_bit(position) = Codec2Bits
                 THEN /\ codec2_frames' = Append(codec2_frames,
                             [of |-> Len(radio'), bits |-> codec2])
                      /\ d_codec2' = Zeros(Codec2Bits)
                 ELSE /\ codec2_frames' = codec2_frames
                      /\ d_codec2' = codec2

------------------------------------------------------------------------------
\* The first bit of a packet; a syncword is before it.
BeginPacket(bits) ==
    /\ Len(radio) < MaxRadioPackets
    /\ on_air = <<>>
    /\ radio = <<>> \/ gap > 0
    /\ radio' = Append(radio, bits)
    /\ on_air' = Tail(bits)
    /\ gap' = 0
    /\ Demux(Head(bits), TRUE)
    /\ UNCHANGED false_tags

\* A tag that is not at the beginning of a packet.
TagMayBeFalse(tagged) ==
    /\ tagged => Len(false_tags) < MaxFalseTags
    /\ false_tags' = IF tagged THEN Append(false_tags, Len(radio)) ELSE false_tags

NextBit(tagged) ==
    /\ on_air # <<>>
    /\ TagMayBeFalse(tagged)
    /\ on_air' = Tail(on_air)
    /\ UNCHANGED <<radio, gap>>
    /\ Demux(Head(on_air), tagged)

GapBit(bit, tagged) ==
    /\ on_air = <<>>
    /\ gap < MaxGap
    /\ TagMayBeFalse(tagged)
    /\ gap' = gap + 1
    /\ UNCHANGED <<radio, on_air>>
    /\ Demux(bit, tagged)

DemuxNext == \/ \E bits \in PacketContents : BeginPacket(bits)
             \/ \E tagged \in BOOLEAN : NextBit(tagged)
             \/ \E bit \in {0, 1}, tagged \in BOOLEAN : GapBit(bit, tagged)

------------------------------------------------------------------------------
\* The positions of the chunks, by what is there.
FramePositions == {p \in 0 .. PacketBits - 1 : ~ IsCodec2(p)}
Codec2Positions == {p \in 0 .. PacketBits - 1 : IsCodec2(p)}

\* How many of some positions are before p, and the bits there, in the order they come.
Earlier(positions, p) == Cardinality({q \in positions : q < p})
InOrder(bits, positions) ==
    [k \in 1 .. Cardinality(positions) |->
        bits[1 + CHOOSE p \in positions : Earlier(positions, p) = k - 1]]

\* The parts of a packet.
FramePart(bits) == InOrder(bits, FramePositions)
Codec2Parts(bits) ==
    LET all == InOrder(bits, Codec2Positions)
    IN  [c \in 1 .. Len(all) \div Codec2Bits |->
            SubSeq(all, (c - 1) * Codec2Bits + 1, c * Codec2Bits)]

\* What is published of packet n is its parts, once and in their order.
ComeOut(published, n, parts) ==
    \E m \in 0 .. Len(published) :
        /\ {j \in DOMAIN published : published[j].of = n} = m + 1 .. m + Len(parts)
        /\ \A k \in DOMAIN parts : published[m + k].bits = parts[k]

\* Packets that are whole and followed by a bit.
Complete == {n \in DOMAIN radio : n < Len(radio) \/ gap > 0}

\* A false tag starts the position anew but leaves the bits of d_frame and d_codec2, to
\* which those of the next packet are ored.  It spoils no more than the packet it falls
\* in or behind and the one after: all others come out as they were sent, once.
FalseTagSpoilsTwo ==
    \A n \in Complete :
        {n - 1, n} \cap Range(false_tags) = {} =>
            /\ ComeOut(frames, n, <<FramePart(radio[n])>>)
            /\ ComeOut(codec2_frames, n, Codec2Parts(radio[n]))
==============================================================================
