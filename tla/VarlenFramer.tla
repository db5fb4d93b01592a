----------------------------- MODULE VarlenFramer -----------------------------
(***************************************************************************)
(* lib/varlen_packet_framer_impl.cc: a tagged stream of packets goes in, a  *)
(* stream of packets with a syncword and a length header in front comes     *)
(* out.  A packet is written in one call, which needs all its items and     *)
(* room for all that is written: until then the block tells the scheduler   *)
(* what it is waiting for.                                                  *)
(*                                                                          *)
(* With the length header that it writes and that the tagger in             *)
(* lib/varlen_packet_tagger_impl.cc reads: bits of a number, in either      *)
(* order, which is the length in bytes or the Golay code word for it.       *)
(* lib/golay24.c is represented by a few words of a shorter code; as there, *)
(* the decoder gives the word that is near enough, and fails if none is.    *)
(***************************************************************************)
EXTENDS Integers, FiniteSets, SequencesExt

CONSTANTS
    Settings,       \* the constructor arguments of the two blocks, see MCFraming
    ByteBits,       \* items in a byte (8 in the code)
    LongHeader,     \* the 32 of the constructor
    IntBits,        \* bits of an int (32 in the code)
    GolayLength,    \* bits of a code word (24 in the code)
    GolayErrors,    \* wrong bits that are corrected (3 in the code)
    GolayWords,     \* the code words of lengths in bytes, as numbers
    Payloads,       \* the packets that may go in: sequences of bits
    MaxPackets,     \* bound: packets
    ASM             \* the item of the syncword, whose bits no block looks at

VARIABLES
    setting,        \* constructor arguments of both blocks, constant afterwards
    packets,        \* the packets of the input, one after the other
    arrived,        \* items of the input that have arrived
    f_read,         \* nitems_read
    f_required,     \* d_ninput_items_required
    f_min_noutput,  \* set by set_min_noutput_items()
    framed,         \* the output
    framed_tags     \* its tags: records of offset and value

framerVars == <<packets, arrived, f_read, f_required, f_min_noutput, framed, framed_tags>>

Bit(number, i) == (number \div (2 ^ i)) % 2

\* The items of a header; item 0 is the first.
HeaderBits(header, length) ==
    [i \in 0 .. length - 1 |->
        Bit(header, IF setting.msb_first THEN length - i - 1 ELSE i)]

\* What an int holds of a number: the lowest bits, of which the first is the sign.
AsInt(number) == ((number + 2 ^ (IntBits - 1)) % (2 ^ IntBits)) - 2 ^ (IntBits - 1)

\* The int that is made of a header, which starts at item first of in.
bits2len(in, first, length) ==
    LET weight(i) == IF setting.msb_first THEN length - i - 1 ELSE i
        sum[i \in 0 .. length] ==
            IF i = 0 THEN 0 ELSE sum[i - 1] + in[first + i - 1] * (2 ^ weight(i - 1))
    IN  AsInt(sum[length])

encode_golay24(length) == GolayWords[length]

Distance(a, b) == Cardinality({i \in 0 .. GolayLength - 1 : Bit(a, i) # Bit(b, i)})

\* The lengths the decoder may give: one, or none if it fails.
decode_golay24(number) ==
    {n \in DOMAIN GolayWords : Distance(GolayWords[n], number) <= GolayErrors}

------------------------------------------------------------------------------
MaxOf(a, b) == IF a >= b THEN a ELSE b
MinOf(a, b) == IF a <= b THEN a ELSE b

RoundedUp(n) == ((n + ByteBits - 1) \div ByteBits) * ByteBits

\* d_header_length, after the constructor.
f_header_length ==
    IF setting.use_golay THEN GolayLength
    ELSE MaxOf(LongHeader, MinOf(ByteBits, RoundedUp(setting.length_field_size)))

FramerInit == /\ packets \in SeqOf(Payloads, MaxPackets)
              /\ arrived = 0
              /\ f_read = 0
              /\ f_required = 1
              /\ f_min_noutput = 1
              /\ framed = <<>>
              /\ framed_tags = {}

Input == FlattenSeq(packets)

InputTags == {[offset |-> Len(FlattenSeq(SubSeq(packets, 1, k - 1))),
               value  |-> Len(packets[k])] : k \in DOMAIN packets}

\* The block before the framer writes an item.
ItemArrives == /\ arrived < Len(Input)
               /\ arrived' = arrived + 1
               /\ UNCHANGED <<packets, f_read, f_required, f_min_noutput, framed, framed_tags>>

Header(packet_len) ==
    LET bytes == packet_len \div ByteBits
    IN  HeaderBits(IF setting.use_golay THEN encode_golay24(bytes) ELSE bytes,
                   f_header_length)

\* The first tag in what the call gets.
FirstTag(ninput) ==
    {t \in InputTags : /\ t.offset \in f_read .. f_read + ninput - 1
                       /\ \A u \in InputTags :
                             u.offset \in f_read .. t.offset => u.offset = t.offset}

\* What is written for a packet, whose items are taken from the front of the input.
Frame(packet_len) ==
    [i \in 1 .. setting.asm_len |-> ASM]
        \o [i \in 1 .. f_header_length |-> Header(packet_len)[i - 1]]
        \o SubSeq(Input, f_read + 1, f_read + packet_len)

\* A slip the properties must notice: no more room is asked for.
RoomUnchanged(noutput, total) == 1

\* What set_min_noutput_items() gets.
RoomAskedFor(noutput, total) == IF noutput < total THEN total ELSE 1

WriteFrame(packet_len, total) ==
    /\ f_required' = 1
    /\ f_read' = f_read + packet_len
    /\ framed' = framed \o Frame(packet_len)
    /\ framed_tags' = framed_tags \cup {[offset |-> Len(framed), value |-> total]}

\* general_work() with all the input there is and room for noutput items.
Framer(noutput) ==
    LET ninput == arrived - f_read
    IN  /\ ninput >= f_required
        /\ \E t \in FirstTag(ninput) :
              LET total    == t.value + f_header_length + setting.asm_len
                  required == t.offset - f_read + t.value
              IN  /\ f_min_noutput' = RoomAskedFor(noutput, total)
                  /\ IF noutput >= total /\ ninput >= required THEN WriteFrame(t.value, total)
                     ELSE /\ f_required' = IF noutput < total THEN f_required ELSE required
                          /\ UNCHANGED <<f_read, framed, framed_tags>>
        /\ UNCHANGED <<packets, arrived>>
==============================================================================
