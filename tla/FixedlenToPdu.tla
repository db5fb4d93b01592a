---------------------------- MODULE FixedlenToPdu ----------------------------
(***************************************************************************)
(* lib/fixedlen_to_pdu_impl.{h,cc}: the sync block that cuts packets out of *)
(* a stream.  The scheduler hands work() the stream in pieces of any size,  *)
(* so a packet may begin in one call and end several calls later.  The      *)
(* block keeps the last d_packetlen - 1 items in the ring d_history and the *)
(* packets that have not ended in d_packet_infos, and it publishes a packet *)
(* in the call that brings its last item.                                   *)
(*                                                                          *)
(* Items are only copied (or packed in groups), never inspected: an item is *)
(* its offset in the stream, and Unwritten stands for the zeros d_history   *)
(* is filled with at construction.  Sizes are in items: d_write_ptr_byte is *)
(* always d_write_ptr_item * d_itemsize, and one variable stands for both.  *)
(***************************************************************************)
EXTENDS Integers, FiniteSets

CONSTANTS
    PacketLens,     \* values of packet_len the constructor may get
    LengthTags,     \* values a length tag may carry (negative ones included)
    NoLengthTag,    \* the packet has no length tag, or the block ignores it
    ByteBits,       \* items packed in a byte (8 in the code)
    MaxChunk,       \* bound: the largest noutput_items of a call to work()
    MaxItems,       \* bound: the length of the stream
    MaxTags         \* bound: syncword tags in the stream

\* packet_len - 1 is the size of a vector, and a byte has bits.
ASSUME SizesAssumption == /\ PacketLens \subseteq Nat \ {0}
                          /\ ByteBits \in Nat \ {0}
                          /\ MaxChunk \in Nat

VARIABLES
    d_packetlen,    \* constructor argument, constant afterwards
    d_pack,         \* constructor argument, constant afterwards
    nitems_read,    \* items consumed by the previous calls
    d_history,      \* ring of the last d_packetlen - 1 items
    d_write_ptr,    \* where the next item goes in d_history
    d_packet_infos, \* packets whose end has not arrived
    pdus,           \* what the last call to work() published
    tagged,         \* history: every packet tagged so far
    published       \* history: every PDU published so far

vars == <<d_packetlen, d_pack, nitems_read, d_history, d_write_ptr,
          d_packet_infos, pdus, tagged, published>>

Unwritten == -1

HistoryItems == d_packetlen - 1

Min2(a, b) == IF a <= b THEN a ELSE b

------------------------------------------------------------------------------
\* The length of a packet: the value of its length tag, clamped to packet_len.
\* A negative value becomes a huge uint64_t, so it is clamped as well.
PacketLength(value) == IF value \in 0 .. d_packetlen THEN value ELSE d_packetlen

\* Bytes made of ByteBits consecutive items each; what is left over is dropped.
pack_packet(packet, length) ==
    [j \in 0 .. (length \div ByteBits) - 1 |->
        [k \in 0 .. ByteBits - 1 |-> packet[ByteBits * j + k]]]

\* The three ways in which work() gathers a packet that ends in the buffer in.
\* The packet starts in this buffer.
FromInput(info, in) ==
    [i \in 0 .. info.length - 1 |-> in[info.offset - nitems_read + i]]

\* The packet starts before the write pointer: a piece of history, then input.
FromBeforePointer(info, in) ==
    LET start == d_write_ptr + info.offset - nitems_read
        len   == Min2(d_write_ptr - start, info.length)
    IN  [i \in 0 .. info.length - 1 |->
            IF i < len THEN d_history[start + i] ELSE in[i - len]]

\* A slip the properties must notice: past the end of the ring, straight to in.
FromAfterPointerNoTurn(info, in) ==
    LET start == d_write_ptr + info.offset + d_packetlen - 1 - nitems_read
        len   == Min2(HistoryItems - start, info.length)
    IN  [i \in 0 .. info.length - 1 |->
            IF i < len THEN d_history[start + i]
            ELSE IF i - len \in DOMAIN in THEN in[i - len] ELSE Unwritten]

\* The packet starts after the write pointer: it goes round the ring first.
FromAfterPointer(info, in) ==
    LET start == d_write_ptr + info.offset + d_packetlen - 1 - nitems_read
        len   == Min2(HistoryItems - start, info.length)
        len2  == Min2(d_write_ptr, info.length - len)
    IN  [i \in 0 .. info.length - 1 |->
            IF i < len THEN d_history[start + i]
            ELSE IF i < len + len2 THEN d_history[i - len]
            ELSE in[i - len - len2]]

d_packet(info, in) ==
    IF info.offset >= nitems_read THEN FromInput(info, in)
    ELSE IF d_write_ptr + info.offset >= nitems_read THEN FromBeforePointer(info, in)
    ELSE FromAfterPointer(info, in)

\* What goes into the PDU.
Payload(packet, length) == IF d_pack THEN pack_packet(packet, length) ELSE packet

make_pdu(info, in) == [offset |-> info.offset,
                       length |-> info.length,
                       data   |-> Payload(d_packet(info, in), info.length)]

\* A slip: the last item of the packet is looked for one call too late.
EndsInBufferLate(info, noutput_items) ==
    info.offset + info.length < nitems_read + noutput_items

\* The end of the packet is in the buffer of noutput_items items, or before it.
EndsInBuffer(info, noutput_items) ==
    info.offset + info.length <= nitems_read + noutput_items

------------------------------------------------------------------------------
\* A slip: a long input is copied from its first item.
update_history_first(in, noutput_items) ==
    LET len   == Min2(noutput_items, HistoryItems)
        len2  == IF d_write_ptr + len <= HistoryItems THEN len
                                                       ELSE HistoryItems - d_write_ptr
    IN  /\ d_history' = [j \in 0 .. HistoryItems - 1 |->
                            IF j \in d_write_ptr .. d_write_ptr + len2 - 1
                            THEN in[j - d_write_ptr]
                            ELSE IF j < len - len2 THEN in[len2 + j]
                            ELSE d_history[j]]
        /\ d_write_ptr' = IF len2 < len THEN len - len2
                          ELSE IF d_write_ptr + len = HistoryItems THEN 0
                          ELSE d_write_ptr + len

\* The last HistoryItems items of the input go into the ring.
update_history(in, noutput_items) ==
    LET start == IF noutput_items > HistoryItems THEN noutput_items - HistoryItems ELSE 0
        len   == Min2(noutput_items, HistoryItems)
        len2  == IF d_write_ptr + len <= HistoryItems THEN len
                                                       ELSE HistoryItems - d_write_ptr
    IN  /\ d_history' = [j \in 0 .. HistoryItems - 1 |->
                            IF j \in d_write_ptr .. d_write_ptr + len2 - 1
                            THEN in[start + j - d_write_ptr]
                            ELSE IF j < len - len2 THEN in[start + len2 + j]
                            ELSE d_history[j]]
        /\ d_write_ptr' = IF len2 < len THEN len - len2
                          ELSE IF d_write_ptr + len = HistoryItems THEN 0
                          ELSE d_write_ptr + len

\* The packets announced by the tags of the window: tag is a function from the
\* offsets of the syncword tags to the values of their length tags.
NewInfos(tag) == {[offset |-> o, length |-> PacketLength(tag[o])] : o \in DOMAIN tag}

\* A slip: a packet without items never leaves the list.
PendingEmpty(infos, noutput_items) ==
    {info \in infos : info.length = 0 \/ ~ EndsInBuffer(info, noutput_items)}

\* The packets kept for the next call.
Pending(infos, noutput_items) == {info \in infos : ~ EndsInBuffer(info, noutput_items)}

\* One call to work().
work(noutput_items, tag) ==
    LET in    == [k \in 0 .. noutput_items - 1 |-> nitems_read + k]
        infos == d_packet_infos \cup NewInfos(tag)
        out   == {make_pdu(info, in) :
                    info \in {i \in infos : EndsInBuffer(i, noutput_items)}}
    IN  /\ pdus' = out
        /\ published' = published \cup out
        /\ tagged' = tagged \cup NewInfos(tag)
        /\ d_packet_infos' = Pending(infos, noutput_items)
        /\ update_history(in, noutput_items)
        /\ nitems_read' = nitems_read + noutput_items
        /\ UNCHANGED <<d_packetlen, d_pack>>

\* The constructor refuses to pack packets that are not a whole number of bytes.
Init == /\ d_packetlen \in PacketLens
        /\ d_pack \in {p \in BOOLEAN : p => d_packetlen % ByteBits = 0}
        /\ nitems_read = 0
        /\ d_history = [j \in 0 .. HistoryItems - 1 |-> Unwritten]
        /\ d_write_ptr = 0
        /\ d_packet_infos = {}
        /\ pdus = {}
        /\ tagged = {}
        /\ published = {}

\* The offsets among which the syncword tags of the next n items are chosen.
Window(n) == nitems_read .. nitems_read + n - 1

Next == \E n \in 1 .. MaxChunk :
          /\ nitems_read + n <= MaxItems
          /\ \E starts \in SUBSET Window(n) :
               \E tag \in [starts -> LengthTags \cup {NoLengthTag}] :
                 /\ Cardinality(tagged) + Cardinality(starts) <= MaxTags
                 /\ work(n, tag)

Spec == Init /\ [][Next]_vars

------------------------------------------------------------------------------
Infos == [offset : Nat, length : Nat]

\* Types, with the sizes the vectors keep and the position of the write pointer.
TypeOK == /\ d_packetlen \in PacketLens
          /\ d_pack \in BOOLEAN
          /\ nitems_read \in Nat
          /\ d_history \in [0 .. HistoryItems - 1 -> Nat \cup {Unwritten}]
          /\ d_write_ptr \in Nat
          /\ d_write_ptr < HistoryItems \/ d_write_ptr = 0
          /\ d_packet_infos \subseteq Infos
          /\ tagged \subseteq Infos
          /\ \A p \in tagged : p.length <= d_packetlen

\* The slot of the item that arrived k items ago, for k in 1 .. HistoryItems.
Slot(k) == IF k <= d_write_ptr THEN d_write_ptr - k ELSE d_write_ptr - k + HistoryItems

\* The ring holds the last HistoryItems items of the stream, the newest one just
\* behind the write pointer, whatever the sizes of the buffers were: the two
\* copies of update_history (lib/fixedlen_to_pdu_impl.cc:171) never leave a gap.
HistoryHoldsStream ==
    \A k \in 1 .. HistoryItems : k <= nitems_read => d_history[Slot(k)] = nitems_read - k

\* A packet kept for a later call has not ended, and every item of it that has
\* been consumed is still in the ring when the call that completes it needs it.
PendingInHistory ==
    \A p \in d_packet_infos :
        /\ p.offset + p.length > nitems_read
        /\ \A o \in p.offset .. nitems_read - 1 :
              \E j \in DOMAIN d_history : d_history[j] = o

\* No packet is published a second time: a call publishes only packets that no
\* earlier call published (d_packet_infos forgets those that are out).
PublishedOnce == [][\A p \in pdus' : p \notin published]_vars

\* The block keeps the promise of TaggedPackets: every tagged packet comes out
\* with its own items, in the call that completes it, however the stream is cut.
Promise == INSTANCE TaggedPackets WITH packed <- d_pack, received <- nitems_read

KeepsPromise == Promise!PSpec
==============================================================================
