------------------------------ MODULE VarlenLink ------------------------------
(***************************************************************************)
(* varlen_packet_framer at one end of a link and varlen_packet_tagger at    *)
(* the other.  Between them the bits are sent, and a correlator puts a sync *)
(* tag behind each syncword.  Bits may be received wrong, the correlator    *)
(* may miss a syncword and may see one where there is none.                 *)
(***************************************************************************)
EXTENDS VarlenTagger

CONSTANTS
    Capacity,       \* room for items in the buffers behind the two blocks
    MaxFaults       \* bound: faults of the link

VARIABLES
    wrong_bits,     \* history: the offsets of the items that are received wrong
    wrong_tags      \* history: those where a sync tag is missing, or is wrong

faults == <<wrong_bits, wrong_tags>>
vars == <<setting, framerVars, taggerVars, faults>>

Init == /\ setting \in Settings
        /\ FramerInit
        /\ TaggerInit
        /\ wrong_bits = {}
        /\ wrong_tags = {}

\* The header of a frame starts behind its syncword.
HeaderAt(t) == t.offset + setting.asm_len

Synced == {HeaderAt(t) : t \in framed_tags}

\* The next item is received, with or without a sync tag at it.
Receive(item, tagged) ==
    /\ rx' = Append(rx, item)
    /\ sync' = IF tagged THEN sync \cup {Len(rx)} ELSE sync
    /\ UNCHANGED <<setting, framerVars, t_read, d_have_sync, t_required, t_min_noutput,
                   t_ended, out, out_tags>>

Faultless == wrong_bits = {} /\ wrong_tags = {}

MayFail == Cardinality(wrong_bits) + Cardinality(wrong_tags) < MaxFaults

Transmit == /\ Len(rx) < Len(framed)
            /\ Receive(framed[Len(rx) + 1], Len(rx) \in Synced)
            /\ UNCHANGED faults

WrongBit == /\ Len(rx) < Len(framed)
            /\ MayFail
            /\ wrong_bits' = wrong_bits \cup {Len(rx)}
            /\ Receive(1 - framed[Len(rx) + 1], Len(rx) \in Synced)
            /\ UNCHANGED wrong_tags

WrongTag == /\ Len(rx) < Len(framed)
            /\ MayFail
            /\ wrong_tags' = wrong_tags \cup {Len(rx)}
            /\ Receive(framed[Len(rx) + 1], Len(rx) \notin Synced)
            /\ UNCHANGED wrong_bits

\* The scheduler gives as little room as the block has asked for, or all there is.
Rooms(min_noutput) == {min_noutput, Capacity}

FramerInput == ItemArrives /\ UNCHANGED <<setting, taggerVars, faults>>

FramerWork(noutput) == Framer(noutput) /\ UNCHANGED <<setting, taggerVars, faults>>

TaggerWork(noutput) == Tagger(noutput) /\ UNCHANGED <<setting, framerVars, faults>>

Next == \/ FramerInput
        \/ \E noutput \in Rooms(f_min_noutput) : FramerWork(noutput)
        \/ Transmit
        \/ WrongBit
        \/ WrongTag
        \/ \E noutput \in Rooms(t_min_noutput) : TaggerWork(noutput)

Spec == Init /\ [][Next]_vars

------------------------------------------------------------------------------
\* The tag with k - 1 others in front of it, where place gives a place to each.
Nth(tags, k, place(_)) ==
    CHOOSE t \in tags : Cardinality({u \in tags : place(u) < place(t)}) = k - 1

\* The packets the tagger gives, in their order.
Given == [k \in 1 .. Cardinality(out_tags) |->
             LET o == Nth(out_tags, k, LAMBDA t : t.at)
             IN  SubSeq(out, o.offset + 1, o.offset + o.value)]

\* On a link without faults the tagger gives the packets of the framer, each with its
\* tag, in their order, whatever the buffers hold when the blocks are called.
LosslessInOrder == Faultless => IsPrefix(Given, packets) /\ out = FlattenSeq(Given)

\* All of them in the end: neither block waits for more than will come.
AllArrive == []Faultless => <>(Given = packets)

\* Frame number k of the output of the framer.
FrameTag(k) == Nth(framed_tags, k, LAMBDA t : t.offset)

\* Its header and packet are received as they were written, and no other sync tag is
\* where the header of a wrong packet could hide that of this one.
Intact(k) ==
    LET t == FrameTag(k)
    IN  /\ HeaderAt(t) \in sync
        /\ (HeaderAt(t) .. t.offset + t.value - 1) \cap wrong_bits = {}
        /\ \A s \in sync : s \notin HeaderAt(t) - t_header_length + 1 .. HeaderAt(t) - 1

\* The tagger gives its packet.
Arrives(k) ==
    \E o \in out_tags :
        /\ o.at = HeaderAt(FrameTag(k))
        /\ SubSeq(out, o.offset + 1, o.offset + o.value) = packets[k]

Framed == 1 .. Cardinality(framed_tags)

\* The header the tagger is at is not one that the framer wrote, or not as it wrote it.
NoHeaderHere ==
    \A t \in framed_tags :
        t_read = HeaderAt(t)
            => (t_read .. t_read + t_header_length - 1) \cap wrong_bits # {}

\* A frame that is received right with its sync tag gives its packet, also when a
\* sync tag was seen before it where there was none and what followed was taken for
\* a packet; unless the program has ended before it, which only happens at a header
\* that was not sent so, and never with the Golay code.
IntactFrameArrives ==
    /\ \A k \in Framed : (Intact(k) /\ t_read > HeaderAt(FrameTag(k))) => Arrives(k)
    /\ t_ended => NoHeaderHere /\ ~setting.use_golay

Received(k) == FrameTag(k).offset + FrameTag(k).value <= Len(rx)

\* What the comment on consume_each(d_header_length) says it is for: "multiple syncs per
\* 'packet', in case the sync was incorrectly tagged".  Where nothing but sync tags is
\* wrong, a frame with its own sync tag gives its packet; it is not lost with the program.
FalseSyncTolerated ==
    wrong_bits = {} =>
        \A k \in Framed :
            (Intact(k) /\ (t_read > HeaderAt(FrameTag(k)) \/ (t_ended /\ Received(k)))) => Arrives(k)
==============================================================================
