----------------------------- MODULE VarlenTagger -----------------------------
(***************************************************************************)
(* lib/varlen_packet_tagger_impl.cc: a stream of bits with sync tags goes   *)
(* in, the packets that start behind the length headers at the tags come    *)
(* out as a tagged stream.  Only the header is consumed with a packet, so   *)
(* that a sync tag inside what looked like a packet is still found.         *)
(*                                                                          *)
(* The length is an int, which may be negative where a header is not one    *)
(* that was sent.  It is below every max_packet_size, and memcpy() takes it *)
(* for a size_t: there is no buffer of that size, and the program ends.     *)
(***************************************************************************)
EXTENDS VarlenFramer

VARIABLES
    rx,             \* the input
    sync,           \* the offsets of its sync tags
    t_read,         \* nitems_read
    d_have_sync,
    t_required,     \* d_ninput_items_required
    t_min_noutput,  \* set by set_min_noutput_items()
    t_ended,        \* memcpy() has ended the program
    out,            \* the output
    out_tags        \* its tags; history: at is the offset of the sync tag they are for

taggerVars == <<rx, sync, t_read, d_have_sync, t_required, t_min_noutput, t_ended, out, out_tags>>

\* d_header_length, after the constructor.
t_header_length == IF setting.use_golay THEN GolayLength ELSE setting.length_field_size

\* The constructor asks for the length field that is not used with the Golay code.
TaggerInit == /\ rx = <<>>
              /\ sync = {}
              /\ t_read = 0
              /\ d_have_sync = FALSE
              /\ t_required = setting.length_field_size + 1
              /\ t_min_noutput = 1
              /\ t_ended = FALSE
              /\ out = <<>>
              /\ out_tags = {}

\* The packet length in the header at the front, an int; none if the Golay decoder
\* fails, which gets the header as a uint32_t.
PacketLens ==
    LET number == bits2len(rx, t_read + 1, t_header_length)
    IN  {AsInt(ByteBits * n) : n \in IF setting.use_golay THEN decode_golay24(number % (2 ^ IntBits))
                                     ELSE {number}}

\* Not at a sync tag: everything before the next one is dropped.
FindSync ==
    LET ahead == {s \in sync : s \in t_read .. Len(rx) - 1}
    IN  /\ d_have_sync' = (ahead # {})
        /\ t_read' = IF ahead = {} THEN Len(rx)
                     ELSE CHOOSE s \in ahead : \A u \in ahead : s <= u
        /\ UNCHANGED <<t_required, t_min_noutput, t_ended, out, out_tags>>

\* No packet starts here: one item is skipped.
SkipAhead == /\ d_have_sync' = FALSE
             /\ t_read' = t_read + 1
             /\ UNCHANGED <<t_required, t_min_noutput, t_ended, out, out_tags>>

\* A slip the properties must notice: the whole packet is consumed.
ConsumedWithPacket(packet_len) == t_header_length + packet_len

Consumed(packet_len) == t_header_length

WritePacket(packet_len) ==
    /\ out' = out \o SubSeq(rx, t_read + t_header_length + 1,
                            t_read + t_header_length + packet_len)
    /\ out_tags' = out_tags \cup {[offset |-> Len(out), value |-> packet_len, at |-> t_read]}
    /\ d_have_sync' = FALSE
    /\ t_read' = t_read + Consumed(packet_len)
    /\ t_required' = t_header_length + 1
    /\ UNCHANGED t_ended

\* memcpy() of a negative number of items: nothing is given and the call never returns.
EndProgram(packet_len) ==
    /\ t_required' = t_header_length + packet_len
    /\ t_ended' = TRUE
    /\ UNCHANGED <<t_read, d_have_sync, out, out_tags>>

\* At a sync tag, with room for noutput items.
AtSync(noutput) ==
    LET ninput == Len(rx) - t_read
        lens   == {n \in PacketLens : n <= setting.mtu}
    IN  IF ninput < t_header_length
        THEN UNCHANGED <<t_read, d_have_sync, t_required, t_min_noutput, t_ended, out, out_tags>>
        ELSE IF lens = {} THEN SkipAhead
        ELSE \E packet_len \in lens :
                LET required == t_header_length + packet_len
                IN  /\ t_min_noutput' = IF noutput < packet_len THEN packet_len ELSE 1
                    /\ IF noutput < packet_len \/ ninput < required
                       THEN /\ t_required' = required
                            /\ UNCHANGED <<t_read, d_have_sync, t_ended, out, out_tags>>
                       ELSE IF packet_len < 0 THEN EndProgram(packet_len)
                       ELSE WritePacket(packet_len)

\* general_work() with all the input there is and room for noutput items.
Tagger(noutput) ==
    /\ ~t_ended
    /\ Len(rx) - t_read >= t_required
    /\ IF d_have_sync THEN AtSync(noutput) ELSE FindSync
    /\ UNCHANGED <<rx, sync>>
==============================================================================
