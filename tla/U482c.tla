-------------------------------- MODULE U482c --------------------------------
(***************************************************************************)
(* lib/u482c_encode_impl.cc at one end of a link, lib/u482c_decode_impl.cc  *)
(* at the other.  A byte is [value, scrambled]: scrambling a byte twice     *)
(* gives the byte.  Convolutional coding, which the encoder refuses, and so *)
(* the Viterbi decoder are left out.                                        *)
(***************************************************************************)
EXTENDS ReedSolomon

CONSTANTS
    GolayBits,          \* wrong bits the Golay code corrects: 3
    U482cSettings,      \* records: scrambler, rs, flags_in_golay of the encoder,
                        \* d_scrambler and d_rs ("ON", "OFF", "AUTO") of the decoder
    U482cPayloads       \* the PDUs that go in, sequences of values

VARIABLES
    u_setting,          \* constructor arguments, constant
    u_sent,             \* the PDU given to the encoder, constant
    u_frame,            \* what is on the link: a sequence of no or one frame
    u_wrong_bits,       \* history: wrong bits of the length field
    u_wrong,            \* history: the wrong bytes behind it
    u_out               \* PDUs the decoder publishes

u482cVars == <<u_setting, u_sent, u_frame, u_wrong_bits, u_wrong, u_out>>

------------------------------------------------------------------------------
scramble(bytes) == [i \in DOMAIN bytes |-> [bytes[i] EXCEPT !.scrambled = ~@]]

Plain(values) == [i \in DOMAIN values |-> [value |-> values[i], scrambled |-> FALSE]]

\* The values of the bytes; one that is still scrambled is none that was sent.
Values(bytes) == [i \in DOMAIN bytes |-> IF bytes[i].scrambled THEN Wrong ELSE bytes[i].value]

\* The frame of a PDU, none if it is too long.
u482c_encode(s, values) ==
    LET coded == IF s.rs THEN encode_rs_8(values) ELSE values
    IN  IF Len(values) > (IF s.rs THEN RsInfoLen ELSE RsCodedLen) THEN <<>>
        ELSE <<[frame_len |-> Len(coded),
                scrambler |-> s.flags_in_golay /\ s.scrambler,
                rs        |-> s.flags_in_golay /\ s.rs,
                bytes     |-> IF s.scrambler THEN scramble(Plain(coded)) ELSE Plain(coded)]>>

\* What the decoder does is set, or is in the frame.
Does(setting, flag) == setting = "ON" \/ (setting = "AUTO" /\ flag)

\* The handler, for a frame whose length field has been read; no or one PDU comes out.
u482c_decode(s, frame) ==
    LET packet      == SubSeq(frame.bytes, 1, frame.frame_len)
        descrambled == IF Does(s.d_scrambler, frame.scrambler) THEN scramble(packet) ELSE packet
    IN  IF Does(s.d_rs, frame.rs)
        THEN SetToSeq({Plain(values) : values \in decode_rs_8(Values(descrambled), U482cPayloads)})
        ELSE <<descrambled>>

------------------------------------------------------------------------------
U482cInit == /\ u_setting \in U482cSettings
             /\ u_sent \in U482cPayloads
             /\ u_frame = u482c_encode(u_setting, u_sent)
             /\ u_wrong_bits = 0
             /\ u_wrong = {}
             /\ u_out = <<>>

\* The link.
WrongHeaderBit == /\ u_frame # <<>>
                  /\ u_wrong_bits <= GolayBits
                  /\ u_wrong_bits' = u_wrong_bits + 1
                  /\ UNCHANGED <<u_setting, u_sent, u_frame, u_wrong, u_out>>

WrongByte == /\ u_frame # <<>>
             /\ Cardinality(u_wrong) <= RsErrors
             /\ \E i \in DOMAIN u_frame[1].bytes \ u_wrong :
                   /\ u_wrong' = u_wrong \cup {i}
                   /\ u_frame' = <<[u_frame[1] EXCEPT !.bytes[i].value = Wrong]>>
             /\ UNCHANGED <<u_setting, u_sent, u_wrong_bits, u_out>>

\* The decoder gets the frame, and what comes behind it to the length of the longest.
DecodeFrame == /\ u_frame # <<>>
               /\ u_out' = IF u_wrong_bits <= GolayBits
                           THEN u482c_decode(u_setting, u_frame[1]) ELSE <<>>
               /\ u_frame' = <<>>
               /\ UNCHANGED <<u_setting, u_sent, u_wrong_bits, u_wrong>>

U482cNext == WrongHeaderBit \/ WrongByte \/ DecodeFrame

U482cSpec == U482cInit /\ [][U482cNext]_u482cVars

------------------------------------------------------------------------------
\* The decoder is told of a coding, or sees it in the frame.
Agrees(setting, used) ==
    setting = (IF used THEN "ON" ELSE "OFF") \/ (setting = "AUTO" /\ u_setting.flags_in_golay)

\* With no more errors than the codes correct the PDU comes out, if both ends agree and
\* it fits; but an empty one does not with Reed-Solomon coding, for the encoder sends
\* it and the decoder takes its 32 bytes for too short.
U482cCorrects ==
    LET agree    == /\ Agrees(u_setting.d_scrambler, u_setting.scrambler)
                    /\ Agrees(u_setting.d_rs, u_setting.rs)
        lengths  == IF u_setting.rs THEN 1 .. RsInfoLen ELSE 0 .. RsCodedLen
        repaired == Cardinality(u_wrong) <= (IF u_setting.rs THEN RsErrors ELSE 0)
    IN  (u_frame = <<>> /\ agree /\ repaired /\ u_wrong_bits <= GolayBits)
            => u_out = IF Len(u_sent) \in lengths THEN <<Plain(u_sent)>> ELSE <<>>
==============================================================================
