------------------------------- MODULE Framing -------------------------------
(***************************************************************************)
(* How packets get across a link: the framers and encoders at one end and   *)
(* the deframers and decoders at the other.  A flowgraph has one of them,   *)
(* so one of them runs at a time.                                           *)
(***************************************************************************)
EXTENDS U482c, MobitexCoding, MobitexDeframer, Viterbi, Bch15

VARIABLE framing        \* which one it is, constant

------------------------------------------------------------------------------
CONSTANTS Modes, KissPayloads, Timestamps, MaxFrames, MaxLosses

VARIABLES mode, kiss_sent, stream, lost, losses, pdu, transpose, kiss_received

kissVars == <<mode, kiss_sent, stream, lost, losses, pdu, transpose, kiss_received>>

K == INSTANCE KissLink WITH sent <- kiss_sent, received <- kiss_received,
                            Payloads <- KissPayloads

------------------------------------------------------------------------------
CONSTANTS Frames, HdlcSettings, max_length, MaxSent, MaxLine, MaxHdlcFaults

VARIABLES hdlc_setting, hdlc_sent, position, d_last, line, inverted, hdlc_faults,
          previous, bits, ones, hdlc_received

hdlcVars == <<hdlc_setting, hdlc_sent, position, d_last, line, inverted, hdlc_faults,
              previous, bits, ones, hdlc_received>>

H == INSTANCE HdlcLink WITH setting <- hdlc_setting, sent <- hdlc_sent,
                            faults <- hdlc_faults, received <- hdlc_received,
                            Settings <- HdlcSettings, MaxFaults <- MaxHdlcFaults

------------------------------------------------------------------------------
CONSTANTS Settings, ItemBits, LongHeader, IntBits, GolayLength, GolayErrors, GolayWords, Payloads,
          MaxPackets, ASM, Capacity, MaxFaults

VARIABLES setting, packets, arrived, f_read, f_required, f_min_noutput, framed, framed_tags,
          rx, sync, t_read, d_have_sync, t_required, t_min_noutput, t_ended, out, out_tags,
          wrong_bits, wrong_tags

varlenVars == <<setting, packets, arrived, f_read, f_required, f_min_noutput, framed,
                framed_tags, rx, sync, t_read, d_have_sync, t_required, t_min_noutput,
                t_ended, out, out_tags, wrong_bits, wrong_tags>>

V == INSTANCE VarlenLink WITH ByteBits <- ItemBits

------------------------------------------------------------------------------
linkVars == <<kissVars, hdlcVars, varlenVars, mobitexVars>>
codecVars == <<u482cVars, rsVars, viterbiVars, crcVars, headerVars, fecVars, bchVars>>
framingVars == <<framing, linkVars, codecVars>>

\* What does not run stays in one of its initial states.
If(name, S) == IF framing = name THEN S ELSE {CHOOSE x \in S : TRUE}

FramingInit ==
    /\ framing \in {"KISS", "HDLC", "VARLEN", "MOBITEX", "U482C", "REED-SOLOMON",
                   "CONVOLUTIONAL", "CRC", "MOBITEX HEADER", "MOBITEX FEC", "BCH"}
    /\ mode \in If("KISS", Modes)
    /\ hdlc_setting \in If("HDLC", HdlcSettings)
    /\ setting \in If("VARLEN", Settings)
    /\ packets \in If("VARLEN", SeqOf(Payloads, MaxPackets))
    /\ u_setting \in If("U482C", U482cSettings)
    /\ u_sent \in If("U482C", U482cPayloads)
    /\ rs_interleave \in If("REED-SOLOMON", RsInterleaves)
    /\ rs_sent \in If("REED-SOLOMON", RsMessages)
    /\ v_code \in If("CONVOLUTIONAL", Codes)
    /\ v_sent \in If("CONVOLUTIONAL", SeqOf({0, 1}, MaxMessage))
    /\ crc_setting \in If("CRC", CrcSettings)
    /\ crc_sent \in If("CRC", Messages)
    /\ h_setting \in If("MOBITEX HEADER", HeaderSettings)
    /\ h_sent \in If("MOBITEX HEADER", SentHeaders(h_setting))
    /\ fec_message \in If("MOBITEX FEC", MobitexBlocks)
    /\ bch_d \in If("BCH", {3, 5, 7})
    /\ bch_sent \in If("BCH", CodeWords(bch_d))
    /\ K!Init /\ H!Init /\ V!Init /\ MobitexInit
    /\ U482cInit /\ RsInit /\ ViterbiInit /\ CrcInit /\ HeaderInit /\ FecInit /\ BchInit

OthersThanKiss == UNCHANGED <<framing, hdlcVars, varlenVars, mobitexVars, codecVars>>
OthersThanHdlc == UNCHANGED <<framing, kissVars, varlenVars, mobitexVars, codecVars>>
OthersThanVarlen == UNCHANGED <<framing, kissVars, hdlcVars, mobitexVars, codecVars>>
OthersThanMobitex == UNCHANGED <<framing, kissVars, hdlcVars, varlenVars, codecVars>>

FramingNext ==
    \/ framing = "KISS" /\ K!Next /\ OthersThanKiss
    \/ framing = "HDLC" /\ H!Next /\ OthersThanHdlc
    \/ framing = "VARLEN" /\ V!Next /\ OthersThanVarlen
    \/ framing = "MOBITEX" /\ MobitexNext /\ OthersThanMobitex
    \/ framing = "U482C" /\ U482cNext
       /\ UNCHANGED <<framing, linkVars, rsVars, viterbiVars, crcVars, headerVars, fecVars, bchVars>>
    \/ framing = "REED-SOLOMON" /\ RsNext
       /\ UNCHANGED <<framing, linkVars, u482cVars, viterbiVars, crcVars, headerVars, fecVars, bchVars>>
    \/ framing = "CONVOLUTIONAL" /\ ViterbiNext
       /\ UNCHANGED <<framing, linkVars, u482cVars, rsVars, crcVars, headerVars, fecVars, bchVars>>
    \/ framing = "CRC" /\ CrcNext
       /\ UNCHANGED <<framing, linkVars, u482cVars, rsVars, viterbiVars, headerVars, fecVars, bchVars>>
    \/ framing = "MOBITEX HEADER" /\ HeaderNext
       /\ UNCHANGED <<framing, linkVars, u482cVars, rsVars, viterbiVars, crcVars, fecVars, bchVars>>
    \/ framing = "MOBITEX FEC" /\ FecNext
       /\ UNCHANGED <<framing, linkVars, u482cVars, rsVars, viterbiVars, crcVars, headerVars, bchVars>>
    \/ framing = "BCH" /\ BchNext
       /\ UNCHANGED <<framing, linkVars, u482cVars, rsVars, viterbiVars, crcVars, headerVars, fecVars>>

\* Each block of a link is called again and again, but possibly never with more room
\* than it has asked for.  Nothing is asked of behaviours with a fault
\* on that link, for which nothing is said to happen in the end.
Called(A) == framing = "VARLEN" /\ V!Faultless /\ A

FramingSpec ==
    /\ FramingInit /\ [][FramingNext]_framingVars
    /\ WF_varlenVars(Called(V!FramerInput))
    /\ WF_varlenVars(Called(V!FramerWork(f_min_noutput)))
    /\ WF_varlenVars(Called(V!Transmit))
    /\ WF_varlenVars(Called(V!TaggerWork(t_min_noutput)))
    /\ WF_mobitexVars(framing = "MOBITEX" /\ CheckBlock)
    /\ WF_mobitexVars(framing = "MOBITEX" /\ SetCrcOk)
    /\ WF_mobitexVars(framing = "MOBITEX" /\ SetCrcFail)
    /\ WF_mobitexVars(framing = "MOBITEX" /\ Reframe)

------------------------------------------------------------------------------
\* On a link without faults what goes in comes out, in its order and nothing else:
\* whatever bytes it is made of, however it is cut into calls and whatever the buffers
\* hold (pdu_to_kiss and kiss_to_pdu, hdlc_framer and hdlc_deframer,
\* varlen_packet_framer and varlen_packet_tagger).
LosslessInOrder == K!LosslessInOrder /\ H!LosslessInOrder /\ V!LosslessInOrder

\* What arrives whole comes out, whatever was lost or damaged before it: a KISS frame
\* behind another whole one, an HDLC frame between two flags, a frame of
\* varlen_packet_framer with its sync tag.
IntactFrameArrives == K!Resynchronises /\ H!IntactFrameArrives /\ V!IntactFrameArrives

\* Sync tags where none should be do not keep varlen_packet_tagger from the frames behind
\* them, as it consumes no more than a header.
FalseSyncTolerated == framing = "VARLEN" => V!FalseSyncTolerated

\* Neither varlen_packet_framer nor varlen_packet_tagger waits for more than will come.
AllArrive == framing = "VARLEN" => V!AllArrive

\* The errors a code is made for are corrected, in any places: those of U482C frames, of
\* interleaved Reed-Solomon code words, of convolutional codes (as far as the nearest path
\* is the right one), of the headers and the data blocks of Mobitex frames, and of the
\* words of S-NET (as far as bch15.py does).
CorrectsErrors == U482cCorrects /\ RsCorrects /\ ViterbiCorrects
                  /\ HeaderCorrects /\ FecCorrects /\ BchCorrects
==============================================================================
