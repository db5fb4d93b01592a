------------------------------ MODULE MCFraming ------------------------------
(***************************************************************************)
(* The instance of Framing that TLC explores.                               *)
(***************************************************************************)
EXTENDS Framing

KissBytes == INSTANCE Kiss

\* KISS: the three settings used in the repository; payloads that are empty, that look
\* like escapes and that start with a byte that looks like the control byte of data.
MCModes == {[control_byte |-> TRUE,  include_timestamp |-> TRUE],
            [control_byte |-> TRUE,  include_timestamp |-> FALSE],
            [control_byte |-> FALSE, include_timestamp |-> FALSE]}
MCKissPayloads == {<<>>, <<16, KissBytes!FEND>>, <<KissBytes!FESC, KissBytes!TFEND>>}
MCTimestamps == {<<16>>, <<KissBytes!FESC>>}

\* HDLC: no data; data whose FCS ends in five ones, in front of the flag; all ones,
\* longer than max_length.  The FCS are those the CRC of the framer gives.
MCFrames == {[data |-> <<>>,         fcs |-> <<0, 0>>],
             [data |-> <<136>>,      fcs |-> <<56, 248>>],
             [data |-> <<255, 255>>, fcs |-> <<255, 255>>]}

\* Flags between frames that are shared, that are not, and no flag before the first.
MCHdlcSettings ==
    {[preamble_bytes |-> 1, postamble_bytes |-> 0, check_fcs |-> TRUE],
     [preamble_bytes |-> 1, postamble_bytes |-> 1, check_fcs |-> FALSE],
     [preamble_bytes |-> 0, postamble_bytes |-> 1, check_fcs |-> TRUE]}

\* Variable length packets: a byte is two bits here, and an int, a long header and a Golay
\* code word are four.  The settings with which the two blocks agree on the header.
\* Headers that were not sent so may be any number: 3 is above the mtu, 4 to 7 give a
\* negative length in bits, and 8 to 15 one without the highest bit.
MCSettings ==
    {[use_golay |-> FALSE, length_field_size |-> 4, msb_first |-> TRUE, asm_len |-> 1, mtu |-> 4],
     [use_golay |-> TRUE, length_field_size |-> 1, msb_first |-> FALSE, asm_len |-> 1, mtu |-> 4]}
MCPayloads == {<<1, 0>>, <<0, 1, 1, 1>>}

\* Lengths 1 and 2: the words 0001 and 1100.
MCGolayWords == 1 :> 1 @@ 2 :> 12

\* U482C: all the settings; payloads that are empty, that are of the greatest length
\* with and without Reed-Solomon coding and that are too long.  A value is a sequence
\* so that it can be compared with a parity symbol.
MCU482cSettings == [scrambler : BOOLEAN, rs : BOOLEAN, flags_in_golay : BOOLEAN,
                    d_scrambler : {"ON", "OFF", "AUTO"}, d_rs : {"ON", "OFF", "AUTO"}]
MCU482cPayloads ==
    LET values == << <<1>>, <<2>>, <<1>>, <<1>>, <<2>>, <<2>> >>
    IN  {SubSeq(values, 1, n) : n \in 0 .. 6} \cup {<< <<2>>, <<2>> >>}
MCWrong == <<0, <<>>>>

\* CRC: all the settings, for two polynomials that do not read the same backwards, with
\* and without a header.  A byte has two bits and the CRC two bytes.
MCCrcSettings == [num_bits : {4}, poly : {{0, 1}, {0, 3}}, initial_value : {{0, 2}},
                  final_xor : {{}, {1}}, input_reflected : BOOLEAN,
                  result_reflected : BOOLEAN, swap_endianness : BOOLEAN,
                  discard_crc : BOOLEAN, skip_header_bytes : {0, 1}]
MCMessages == SeqOf({{}, {0}, {0, 1}}, 2) \cup {<<{1}, {0}, {0, 1}>>}

\* Reed-Solomon: no byte, one, as many as fit, more; one code word or two.
MCRsMessages ==
    LET values == << <<1>>, <<2>>, <<1>>, <<1>>, <<2>>, <<2>>, <<1>>, <<1>> >>
    IN  {SubSeq(values, 1, n) : n \in 0 .. 8}

\* Convolutional codes: those of hsu_sat1_deframer.py and ax5043_deframer.py.
MCCodes == {[constraint |-> 3, polynomials |-> <<7, 5>>], [constraint |-> 5, polynomials |-> <<25, 23>>]}

\* Mobitex: every byte; the constructor arguments for the three variants, with the
\* callsign known or not.  Callsigns that differ in one bit.
MCMobitexBlocks == {<<byte>> : byte \in SUBSET (0 .. 7)} \cup {<<{}, {0, 7}>>}
MCCallsign == <<{0}, {}>>
MCHeaderSettings == [variant : {"default", "BEESAT-1", "BEESAT-9"}, callsign : {NoCallsign, MCCallsign},
                     drop_invalid_control : BOOLEAN, callsign_threshold : {2}]
MCMobitexControls == {<<{0, 1, 7}, {2, 4}>>}
MCCallsigns == {MCCallsign, <<{0}, {0}>>}
==============================================================================
