---------------------------- MODULE MobitexCoding ----------------------------
(***************************************************************************)
(* The blocks of the Mobitex deframer that correct errors:                  *)
(* python/mobitex_to_datablocks.py those of the header of a frame,          *)
(* python/mobitex_fec_block.py those of a data block, both with the (12,8)  *)
(* code of python/mobitex_fec.py.                                           *)
(***************************************************************************)
EXTENDS Crc

CONSTANTS
    MobitexBlocks,      \* data blocks that are sent, sequences of bytes
    HeaderSettings,     \* records of the constructor arguments of mobitex_to_datablocks
    MobitexControls,    \* the two control bytes that are sent
    Callsigns,          \* callsigns, sequences of the bytes of the Crc module
    MaxHeaderErrors     \* bound: wrong bits in a header

VARIABLES
    fec_message,        \* the data block, constant
    fec_codewords,      \* its code words as received
    fec_errors,         \* history: the wrong bits, pairs of code word and place
    fec_decoded         \* what mobitex_fec publishes: a sequence of no or one record

fecVars == <<fec_message, fec_codewords, fec_errors, fec_decoded>>

VARIABLES
    h_setting,          \* constructor arguments, constant
    h_sent,             \* the header as it was sent, constant
    h_packet,           \* the header as received: code words and callsign with CRC
    h_errors,           \* history: the wrong bits, pairs of part and place
    h_out               \* what mobitex_to_datablocks gives: none, "drop" or a record

headerVars == <<h_setting, h_sent, h_packet, h_errors, h_out>>

------------------------------------------------------------------------------
\* The rows of FEC_MATRIX_12b; those of FEC_MATRIX_8b are their first eight columns.
FEC_MATRIX_12b == <<{11, 10, 9, 7, 6, 3}, {11, 10, 8, 5, 4, 2},
                    {11, 9, 8, 7, 5, 1}, {10, 9, 8, 6, 4, 0}>>
FEC_MATRIX_8b == [i \in 1 .. 4 |-> ShiftRight(FEC_MATRIX_12b[i], 4)]

\* The parities of the bits under the masks, that of the first mask in place 3.
Parities(word, masks) == {4 - i : i \in {k \in 1 .. 4 : Odd(word \cap masks[k])}}

SYNDROME_TABLE == [s \in {Parities({pos}, FEC_MATRIX_12b) : pos \in 0 .. 11} |->
                      CHOOSE pos \in 0 .. 11 : Parities({pos}, FEC_MATRIX_12b) = s]

encode(message) == ShiftLeft(message, 4) \cup Parities(message, FEC_MATRIX_8b)

\* The code word, corrected, and the status.
decode(codeword) ==
    LET syndrome == Parities(codeword, FEC_MATRIX_12b)
    IN  IF syndrome = {} THEN [word |-> codeword, status |-> "NO_ERROR"]
        ELSE IF syndrome \notin DOMAIN SYNDROME_TABLE
        THEN [word |-> codeword, status |-> "ERROR_UNCORRECTABLE"]
        ELSE [word |-> Xor(codeword, {SYNDROME_TABLE[syndrome]}), status |-> "ERROR_CORRECTED"]

Message(codeword) == ShiftRight(codeword, 4)

\* How many of the results have a status.
CountOf(results, status) == Quantify(DOMAIN results, LAMBDA i : results[i].status = status)

------------------------------------------------------------------------------
(* mobitex_fec *)

fec_block(codewords) ==
    LET results == [i \in DOMAIN codewords |-> decode(codewords[i])]
    IN  [packet_out |-> [i \in DOMAIN codewords |-> Message(results[i].word)],
         errors_corrected |-> CountOf(results, "ERROR_CORRECTED"),
         errors_uncorrected |-> CountOf(results, "ERROR_UNCORRECTABLE")]

FecInit == /\ fec_message \in MobitexBlocks
           /\ fec_codewords = [i \in DOMAIN fec_message |-> encode(fec_message[i])]
           /\ fec_errors = {}
           /\ fec_decoded = <<>>

\* The link: up to two bits of the block are wrong.
FecError == /\ fec_decoded = <<>>
            /\ Cardinality(fec_errors) < 2
            /\ \E i \in DOMAIN fec_codewords, pos \in 0 .. 11 :
                  /\ <<i, pos>> \notin fec_errors
                  /\ fec_errors' = fec_errors \cup {<<i, pos>>}
                  /\ fec_codewords' = [fec_codewords EXCEPT ![i] = Xor(@, {pos})]
            /\ UNCHANGED <<fec_message, fec_decoded>>

FecDecode == /\ fec_decoded = <<>>
             /\ fec_decoded' = <<fec_block(fec_codewords)>>
             /\ UNCHANGED <<fec_message, fec_codewords, fec_errors>>

FecNext == FecError \/ FecDecode

FecSpec == FecInit /\ [][FecNext]_fecVars

\* "detect/correct single-bit errors in the combined 12-bit words"
\* (python/mobitex_fec.py:16): a code word with one wrong bit is corrected, and one with
\* two is at least counted.
FecCorrects ==
    LET wrong == {e[1] : e \in fec_errors}
    IN  fec_decoded # <<>> =>
            /\ fec_decoded[1].errors_corrected + fec_decoded[1].errors_uncorrected
                   = Cardinality(wrong)
            /\ Cardinality(wrong) = Cardinality(fec_errors) =>
                   /\ fec_decoded[1].packet_out = fec_message
                   /\ fec_decoded[1].errors_uncorrected = 0

------------------------------------------------------------------------------
(* mobitex_to_datablocks *)

NoCallsign == <<>>

\* _crc_fn, with the number of bits and the polynomial of the instance.
_crc_fn == [num_bits |-> 2 * ByteBits, poly |-> {0, 1}, initial_value |-> {}, final_xor |-> {},
            input_reflected |-> FALSE, result_reflected |-> FALSE, swap_endianness |-> FALSE]

\* A callsign and its CRC, as one run of bytes.
WithCrc(callsign) == callsign \o CrcBytes(_crc_fn, compute(_crc_fn, callsign))

CallsignOf(bytes) == SubSeq(bytes, 1, Len(bytes) - 2)

\* Bit i of a run of bytes is bit i % ByteBits of byte i // ByteBits.
Flipped(bytes, flips) ==
    [k \in DOMAIN bytes |-> Xor(bytes[k], {i % ByteBits : i \in {f \in flips : f \div ByteBits = k - 1}})]

hamming_distance(a, b) == MapThenSumSet(LAMBDA k : Cardinality(Xor(a[k], b[k])), DOMAIN a)

\* The results for a callsign that is not known, the flips being tried in any order of
\* those of equal number: what gives a right CRC with the least number of flips.
decode_unknown_callsign(bytes, max_bit_flips) ==
    LET places   == 0 .. Len(bytes) * ByteBits - 1
        Valid(n) == {flips \in kSubset(n, places) :
                        Flipped(bytes, flips) = WithCrc(CallsignOf(Flipped(bytes, flips)))}
        least    == {n \in 0 .. max_bit_flips :
                        Valid(n) # {} /\ \A k \in 0 .. n - 1 : Valid(k) = {}}
    IN  UNION {{[bytes |-> Flipped(bytes, flips), errors |-> n] : flips \in Valid(n)} : n \in least}

\* The results for a callsign that is known: the reference itself, if it is near enough.
compare_expected_callsign(bytes, callsign_ref, threshold) ==
    LET bit_errors == hamming_distance(bytes, WithCrc(callsign_ref))
    IN  IF bit_errors > threshold THEN {}
        ELSE {[bytes |-> WithCrc(callsign_ref), errors |-> bit_errors]}

IsAscii(bytes) == \A k \in DOMAIN bytes : ByteBits - 1 \notin bytes[k]

\* The callsigns with which the frame goes on; none if it is dropped.
callsigns(s, bytes) ==
    IF s.variant = "BEESAT-1" THEN {[bytes |-> NoCallsign, errors |-> 0]}
    ELSE {r \in (IF s.callsign # NoCallsign
                 THEN compare_expected_callsign(bytes, s.callsign, s.callsign_threshold)
                 ELSE decode_unknown_callsign(bytes, s.callsign_threshold)) :
             IsAscii(CallsignOf(r.bytes))}

\* Both control bytes with their FEC, corrected if both can be.
decode_control(codewords) ==
    LET results == <<decode(codewords[1]), decode(codewords[2])>>
    IN  IF CountOf(results, "ERROR_UNCORRECTABLE") > 0
        THEN [codewords |-> codewords, valid |-> FALSE, errors |-> -1]
        ELSE [codewords |-> <<results[1].word, results[2].word>>, valid |-> TRUE,
              errors |-> CountOf(results, "ERROR_CORRECTED")]

\* The five lowest bits of the first control byte, and one.
num_blocks(s, codewords) ==
    IF s.variant = "BEESAT-9" THEN 32
    ELSE 1 + MapThenSumSet(LAMBDA i : 2 ^ i, Message(codewords[1]) \cap 0 .. 4)

\* What the first data block brings with it.
first_block(s, control, callsign) ==
    [frame_header |-> [control |-> control.codewords, callsign |-> callsign.bytes],
     num_blocks |-> num_blocks(s, control.codewords),
     control_fec_valid |-> control.valid,
     control_errors_corrected |-> control.errors,
     callsign_bit_errors |-> callsign.errors]

------------------------------------------------------------------------------
SentHeaders(s) ==
    {[control |-> <<encode(control[1]), encode(control[2])>>,
      callsign |-> IF s.variant = "BEESAT-1" THEN NoCallsign ELSE WithCrc(callsign)] :
        control \in MobitexControls, callsign \in Callsigns}

HeaderInit == /\ h_setting \in HeaderSettings
              /\ h_sent \in SentHeaders(h_setting)
              /\ h_packet = h_sent
              /\ h_errors = {}
              /\ h_out = <<>>

\* The link.
HeaderError ==
    /\ h_out = <<>>
    /\ Cardinality(h_errors) < MaxHeaderErrors
    /\ \/ \E i \in {1, 2}, pos \in 0 .. 11 :
             /\ <<i, pos>> \notin h_errors
             /\ h_errors' = h_errors \cup {<<i, pos>>}
             /\ h_packet' = [h_packet EXCEPT !.control[i] = Xor(@, {pos})]
       \/ \E pos \in 0 .. Len(h_packet.callsign) * ByteBits - 1 :
             /\ <<3, pos>> \notin h_errors
             /\ h_errors' = h_errors \cup {<<3, pos>>}
             /\ h_packet' = [h_packet EXCEPT !.callsign = Flipped(@, {pos})]
    /\ UNCHANGED <<h_setting, h_sent, h_out>>

\* handle_msg(), up to the data blocks, which are cut into pieces of equal size.
ToDatablocks ==
    /\ h_out = <<>>
    /\ LET control == decode_control(h_packet.control)
           results == callsigns(h_setting, h_packet.callsign)
       IN  IF (h_setting.drop_invalid_control /\ ~control.valid) \/ results = {}
           THEN h_out' = <<"drop">>
           ELSE \E callsign \in results :
                   h_out' = <<"blocks", first_block(h_setting, control, callsign)>>
    /\ UNCHANGED <<h_setting, h_sent, h_packet, h_errors>>

HeaderNext == HeaderError \/ ToDatablocks

HeaderSpec == HeaderInit /\ [][HeaderNext]_headerVars

ErrorsIn(part) == Cardinality({e \in h_errors : e[1] = part})

\* A header with one wrong bit in each control byte and its FEC, and as many in the
\* callsign as the threshold allows if it is known and one if it is not, comes out as it
\* was sent, with the number of errors.
HeaderRepaired ==
    LET known    == h_setting.callsign # NoCallsign
        allowed  == IF known THEN h_setting.callsign_threshold ELSE 1
        expected == h_setting.variant = "BEESAT-1" \/ ~known \/ h_sent.callsign = WithCrc(h_setting.callsign)
    IN  (h_out # <<>> /\ expected /\ ErrorsIn(1) <= 1 /\ ErrorsIn(2) <= 1 /\ ErrorsIn(3) <= allowed)
            => h_out = <<"blocks",
                  [frame_header |-> h_sent, num_blocks |-> num_blocks(h_setting, h_sent.control),
                   control_fec_valid |-> TRUE,
                   control_errors_corrected |-> ErrorsIn(1) + ErrorsIn(2),
                   callsign_bit_errors |-> ErrorsIn(3)]>>

\* With up to two wrong bits in each, a header is not taken for one without errors.
DamageNoticed ==
    (h_out # <<>> /\ h_out[1] = "blocks" /\ h_errors # {})
        => \/ ~h_out[2].control_fec_valid
           \/ h_out[2].control_errors_corrected + h_out[2].callsign_bit_errors > 0

HeaderCorrects == HeaderRepaired /\ DamageNoticed
==============================================================================
