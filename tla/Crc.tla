--------------------------------- MODULE Crc ---------------------------------
(***************************************************************************)
(* lib/crc.cc between lib/crc_append_impl.cc at one end of a link and       *)
(* lib/crc_check_impl.cc at the other, with the same settings.  A message   *)
(* is a sequence of bytes, a byte a word of ByteBits bits (8 in the code).  *)
(***************************************************************************)
EXTENDS Words

CONSTANTS
    ByteBits,           \* bits of a byte
    CrcSettings,        \* records of the constructor arguments
    Messages            \* the PDUs that go in

VARIABLES
    crc_setting,        \* constructor arguments of both blocks, constant
    crc_sent,           \* the PDU given to crc_append, constant
    crc_pdu,            \* the PDU on its way: a sequence of no or one message
    crc_damage,         \* history: the indices of the damaged bytes
    crc_out             \* what crc_check publishes: records port, data

crcVars == <<crc_setting, crc_sent, crc_pdu, crc_damage, crc_out>>

ASSUME WholeBytes == \A s \in CrcSettings : s.num_bits % ByteBits = 0

Byte == SUBSET (0 .. ByteBits - 1)

------------------------------------------------------------------------------
reflect(s, word) == {s.num_bits - 1 - i : i \in word}

\* The register after n steps from one that has only its last bit set.
Stepped(s) ==
    LET mask == 0 .. s.num_bits - 1
        step[n \in 0 .. ByteBits] ==
            CASE n = 0 -> IF s.input_reflected THEN {0} ELSE {s.num_bits - 1}
              [] n > 0 /\ s.input_reflected ->
                    Xor(ShiftRight(step[n - 1], 1), IF 0 \in step[n - 1] THEN reflect(s, s.poly) ELSE {})
              [] n > 0 /\ ~s.input_reflected ->
                    Xor(ShiftLeft(step[n - 1], 1), IF s.num_bits - 1 \in step[n - 1] THEN s.poly ELSE {})
                    \cap mask
    IN  step

\* The entry of d_table for a byte: each of its bits has been added to the entries
\* there were.
d_table(s) ==
    [x \in Byte |-> XorOver(x, LAMBDA k :
        Stepped(s)[IF s.input_reflected THEN ByteBits - k ELSE k + 1])]

\* A slip the properties must notice: a byte goes in with the first bit of the register.
NextRemByTop(s, rem, byte) ==
    Xor(d_table(s)[Xor(ShiftRight(rem, s.num_bits - ByteBits) \cap 0 .. ByteBits - 1, byte)],
        IF s.input_reflected THEN ShiftRight(rem, ByteBits)
        ELSE ShiftLeft(rem, ByteBits) \cap 0 .. s.num_bits - 1)

NextRem(s, rem, byte) ==
    IF s.input_reflected
    THEN Xor(d_table(s)[Xor(rem, byte) \cap 0 .. ByteBits - 1], ShiftRight(rem, ByteBits))
    ELSE Xor(d_table(s)[Xor(ShiftRight(rem, s.num_bits - ByteBits), byte)],
             ShiftLeft(rem, ByteBits) \cap 0 .. s.num_bits - 1)

compute(s, data) ==
    LET rem == FoldLeft(LAMBDA r, byte : NextRem(s, r, byte), s.initial_value, data)
    IN  Xor(IF s.input_reflected # s.result_reflected THEN reflect(s, rem) ELSE rem,
            s.final_xor)

NumBytes(s) == s.num_bits \div ByteBits

\* The CRC as bytes, the last one first if they are swapped.
CrcBytes(s, crc) ==
    LET lsb == [i \in 1 .. NumBytes(s) |->
                   ShiftRight(crc, ByteBits * (i - 1)) \cap 0 .. ByteBits - 1]
    IN  IF s.swap_endianness THEN lsb ELSE Reverse(lsb)

Behind(s, message) == SubSeq(message, s.skip_header_bytes + 1, Len(message))

\* A slip the properties must notice: a header is not skipped.
crc_append_whole(s, message) ==
    IF Len(message) <= s.skip_header_bytes THEN <<>>
    ELSE <<message \o CrcBytes(s, compute(s, message))>>

\* The handlers; no or one message comes out.
crc_append(s, message) ==
    IF Len(message) <= s.skip_header_bytes THEN <<>>
    ELSE <<message \o CrcBytes(s, compute(s, Behind(s, message)))>>

crc_check(s, message) ==
    LET data == SubSeq(message, 1, Len(message) - NumBytes(s))
        crc  == SubSeq(message, Len(message) - NumBytes(s) + 1, Len(message))
    IN  IF Len(message) <= s.skip_header_bytes + NumBytes(s) THEN <<>>
        ELSE <<[port |-> IF crc = CrcBytes(s, compute(s, Behind(s, data))) THEN "ok" ELSE "fail",
                data |-> IF s.discard_crc THEN data ELSE message]>>

------------------------------------------------------------------------------
CrcInit == /\ crc_setting \in CrcSettings
           /\ crc_sent \in Messages
           /\ crc_pdu = crc_append(crc_setting, crc_sent)
           /\ crc_damage = {}
           /\ crc_out = <<>>

\* The link: one byte arrives as another one.
DamageByte == /\ crc_pdu # <<>>
              /\ crc_damage = {}
              /\ \E i \in DOMAIN crc_pdu[1] : \E byte \in Byte \ {crc_pdu[1][i]} :
                    /\ crc_pdu' = <<[crc_pdu[1] EXCEPT ![i] = byte]>>
                    /\ crc_damage' = {i}
              /\ UNCHANGED <<crc_setting, crc_sent, crc_out>>

CheckCrc == /\ crc_pdu # <<>>
            /\ crc_out' = crc_out \o crc_check(crc_setting, crc_pdu[1])
            /\ crc_pdu' = <<>>
            /\ UNCHANGED <<crc_setting, crc_sent, crc_damage>>

CrcNext == DamageByte \/ CheckCrc

CrcSpec == CrcInit /\ [][CrcNext]_crcVars

------------------------------------------------------------------------------
\* The value a shift register gives to which the bits go one by one, the highest of a
\* byte first or, reflected, the lowest.
ShiftRegister(s, data) ==
    LET places == IF s.input_reflected THEN [j \in 1 .. ByteBits |-> j - 1]
                  ELSE [j \in 1 .. ByteBits |-> ByteBits - j]
        stream == FlattenSeq([i \in DOMAIN data |->
                                 [j \in 1 .. ByteBits |-> places[j] \in data[i]]])
        Shift(r, bit) == Xor(ShiftLeft(r, 1) \cap 0 .. s.num_bits - 1,
                             IF (s.num_bits - 1 \in r) # bit THEN s.poly ELSE {})
        register == FoldLeft(Shift, IF s.input_reflected THEN reflect(s, s.initial_value)
                                    ELSE s.initial_value, stream)
    IN  Xor(IF s.result_reflected THEN reflect(s, register) ELSE register, s.final_xor)

\* The table gives for each setting and message what the register would.
CrcIsRemainder == compute(crc_setting, crc_sent) = ShiftRegister(crc_setting, crc_sent)

\* What goes in comes out of the port ok, for each setting; a wrong byte behind the
\* header, in the data or in the CRC, sends it to the port fail, and a wrong byte in the
\* header is not noticed.
CrcFindsDamage ==
    LET covered == {i \in crc_damage : i > crc_setting.skip_header_bytes}
        long    == Len(crc_sent) > crc_setting.skip_header_bytes
    IN  crc_pdu = <<>> =>
            /\ Len(crc_out) = IF long THEN 1 ELSE 0
            /\ long => crc_out[1].port = IF covered = {} THEN "ok" ELSE "fail"
            /\ long /\ crc_setting.discard_crc /\ crc_damage = {} => crc_out[1].data = crc_sent
==============================================================================
