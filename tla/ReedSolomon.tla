----------------------------- MODULE ReedSolomon -----------------------------
(***************************************************************************)
(* lib/encode_rs_impl.cc with PDUs at one end of a link,                    *)
(* lib/decode_rs_impl.cc at the other.  libfec does the coding; the blocks  *)
(* distribute a PDU over several code words and shorten these.              *)
(*                                                                          *)
(* The zeros a code word is filled up with are not sent and never wrong, so *)
(* a code word here has only the symbols behind them.                       *)
(***************************************************************************)
EXTENDS Integers, SequencesExt, FiniteSetsExt

CONSTANTS
    RsCodedLen,         \* d_rs_codeword.size(): 255 in the CCSDS code
    RsInfoLen,          \* less d_nroots: 223
    RsErrors,           \* errors a code word may have: 16
    RsInterleaves,      \* values of d_interleave
    RsMessages,         \* the PDUs given to the encoder, sequences of symbols
    Wrong               \* a symbol that was received wrong

VARIABLES
    rs_interleave,      \* d_interleave of both blocks, constant
    rs_sent,            \* the PDU given to the encoder, constant
    rs_pdu,             \* what is on the link: a sequence of no or one PDU
    rs_wrong,           \* history: the places of the wrong symbols
    rs_out              \* what the decoder publishes: records data, rs_errors

rsVars == <<rs_interleave, rs_sent, rs_pdu, rs_wrong, rs_out>>

ASSUME ShorterThanCoded == RsInfoLen < RsCodedLen
ASSUME PositiveInterleaves == RsInterleaves \subseteq Nat \ {0}

d_nroots == RsCodedLen - RsInfoLen

------------------------------------------------------------------------------
\* The parity symbols depend on all the data.
encode_rs_8(data) == data \o [k \in 1 .. d_nroots |-> <<k, data>>]

Differing(word, data) ==
    Quantify(DOMAIN word, LAMBDA i : word[i] # encode_rs_8(data)[i])

\* The data of the code word that is near enough, if there is one; some data there
\* must be.
decode_rs_8(word, S) ==
    {data \in S \ {<<>>} : Len(data) + d_nroots = Len(word) /\ Differing(word, data) <= RsErrors}

------------------------------------------------------------------------------
\* Symbol k of code word j.
CodeWord(msg, n, j) == [k \in 1 .. Len(msg) \div n |-> msg[j + (k - 1) * n]]

Interleaved(words, n) ==
    [i \in 1 .. n * Len(words[1]) |-> words[((i - 1) % n) + 1][((i - 1) \div n) + 1]]

\* The handlers; no or one PDU comes out.
encode_rs(n, msg) ==
    IF Len(msg) % n # 0 \/ Len(msg) \div n > RsInfoLen THEN <<>>
    ELSE <<Interleaved([j \in 1 .. n |-> encode_rs_8(CodeWord(msg, n, j))], n)>>

\* What libfec can find, for which there is only what may have been sent.
Candidates(n) == {CodeWord(msg, n, j) : msg \in {m \in RsMessages : Len(m) % n = 0}, j \in 1 .. n}

decode_rs(n, msg) ==
    LET near == [j \in 1 .. n |-> decode_rs_8(CodeWord(msg, n, j), Candidates(n))]
        data == [j \in 1 .. n |-> CHOOSE d \in near[j] : TRUE]
    IN  IF \/ Len(msg) % n # 0
           \/ Len(msg) \div n \notin d_nroots + 1 .. RsCodedLen
           \/ \E j \in 1 .. n : near[j] = {}
        THEN <<>>
        ELSE <<[data |-> Interleaved(data, n),
                rs_errors |-> MapThenSumSet(LAMBDA j : Differing(CodeWord(msg, n, j), data[j]),
                                            1 .. n)]>>

------------------------------------------------------------------------------
RsInit == /\ rs_interleave \in RsInterleaves
          /\ rs_sent \in RsMessages
          /\ rs_pdu = encode_rs(rs_interleave, rs_sent)
          /\ rs_wrong = {}
          /\ rs_out = <<>>

\* The link.
RsWrongSymbol == /\ rs_pdu # <<>>
                 /\ Cardinality(rs_wrong) <= RsErrors * rs_interleave
                 /\ \E i \in DOMAIN rs_pdu[1] \ rs_wrong :
                       /\ rs_wrong' = rs_wrong \cup {i}
                       /\ rs_pdu' = <<[rs_pdu[1] EXCEPT ![i] = Wrong]>>
                 /\ UNCHANGED <<rs_interleave, rs_sent, rs_out>>

RsDecode == /\ rs_pdu # <<>>
            /\ rs_out' = decode_rs(rs_interleave, rs_pdu[1])
            /\ rs_pdu' = <<>>
            /\ UNCHANGED <<rs_interleave, rs_sent, rs_wrong>>

RsNext == RsWrongSymbol \/ RsDecode

RsSpec == RsInit /\ [][RsNext]_rsVars

------------------------------------------------------------------------------
\* The PDU comes out, with the number of its wrong symbols, if no code word has more of
\* them than the code corrects: a burst may be as long as that times the interleave
\* depth.  If one has more, no PDU comes out, whatever the other code words give.  An
\* empty PDU does not come out, for the encoder sends the parity symbols of
\* no data and the decoder takes them for too short.
RsCorrects ==
    LET n         == rs_interleave
        lengths   == {n * k : k \in 1 .. RsInfoLen}
        correctable == \A j \in 0 .. n - 1 : Cardinality({i \in rs_wrong : i % n = j}) <= RsErrors
        result    == [data |-> rs_sent, rs_errors |-> Cardinality(rs_wrong)]
    IN  rs_pdu = <<>> =>
            rs_out = IF correctable /\ Len(rs_sent) \in lengths THEN <<result>> ELSE <<>>
==============================================================================
