------------------------------- MODULE Viterbi -------------------------------
(***************************************************************************)
(* lib/viterbi/viterbi.cc: the convolutional codes of                       *)
(* lib/convolutional_encoder_impl.cc at one end of a link and of            *)
(* lib/viterbi_decoder_impl.cc at the other.  A bit is 0 or 1.              *)
(***************************************************************************)
EXTENDS Integers, SequencesExt, FiniteSetsExt

CONSTANTS
    Codes,              \* records constraint, polynomials
    MaxMessage,         \* bound: bits of a message
    MaxWrong,           \* bound: wrong bits
    MaxCut              \* bound: bits missing at the end

VARIABLES
    v_code,             \* constructor arguments of both blocks, constant
    v_sent,             \* the message, constant
    v_pdu,              \* the encoded bits on the link
    v_wrong,            \* history: the places of the wrong bits
    v_out               \* what the decoder publishes: a sequence of no or one message

viterbiVars == <<v_code, v_sent, v_pdu, v_wrong, v_out>>

------------------------------------------------------------------------------
Bit(word, i) == (word \div 2 ^ i) % 2

\* A state is the last constraint - 1 bits of input, the last one the highest.
States(c) == 0 .. 2 ^ (c.constraint - 1) - 1

NextState(c, state, input) == state \div 2 + input * 2 ^ (c.constraint - 2)

Output(c, state, input) ==
    LET register == state + input * 2 ^ (c.constraint - 1)
        taps(p)  == {k \in 0 .. c.constraint - 1 :
                        Bit(register, k) = 1 /\ Bit(p, c.constraint - 1 - k) = 1}
    IN  [j \in DOMAIN c.polynomials |-> Cardinality(taps(c.polynomials[j])) % 2]

Flush(c) == [i \in 1 .. c.constraint - 1 |-> 0]

\* The outputs for a run of bits.
Path(c, bits) ==
    FoldLeft(LAMBDA r, input : [state  |-> NextState(c, r.state, input),
                                output |-> r.output \o Output(c, r.state, input)],
             [state |-> 0, output |-> <<>>], bits).output

Encode(c, bits) == Path(c, bits \o Flush(c))

HammingDistance(a, b) == Quantify(DOMAIN a, LAMBDA i : a[i] # b[i])

------------------------------------------------------------------------------
Unreached == 2 ^ 30     \* std::numeric_limits<int>::max()

Steps(c, bits) == (Len(bits) + Len(c.polynomials) - 1) \div Len(c.polynomials)

\* Missing bits at the end are taken for zeros.
Filled(c, bits) ==
    bits \o [i \in 1 .. Steps(c, bits) * Len(c.polynomials) - Len(bits) |-> 0]

\* Where a state is in a column n of the trellis, which has one column behind the other.
Place(c, n, state) == Cardinality(States(c)) * n + state + 1

\* The metric of the better path to a state in column n, and the state it comes from.
PathMetric(c, bits, columns, n, state) ==
    LET source1 == (state % 2 ^ (c.constraint - 2)) * 2
        source2 == source1 + 1
        Metric(s) == columns[Place(c, n - 1, s)].metric
        Extended(s) ==
            IF Metric(s) = Unreached THEN Unreached
            ELSE Metric(s) + HammingDistance(bits, Output(c, s, state \div 2 ^ (c.constraint - 2)))
        m1 == Extended(source1)
        m2 == Extended(source2)
    IN  IF m1 <= m2 THEN [metric |-> m1, from |-> source1] ELSE [metric |-> m2, from |-> source2]

\* The trellis, with the metrics; column 0 is that before any bits.
Trellis(c, bits) ==
    LET p      == Len(c.polynomials)
        states == Cardinality(States(c))
        start  == [i \in 1 .. states |-> [metric |-> IF i = 1 THEN 0 ELSE Unreached, from |-> 0]]
        Column(columns, n) ==
            columns \o [i \in 1 .. states |->
                PathMetric(c, SubSeq(Filled(c, bits), p * (n - 1) + 1, p * n), columns, n, i - 1)]
    IN  FoldLeft(Column, start, [n \in 1 .. Steps(c, bits) |-> n])

\* The first of the states with the least metric is where the path ends.
Decode(c, bits) ==
    LET trellis == Trellis(c, bits)
        steps   == Steps(c, bits)
        Metric(s) == trellis[Place(c, steps, s)].metric
        least   == Min({Metric(s) : s \in States(c)})
        state[n \in 0 .. steps] ==
            IF n = steps THEN Min({s \in States(c) : Metric(s) = least})
            ELSE trellis[Place(c, n + 1, state[n + 1])].from
        decoded == [n \in 1 .. steps |-> state[n] \div 2 ^ (c.constraint - 2)]
    IN  IF steps < c.constraint - 1 THEN decoded
        ELSE SubSeq(decoded, 1, steps - (c.constraint - 1))

------------------------------------------------------------------------------
ViterbiInit == /\ v_code \in Codes
               /\ v_sent \in SeqOf({0, 1}, MaxMessage)
               /\ v_pdu = Encode(v_code, v_sent)
               /\ v_wrong = {}
               /\ v_out = <<>>

\* The link: wrong bits, in order, then missing ones.
WrongBit == /\ v_out = <<>>
            /\ Cardinality(v_wrong) < MaxWrong
            /\ \E i \in DOMAIN v_pdu :
                  /\ \A j \in v_wrong : j < i
                  /\ v_wrong' = v_wrong \cup {i}
                  /\ v_pdu' = [v_pdu EXCEPT ![i] = 1 - v_pdu[i]]
            /\ UNCHANGED <<v_code, v_sent, v_out>>

CutPdu == /\ v_out = <<>>
          /\ Len(v_pdu) > Len(Encode(v_code, v_sent)) - MaxCut
          /\ v_pdu' = Front(v_pdu)
          /\ UNCHANGED <<v_code, v_sent, v_wrong, v_out>>

ViterbiDecode == /\ v_out = <<>>
                 /\ v_out' = <<Decode(v_code, v_pdu)>>
                 /\ UNCHANGED <<v_code, v_sent, v_pdu, v_wrong>>

ViterbiNext == WrongBit \/ CutPdu \/ ViterbiDecode

ViterbiSpec == ViterbiInit /\ [][ViterbiNext]_viterbiVars

------------------------------------------------------------------------------
\* The decoder gives the beginning of an input whose outputs are nearest to what was
\* received, of all inputs: also of those that do not end with zeros, for the path may
\* end in any state.
NearestPath ==
    LET bits  == Filled(v_code, v_pdu)
        steps == Steps(v_code, v_pdu)
        inputs == [1 .. steps -> {0, 1}]
        Distance(input) == HammingDistance(bits, Path(v_code, input))
        least == Min({Distance(input) : input \in inputs})
    IN  \/ v_out = <<>>
        \/ steps < v_code.constraint - 1
        \/ \E input \in inputs :
              /\ Distance(input) = least
              /\ SubSeq(input, 1, steps - (v_code.constraint - 1)) = v_out[1]

\* One wrong bit anywhere in a message is corrected.
OneCorrected ==
    (v_out # <<>> /\ Len(v_pdu) = Len(Encode(v_code, v_sent)) /\ Cardinality(v_wrong) <= 1)
        => v_out[1] = v_sent

ViterbiCorrects == NearestPath /\ OneCorrected
==============================================================================
