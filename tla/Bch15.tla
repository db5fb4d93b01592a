-------------------------------- MODULE Bch15 --------------------------------
(***************************************************************************)
(* python/bch15.py: the decoder of the BCH codes of length 15 (S-NET).      *)
(*                                                                          *)
(* An element of GF(16) is a word of four bits.  Place j of a code word is   *)
(* the element bits[j] of the array.                                        *)
(***************************************************************************)
EXTENDS Words

CONSTANT MaxShifts      \* bound: shifts of the polynomial in a code word

VARIABLES
    bch_d,              \* the code, constant
    bch_sent,           \* the code word that was sent, constant
    bch_errors,         \* history: the places of the wrong bits
    bch_bits,           \* the word received, which the decoder corrects in place
    bch_result          \* "none" before decoding, then what the decoder returns

bchVars == <<bch_d, bch_sent, bch_errors, bch_bits, bch_result>>

Xor3(a, b, c) == Xor(Xor(a, b), c)

\* exp_table; bit i of an element has the weight 2^i.
exp_table ==
    <<{3}, {2}, {1}, {0}, {2, 3}, {1, 2}, {0, 1}, {0, 2, 3}, {1, 3}, {0, 2}, {1, 2, 3},
      {0, 1, 2}, {0, 1, 2, 3}, {0, 1, 3}, {0, 3}>>
Power(n) == exp_table[(n % 15) + 1]
log_table(x) == CHOOSE n \in 0 .. 14 : exp_table[n + 1] = x

gf_mult(x, y) == IF x = {} \/ y = {} THEN {} ELSE Power(log_table(x) + log_table(y))
gf_inv(x) == Power(15 - log_table(x))
Product3(x, y, z) == gf_mult(gf_mult(x, y), z)

compute_syndrome(bits, j) == XorOver(bits, LAMBDA k : Power(k * j))

Syndromes(bits, d) ==
    LET s(j) == compute_syndrome(bits, j)
    IN  SubSeq(<<s(0), s(1), s(2), s(3), s(4), s(5)>>, 1, d - 1)

\* The determinant of the Peterson-Gorenstein-Zierler matrix, s[0] in the code is s[1].
Determinant(s) ==
    CASE Len(s) = 2 -> s[1]
      [] Len(s) = 4 -> Xor(gf_mult(s[1], s[3]), gf_mult(s[2], s[2]))
      [] Len(s) = 6 -> Xor(Xor(Product3(s[1], s[3], s[5]), Product3(s[3], s[3], s[3])),
                            Xor(Product3(s[2], s[2], s[5]), Product3(s[4], s[4], s[1])))

\* The coefficients of the error locator polynomial, times the determinant.
Numerators(s) ==
    CASE Len(s) = 2 -> <<s[2], {}, {}>>
      [] Len(s) = 4 -> <<Xor(gf_mult(s[1], s[4]), gf_mult(s[3], s[2])),
                         Xor(gf_mult(s[3], s[3]), gf_mult(s[4], s[2])), {}>>
      [] Len(s) = 6 ->
          <<Xor(Xor3(Product3(s[1], s[3], s[6]), Product3(s[2], s[4], s[4]), Product3(s[5], s[2], s[3])),
                 Xor3(Product3(s[3], s[3], s[4]), Product3(s[2], s[2], s[6]), Product3(s[1], s[4], s[5]))),
            Xor(Xor3(Product3(s[1], s[5], s[5]), Product3(s[2], s[3], s[6]), Product3(s[4], s[4], s[3])),
                 Xor3(Product3(s[3], s[3], s[5]), Product3(s[2], s[4], s[5]), Product3(s[1], s[4], s[6]))),
            Xor(Xor3(Product3(s[4], s[3], s[5]), Product3(s[2], s[4], s[6]), Product3(s[5], s[4], s[3])),
                 Xor3(Product3(s[3], s[3], s[6]), Product3(s[2], s[5], s[5]), Product3(s[4], s[4], s[4])))>>

\* A slip the properties must notice: a matrix that is singular is a failure.
UsableAll(s) == s

\* The syndromes left when two are thrown away as long as the matrix is singular.
Usable(s) == IF Len(s) > 2 /\ Determinant(s) = {}
             THEN IF Len(s) = 6 /\ Determinant(SubSeq(s, 1, 4)) = {}
                  THEN SubSeq(s, 1, 2) ELSE SubSeq(s, 1, Len(s) - 2)
             ELSE s

\* The places of the errors: the roots of the polynomial, however many.
compute_error_locations(s) ==
    LET inv_det_S == gf_inv(Determinant(s))
        n == Numerators(s)
        L == <<gf_mult(n[1], inv_det_S), gf_mult(n[2], inv_det_S), gf_mult(n[3], inv_det_S)>>
    IN  {j \in 0 .. 14 : Xor(Xor3(Power(0), gf_mult(L[1], Power(15 - j)),
                                  gf_mult(L[2], Power(30 - 2 * j))),
                             gf_mult(L[3], Power(45 - 3 * j))) = {}}

\* The word in place and the value returned.
decode_bch15(bits, d) ==
    LET syndromes == Syndromes(bits, d)
        usable    == Usable(syndromes)
    IN  IF \A j \in DOMAIN syndromes : syndromes[j] = {} THEN [bits |-> bits, result |-> "True"]
        ELSE IF Determinant(usable) = {} THEN [bits |-> bits, result |-> "False"]
        ELSE [bits |-> Xor(bits, compute_error_locations(usable)), result |-> "True"]

\* The polynomials of the codes, by their distance (d); place n stands for the power n.
Generators == <<{}, {}, {0, 1, 4}, {}, {0, 4, 6, 7, 8}, {}, {0, 1, 2, 4, 5, 8, 10}>>

\* The words of the code with the distance d: the sums of shifts of its polynomial.
CodeWords(d) ==
    LET degree == CHOOSE n \in Generators[d] : \A i \in Generators[d] : i <= n
    IN  {XorOver(shifts, LAMBDA n : ShiftLeft(Generators[d], n)) :
            shifts \in {k \in SUBSET (0 .. 14 - degree) : Cardinality(k) <= MaxShifts}}

BchInit == /\ bch_d \in {3, 5, 7}
           /\ bch_sent \in CodeWords(bch_d)
           /\ bch_errors = {}
           /\ bch_bits = bch_sent
           /\ bch_result = "none"

\* The link: wrong bits, less than half as many as the distance.
BchError == /\ bch_result = "none"
            /\ 2 * (Cardinality(bch_errors) + 1) < bch_d
            /\ \E j \in 0 .. 14 \ bch_errors :
                  /\ bch_errors' = bch_errors \cup {j}
                  /\ bch_bits' = Xor(bch_bits, {j})
            /\ UNCHANGED <<bch_d, bch_sent, bch_result>>

BchDecode == /\ bch_result = "none"
             /\ LET r == decode_bch15(bch_bits, bch_d)
                IN  bch_bits' = r.bits /\ bch_result' = r.result
             /\ UNCHANGED <<bch_d, bch_sent, bch_errors>>

BchNext == BchError \/ BchDecode

BchSpec == BchInit /\ [][BchNext]_bchVars

------------------------------------------------------------------------------
Corrected == bch_bits = bch_sent /\ bch_result = "True"

\* A word with an even number of ones is corrected from any errors that are less than
\* half as many as the distance, one with an odd number from one error less: the
\* number of ones is the first of the syndromes (j = 0), and only for the words that
\* are even does the decoder know what it must be.
BchCorrects ==
    (bch_result # "none"
     /\ 2 * Cardinality(bch_errors) + (IF Odd(bch_sent) THEN 2 ELSE 0) < bch_d)
        => Corrected

\* "The following values of (n,k,d) are supported" (python/bch15.py:108): a code with
\* the distance d corrects less than d / 2 errors, in each of its words.
BchSupported == bch_result # "none" => Corrected
==============================================================================
