-------------------------------- MODULE Words --------------------------------
(***************************************************************************)
(* A word of bits is the set of the places of its ones, the place of the    *)
(* bit of weight 1 being 0.                                                 *)
(***************************************************************************)
EXTENDS Integers, SequencesExt

\* a ^ b
Xor(a, b) == (a \ b) \cup (b \ a)

\* word << n and word >> n
ShiftLeft(word, n) == {i + n : i \in word}
ShiftRight(word, n) == {i - n : i \in {j \in word : j >= n}}

Odd(S) == Cardinality(S) % 2 = 1

\* The sum of f at the elements of a set.
XorOver(S, f(_)) == {i \in UNION {f(k) : k \in S} : Odd({k \in S : i \in f(k)})}
==============================================================================
