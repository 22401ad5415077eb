------------------------------- MODULE Bytes -------------------------------
(***************************************************************************)
(* Byte strings, as sequences of numbers, and the result of what fails.    *)
(***************************************************************************)
EXTENDS Integers, Sequences, SequencesExt

Byte == 0..255
Zeros(n) == [i \in 1..n |-> 0]
Take(b, n) == SubSeq(b, 1, n)
Drop(b, n) == SubSeq(b, n + 1, Len(b))

(* Exclusive or of two bytes, and of the bytes of two strings; w is the weight of a bit. *)
Bit(x, w) == (x \div w) % 2
XorByte(a, b) ==
    LET bit(w) == IF Bit(a, w) = Bit(b, w) THEN 0 ELSE w
    IN  bit(1) + bit(2) + bit(4) + bit(8) + bit(16) + bit(32) + bit(64) + bit(128)
XorBytes(a, b) == [i \in 1..Len(a) |-> XorByte(a[i], b[i])]

Failed == [ok |-> FALSE]
=============================================================================
