---------------------------- MODULE WireData_proofs ----------------------------
(***************************************************************************)
(* The data of a session, for any sizes, any group, any hash function and  *)
(* any cipher: what is packed, framed, padded, encrypted or raised to a    *)
(* power has its type and its size, and is read back as it was written.    *)
(*                                                                         *)
(* A string of bytes is kept abstract in the proofs: facts about where a   *)
(* byte is come from the lemmas on concatenation and slices below.  What a *)
(* definition with recursion gives exists by RecursionExists, which        *)
(* restricts the recursion to a set, as does each induction.               *)
(***************************************************************************)
EXTENDS Wire, SequenceTheorems, FiniteSetTheorems, WellFoundedInduction, TLAPS

-----------------------------------------------------------------------------
(* Induction, for a set of numbers. *)

Strings(n) == [1..n -> Byte]

(* The induction over lengths: a set of numbers has a least element. *)
LEMMA NatLeast ==
    ASSUME NEW T, T \subseteq Nat, T # {}
    PROVE  \E x \in T : \A y \in T : x <= y
<1> DEFINE R == {ss \in Nat \X Nat : ss[1] < ss[2]}
<1>1. IsWellFoundedOn(R, Nat)
    BY NatLessThanWellFounded DEF OpToRel
<1> HIDE DEF R
<1>2. PICK x \in T : \A y \in T : ~ (<<y, x>> \in R)
    BY <1>1, WFMin
<1>3. ASSUME NEW y \in T
      PROVE  x <= y
    <2>1. x \in Nat /\ y \in Nat
        OBVIOUS
    <2>2. y < x => <<y, x>> \in R
        BY <2>1 DEF R
    <2> QED
        BY <1>2, <2>1, <2>2
<1> QED
    BY <1>3

-----------------------------------------------------------------------------
(* Numbers and bytes. *)

(* What is assumed of the sizes, in the form the proofs use. *)
LEMMA Sizes ==
    /\ AddressSize \in Nat \ {0} /\ HashSize \in Nat \ {0} /\ HeaderSize \in Nat
    /\ MaxUser \in Nat /\ MaxA \in Nat /\ MaxB \in Nat /\ MaxSalt \in 0..255 /\ MaxM1 \in Nat /\ MaxM2 \in Nat
    /\ MinUser \in Nat \ {0} /\ MinA \in Nat \ {0} /\ MinB \in Nat \ {0} /\ MinSalt \in Nat \ {0}
    /\ MinM1 \in Nat \ {0} /\ MinM2 \in Nat \ {0}
BY SizesAssumption DEF HeaderSize

(* Byte, MaxNumber and the weights of the digits in figures. *)
LEMMA Limits ==
    /\ \A x : x \in Byte <=> x \in Nat /\ x <= 255
    /\ MaxNumber \in Nat /\ 16777215 <= MaxNumber /\ MaxNumber <= 16777215
    /\ Weight[1] = 1 /\ Weight[2] = 256 /\ Weight[3] = 65536
<1>1. \A x : x \in Byte <=> x \in Nat /\ x <= 255
    BY SMT DEF Byte
<1>2. MaxNumber \in Nat
    BY SMT DEF MaxNumber
<1>3. 16777215 <= MaxNumber /\ MaxNumber <= 16777215
    BY SMT DEF MaxNumber
<1> QED
    BY <1>1, <1>2, <1>3, SMT DEF Weight

(* A string of n bytes is a sequence of them. *)
LEMMA StringsAreSeqs == ASSUME NEW n \in Nat, NEW b PROVE b \in Strings(n) <=> b \in Seq(Byte) /\ Len(b) = n
<1>1. ASSUME b \in Strings(n) PROVE b \in Seq(Byte) /\ Len(b) = n
    BY <1>1 DEF Strings
<1>2. ASSUME b \in Seq(Byte), Len(b) = n PROVE b \in Strings(n)
    BY <1>2, LenProperties DEF Strings
<1> QED
    BY <1>1, <1>2

(* A number of w bytes has w bytes. *)
LEMMA EncodeUintBytes ==
    ASSUME NEW n \in Int, NEW w \in Nat
    PROVE  EncodeUint(n, w) \in Seq(Byte) /\ Len(EncodeUint(n, w)) = w
<1>1. ASSUME NEW i \in 1..w
      PROVE  (IF w - i > 2 THEN 0 ELSE (n \div Weight[w - i + 1]) % 256) \in Byte
    <2>1. CASE w - i > 2
        BY <2>1, Limits, SMT
    <2>2. CASE w - i = 0
        BY <2>2, Limits, SMT
    <2>3. CASE w - i = 1
        BY <2>3, Limits, SMT
    <2>4. CASE w - i = 2
        BY <2>4, Limits, SMT
    <2> QED
        BY <2>1, <2>2, <2>3, <2>4
<1>2. EncodeUint(n, w) \in Strings(w)
    BY <1>1 DEF EncodeUint, Strings
<1> QED
    BY <1>2, StringsAreSeqs

(* What is read is a number that Value tells apart. *)
LEMMA ValueNat ==
    ASSUME NEW b \in Seq(Byte)
    PROVE  Value(b) \in 0..MaxNumber
<1> DEFINE digit(i) == IF i <= Len(b) THEN b[Len(b) - i + 1] * Weight[i] ELSE 0
<1>1. ASSUME NEW i \in 1..3
      PROVE  digit(i) \in Nat /\ digit(i) <= 255 * Weight[i]
    <2>1. CASE i <= Len(b)
        <3>1. b[Len(b) - i + 1] \in Byte
            BY <2>1, ElementOfSeq, LenProperties
        <3>2. i = 1 \/ i = 2 \/ i = 3
            OBVIOUS
        <3> QED
            BY <2>1, <3>1, <3>2, Limits, SMT
    <2>2. CASE ~ (i <= Len(b))
        BY <2>2, Limits, SMT
    <2> QED
        BY <2>1, <2>2
<1>2. /\ digit(1) \in Nat /\ digit(1) <= 255
      /\ digit(2) \in Nat /\ digit(2) <= 65280
      /\ digit(3) \in Nat /\ digit(3) <= 16711680
    <2>1. 1 \in 1..3 /\ 2 \in 1..3 /\ 3 \in 1..3
        OBVIOUS
    <2> HIDE DEF digit
    <2> QED
        BY <1>1, <2>1, Limits, SMT
<1> HIDE DEF digit
<1>3. digit(1) + digit(2) + digit(3) \in 0..MaxNumber
    BY <1>2, Limits, SMT
<1>4. MaxNumber \in 0..MaxNumber
    BY Limits, SMT
<1> QED
    BY <1>3, <1>4 DEF Value, digit

(* A number is made of its digits. *)
LEMMA ThreeDigits ==
    ASSUME NEW n \in Nat, n <= 16777215
    PROVE  /\ (n % 256) + 256 * ((n \div 256) % 256) + 65536 * ((n \div 65536) % 256) = n
           /\ n < 65536 => (n \div 65536) % 256 = 0
BY SMT

FitsIn(n, w) == w \in Nat /\ n \in 0..MaxNumber /\ (w >= 3 \/ (w = 2 /\ n < 65536))

(* Value reads what EncodeUint writes. *)
LEMMA ValueOfUint ==
    ASSUME NEW n, NEW w, FitsIn(n, w)
    PROVE  Value(EncodeUint(n, w)) = n
<1> w \in Nat /\ n \in 0..MaxNumber /\ (w >= 3 \/ (w = 2 /\ n < 65536))
    BY DEF FitsIn
<1> DEFINE b == EncodeUint(n, w)
           digit(i) == IF i <= Len(b) THEN b[Len(b) - i + 1] * Weight[i] ELSE 0
<1>0. n \in Nat /\ Len(b) = w
    BY EncodeUintBytes, Limits, SMT
<1>1. \A i \in 1..(w - 3) : b[i] = 0
    BY DEF EncodeUint
<1>2. b[w] = n % 256 /\ b[w - 1] = (n \div 256) % 256
    <2>1. b[w] = (n \div 1) % 256
        BY Limits, SMT DEF EncodeUint
    <2>2. b[w - 1] = (n \div 256) % 256
        BY Limits, SMT DEF EncodeUint
    <2> QED
        BY <1>0, <2>1, <2>2
<1>3. w >= 3 => b[w - 2] = (n \div 65536) % 256
    BY Limits, SMT DEF EncodeUint
<1>4. digit(1) = n % 256 /\ digit(2) = 256 * ((n \div 256) % 256)
    BY <1>0, <1>2, Limits, SMT
<1>5. digit(3) = 65536 * ((n \div 65536) % 256)
    <2>1. CASE w >= 3
        BY <2>1, <1>0, <1>3, Limits, SMT
    <2>2. CASE w = 2 /\ n < 65536
        <3>1. n <= 16777215
            BY <1>0, Limits, SMT
        <3>2. (n \div 65536) % 256 = 0
            BY <1>0, <2>2, <3>1, ThreeDigits
        <3>3. digit(3) = 0
            BY <1>0, <2>2, SMT
        <3> QED
            BY <3>2, <3>3, SMT
    <2> QED
        BY <2>1, <2>2
<1> HIDE DEF digit, b
<1>6. digit(1) + digit(2) + digit(3) = n
    <2>1. n \in Nat /\ n <= 16777215
        BY <1>0, Limits, SMT
    <2>2. (n % 256) + 256 * ((n \div 256) % 256) + 65536 * ((n \div 65536) % 256) = n
        BY <2>1, ThreeDigits, SMT
    <2> QED
        BY <1>4, <1>5, <2>2, SMT
<1> QED
    BY <1>0, <1>1, <1>6 DEF Value, digit, b

-----------------------------------------------------------------------------
(* Strings of bytes: what is put together and what is cut out. *)

(* Two strings, one behind the other: which byte is where. *)
LEMMA BytesConcat ==
    ASSUME NEW a \in Seq(Byte), NEW b \in Seq(Byte)
    PROVE  /\ a \o b \in Seq(Byte) /\ Len(a) \in Nat /\ Len(b) \in Nat
           /\ Len(a \o b) = Len(a) + Len(b)
           /\ \A i \in 1..(Len(a) + Len(b)) : (a \o b)[i] = IF i <= Len(a) THEN a[i] ELSE b[i - Len(a)]
BY ConcatProperties, LenProperties

(* A slice of a string. *)
LEMMA BytesSub ==
    ASSUME NEW b \in Seq(Byte), NEW m \in Nat \ {0}, NEW n \in Int, n <= Len(b)
    PROVE  /\ SubSeq(b, m, n) \in Seq(Byte)
           /\ Len(SubSeq(b, m, n)) = IF m <= n THEN n - m + 1 ELSE 0
           /\ \A i \in 1..(n - m + 1) : SubSeq(b, m, n)[i] = b[m + i - 1]
<1>1. \A i \in m..n : b[i] \in Byte
    BY ElementOfSeq, LenProperties
<1> QED
    BY <1>1, SubSeqProperties

(* The first n bytes, and what is behind them. *)
LEMMA BytesTakeDrop ==
    ASSUME NEW b \in Seq(Byte), NEW n \in 0..Len(b)
    PROVE  /\ Len(b) \in Nat
           /\ Take(b, n) \in Seq(Byte) /\ Len(Take(b, n)) = n
           /\ Drop(b, n) \in Seq(Byte) /\ Len(Drop(b, n)) = Len(b) - n
           /\ \A i \in 1..n : Take(b, n)[i] = b[i]
           /\ \A i \in 1..(Len(b) - n) : Drop(b, n)[i] = b[n + i]
           /\ Take(b, n) \o Drop(b, n) = b
<1>1. Len(b) \in Nat /\ n \in Nat /\ n <= Len(b) /\ n + 1 \in Nat \ {0}
    BY LenProperties
<1>2. Take(b, n) \in Seq(Byte) /\ Len(Take(b, n)) = n /\ \A i \in 1..n : Take(b, n)[i] = b[i]
    BY <1>1, BytesSub DEF Take
<1>3. /\ Drop(b, n) \in Seq(Byte) /\ Len(Drop(b, n)) = Len(b) - n
      /\ \A i \in 1..(Len(b) - n) : Drop(b, n)[i] = b[n + i]
    BY <1>1, BytesSub DEF Drop
<1>4. Take(b, n) \o Drop(b, n) = b
    <2>1. /\ Take(b, n) \o Drop(b, n) \in Seq(Byte) /\ Len(Take(b, n) \o Drop(b, n)) = Len(b)
          /\ \A i \in 1..Len(b) : (Take(b, n) \o Drop(b, n))[i] =
                                      IF i <= n THEN Take(b, n)[i] ELSE Drop(b, n)[i - n]
        BY <1>1, <1>2, <1>3, BytesConcat
    <2>2. \A i \in 1..Len(b) : (Take(b, n) \o Drop(b, n))[i] = b[i]
        BY <1>1, <1>2, <1>3, <2>1
    <2> QED
        BY <2>1, <2>2, SeqEqual
<1> QED
    BY <1>1, <1>2, <1>3, <1>4

(* A slice of a concatenation that lies in its first or in its second part. *)
LEMMA SubOfConcat ==
    ASSUME NEW a \in Seq(Byte), NEW b \in Seq(Byte), NEW m \in Nat \ {0}, NEW n \in Int
    PROVE  /\ n <= Len(a) => SubSeq(a \o b, m, n) = SubSeq(a, m, n)
           /\ n <= Len(b) => SubSeq(a \o b, Len(a) + m, Len(a) + n) = SubSeq(b, m, n)
<1>1. /\ a \o b \in Seq(Byte) /\ Len(a) \in Nat /\ Len(b) \in Nat
      /\ Len(a \o b) = Len(a) + Len(b)
      /\ \A i \in 1..(Len(a) + Len(b)) : (a \o b)[i] = IF i <= Len(a) THEN a[i] ELSE b[i - Len(a)]
    BY BytesConcat
<1>2. ASSUME n <= Len(a)
      PROVE  SubSeq(a \o b, m, n) = SubSeq(a, m, n)
    <2>1. n <= Len(a \o b)
        BY <1>1, <1>2
    <2>2. \A i \in 1..(n - m + 1) : SubSeq(a \o b, m, n)[i] = SubSeq(a, m, n)[i]
        BY <1>1, <1>2, <2>1, BytesSub
    <2> QED
        BY <1>1, <1>2, <2>1, <2>2, BytesSub, SeqEqual
<1>3. ASSUME n <= Len(b)
      PROVE  SubSeq(a \o b, Len(a) + m, Len(a) + n) = SubSeq(b, m, n)
    <2> DEFINE c == SubSeq(a \o b, Len(a) + m, Len(a) + n)
               d == SubSeq(b, m, n)
    <2>1. Len(a) + n <= Len(a \o b) /\ Len(a) + m \in Nat \ {0} /\ Len(a) + n \in Int
        BY <1>1, <1>3
    <2>2. /\ c \in Seq(Byte)
          /\ Len(c) = IF m <= n THEN n - m + 1 ELSE 0
          /\ \A i \in 1..(n - m + 1) : c[i] = (a \o b)[Len(a) + m + i - 1]
        BY <1>1, <2>1, BytesSub
    <2>3. /\ d \in Seq(Byte)
          /\ Len(d) = IF m <= n THEN n - m + 1 ELSE 0
          /\ \A i \in 1..(n - m + 1) : d[i] = b[m + i - 1]
        BY <1>3, BytesSub
    <2> HIDE DEF c, d
    <2>4. ASSUME NEW i \in 1..(n - m + 1)
          PROVE  c[i] = d[i]
        <3>1. /\ Len(a) + m + i - 1 \in 1..(Len(a) + Len(b)) /\ ~ (Len(a) + m + i - 1 <= Len(a))
              /\ Len(a) + m + i - 1 - Len(a) = m + i - 1
            BY <1>1, <1>3
        <3>2. (a \o b)[Len(a) + m + i - 1] = b[Len(a) + m + i - 1 - Len(a)]
            BY <1>1, <3>1
        <3> QED
            BY <2>2, <2>3, <3>1, <3>2
    <2>5. Len(c) = Len(d) /\ \A i \in 1..Len(c) : c[i] = d[i]
        BY <2>2, <2>3, <2>4
    <2>6. c = d
        BY <2>2, <2>3, <2>5, SeqEqual
    <2> QED
        BY <2>6 DEF c, d
<1> QED
    BY <1>2, <1>3

(* What was put together is taken apart again. *)
LEMMA TakeDropConcat ==
    ASSUME NEW a \in Seq(Byte), NEW b \in Seq(Byte)
    PROVE  Take(a \o b, Len(a)) = a /\ Drop(a \o b, Len(a)) = b
<1>1. Len(a) \in Nat /\ Len(b) \in Nat /\ Len(a \o b) = Len(a) + Len(b)
    BY BytesConcat
<1>2. SubSeq(a \o b, 1, Len(a)) = SubSeq(a, 1, Len(a))
    BY <1>1, SubOfConcat
<1>3. SubSeq(a \o b, Len(a) + 1, Len(a) + Len(b)) = SubSeq(b, 1, Len(b))
    BY <1>1, SubOfConcat
<1> QED
    BY <1>1, <1>2, <1>3, SubSeqFull DEF Take, Drop

(* A slice of what is behind the first n bytes. *)
LEMMA SubOfDrop ==
    ASSUME NEW b \in Seq(Byte), NEW n \in 0..Len(b), NEW i \in Nat \ {0}, NEW j \in Int, n + j <= Len(b)
    PROVE  SubSeq(Drop(b, n), i, j) = SubSeq(b, n + i, n + j)
<1>1. /\ Len(b) \in Nat /\ Take(b, n) \in Seq(Byte) /\ Drop(b, n) \in Seq(Byte)
      /\ Len(Take(b, n)) = n /\ Len(Drop(b, n)) = Len(b) - n
      /\ Take(b, n) \o Drop(b, n) = b
    BY BytesTakeDrop
<1>2. j <= Len(b) - n
    BY <1>1
<1>3. SubSeq(Take(b, n) \o Drop(b, n), Len(Take(b, n)) + i, Len(Take(b, n)) + j) = SubSeq(Drop(b, n), i, j)
    BY <1>1, <1>2, SubOfConcat
<1> QED
    BY <1>1, <1>3

(* A number is the value of its slice. *)
LEMMA DecodeIs ==
    ASSUME NEW b \in Seq(Byte), NEW i \in Nat, NEW w \in Nat, NEW m, NEW n,
           m = i + 1, n = i + w, n <= Len(b)
    PROVE  DecodeUint(b, i, w) = Value(SubSeq(b, m, n))
<1>1. Len(b) \in Nat
    BY LenProperties
<1>2. ~ (Len(b) < i + w)
    BY <1>1
<1> QED
    BY <1>2 DEF DecodeUint

(* Whatever the string, decoding gives a number. *)
LEMMA DecodeNat ==
    ASSUME NEW b \in Seq(Byte), NEW i \in Nat, NEW w \in Nat
    PROVE  DecodeUint(b, i, w) \in Nat /\ DecodeUint(b, i, w) <= MaxNumber
<1>1. 0 \in Nat /\ 0 <= MaxNumber
    BY Limits, SMT
<1>2. ASSUME ~ (Len(b) < i + w)
      PROVE  SubSeq(b, i + 1, i + w) \in Seq(Byte)
    <2>1. Len(b) \in Nat /\ i + 1 \in Nat \ {0} /\ i + w <= Len(b) /\ i + w \in Int
        BY <1>2, LenProperties
    <2> QED
        BY <2>1, BytesSub
<1>3. MaxNumber \in Nat
    BY Limits
<1> DEFINE c == SubSeq(b, i + 1, i + w)
<1>4. ASSUME ~ (Len(b) < i + w)
      PROVE  Value(c) \in Nat /\ Value(c) <= MaxNumber
    <2>1. Value(c) \in 0..MaxNumber
        BY <1>2, <1>4, ValueNat
    <2> HIDE DEF c
    <2> QED
        BY <1>3, <2>1
<1>5. DecodeUint(b, i, w) = IF Len(b) < i + w THEN 0 ELSE Value(c)
    BY DEF DecodeUint
<1> HIDE DEF c
<1> QED
    BY <1>1, <1>4, <1>5

(* What is read is what was written at that place. *)
LEMMA DecodeConcat ==
    ASSUME NEW a \in Seq(Byte), NEW b \in Seq(Byte), NEW i \in Nat, NEW w \in Nat
    PROVE  /\ i + w <= Len(a) => DecodeUint(a \o b, i, w) = DecodeUint(a, i, w)
           /\ DecodeUint(a \o b, Len(a) + i, w) = DecodeUint(b, i, w)
<1>1. Len(a) \in Nat /\ Len(b) \in Nat /\ Len(a \o b) = Len(a) + Len(b)
    BY BytesConcat
<1>2. ASSUME i + w <= Len(a)
      PROVE  DecodeUint(a \o b, i, w) = DecodeUint(a, i, w)
    <2>1. SubSeq(a \o b, i + 1, i + w) = SubSeq(a, i + 1, i + w)
        BY <1>1, <1>2, SubOfConcat
    <2>2. ~ (Len(a \o b) < i + w) /\ ~ (Len(a) < i + w)
        BY <1>1, <1>2
    <2> QED
        BY <2>1, <2>2 DEF DecodeUint
<1>3. DecodeUint(a \o b, Len(a) + i, w) = DecodeUint(b, i, w)
    <2>1. CASE Len(b) < i + w
        <3>1. Len(a \o b) < (Len(a) + i) + w
            BY <1>1, <2>1
        <3> QED
            BY <2>1, <3>1 DEF DecodeUint
    <2>2. CASE ~ (Len(b) < i + w)
        <3>1. SubSeq(a \o b, Len(a) + (i + 1), Len(a) + (i + w)) = SubSeq(b, i + 1, i + w)
            BY <1>1, <2>2, SubOfConcat
        <3>2. Len(a) + (i + 1) = (Len(a) + i) + 1 /\ Len(a) + (i + w) = (Len(a) + i) + w
              /\ ~ (Len(a \o b) < (Len(a) + i) + w)
            BY <1>1, <2>2
        <3> QED
            BY <2>2, <3>1, <3>2 DEF DecodeUint
    <2> QED
        BY <2>1, <2>2
<1> QED
    BY <1>2, <1>3

(* A number that is packed at the front of a string is read from it. *)
LEMMA DecodeEncode ==
    ASSUME NEW n, NEW w, FitsIn(n, w), NEW b \in Seq(Byte)
    PROVE  DecodeUint(EncodeUint(n, w) \o b, 0, w) = n /\ DecodeUint(EncodeUint(n, w), 0, w) = n
<1> DEFINE e == EncodeUint(n, w)
<1>1. n \in Int /\ w \in Nat
    BY Limits, SMT DEF FitsIn
<1>2. e \in Seq(Byte) /\ Len(e) = w
    BY <1>1, EncodeUintBytes
<1>3. Value(e) = n
    BY ValueOfUint
<1> HIDE DEF e
<1>4. SubSeq(e, 1, w) = e
    BY <1>2, SubSeqFull
<1>5. DecodeUint(e, 0, w) = n
    <2>1. 0 \in Nat /\ 1 = 0 + 1 /\ w = 0 + w /\ w <= Len(e)
        BY <1>2
    <2>2. DecodeUint(e, 0, w) = Value(SubSeq(e, 1, w))
        BY <1>2, <2>1, DecodeIs
    <2> QED
        BY <1>3, <1>4, <2>2, Zenon
<1>6. DecodeUint(e \o b, 0, w) = DecodeUint(e, 0, w)
    BY <1>2, DecodeConcat
<1> QED
    BY <1>5, <1>6 DEF e

-----------------------------------------------------------------------------
(* The messages in the bytes of a stream. *)

EndAt(b, i) == i + LengthSize + DecodeUint(b, i, LengthSize)
StepOf(b, i, f) ==
    IF i = Len(b) THEN <<>>
    ELSE IF i + LengthSize > Len(b) \/ EndAt(b, i) > Len(b) THEN <<<<>>>>
    ELSE <<SubSeq(b, i + LengthSize + 1, EndAt(b, i))>> \o f[EndAt(b, i)]
MessagesFrom(f, b) == f = [i \in 0..Len(b) |-> StepOf(b, i, f)]

(* A frame ends behind its length. *)
LEMMA EndBehind ==
    ASSUME NEW b \in Seq(Byte), NEW i \in Nat
    PROVE  EndAt(b, i) \in Nat /\ EndAt(b, i) = i + 4 + DecodeUint(b, i, 4) /\ EndAt(b, i) >= i + 4 /\ LengthSize = 4
<1>1. DecodeUint(b, i, 4) \in Nat
    BY DecodeNat
<1> QED
    BY <1>1 DEF EndAt, LengthSize

(* A step looks at later ones only. *)
LEMMA StepLooksAhead ==
    ASSUME NEW b \in Seq(Byte), NEW i \in 0..Len(b), NEW f, NEW h,
           \A j \in 0..Len(b) : i < j => f[j] = h[j]
    PROVE  StepOf(b, i, f) = StepOf(b, i, h)
<1>1. Len(b) \in Nat /\ i \in Nat
    BY LenProperties
<1>2. EndAt(b, i) \in Nat /\ EndAt(b, i) >= i + 4
    BY <1>1, EndBehind
<1>3. CASE EndAt(b, i) > Len(b)
    BY <1>3 DEF StepOf
<1>4. CASE ~ (EndAt(b, i) > Len(b))
    <2>1. f[EndAt(b, i)] = h[EndAt(b, i)]
        BY <1>1, <1>2, <1>4
    <2> QED
        BY <2>1 DEF StepOf
<1> QED
    BY <1>3, <1>4

(* The recursive definition of the messages has a solution. *)
LEMMA MessagesFromExists ==
    ASSUME NEW b \in Seq(Byte)
    PROVE  \E f : MessagesFrom(f, b)
<1> DEFINE UpTo(n, f) == /\ f = [i \in 0..Len(b) |-> f[i]]
                         /\ \A i \in 0..Len(b) : Len(b) - i <= n => f[i] = StepOf(b, i, f)
           T == {n \in 0..Len(b) : ~ \E f : UpTo(n, f)}
<1>1. Len(b) \in Nat
    BY LenProperties
<1>2. ASSUME T # {}
      PROVE  FALSE
    <2> HIDE DEF UpTo
    <2>1. T \subseteq Nat
        BY <1>1
    <2> HIDE DEF T
    <2>2. PICK x \in T : \A y \in T : x <= y
        BY <1>2, <2>1, NatLeast
    <2>3. x \in 0..Len(b) /\ ~ \E f : UpTo(x, f)
        BY <2>2 DEF T
    <2>4. \E f : f = [i \in 0..Len(b) |-> f[i]] /\ (x # 0 => UpTo(x - 1, f))
        <3>1. CASE x = 0
            <4> DEFINE zero == [i \in 0..Len(b) |-> 0]
            <4>1. zero = [i \in 0..Len(b) |-> zero[i]]
                OBVIOUS
            <4> QED
                BY <3>1, <4>1
        <3>2. CASE x # 0
            <4>1. x - 1 \in 0..Len(b) /\ x - 1 \notin T
                BY <1>1, <2>2, <2>3, <3>2
            <4>2. PICK f : UpTo(x - 1, f)
                BY <4>1 DEF T
            <4> QED
                BY <4>2 DEF UpTo
        <3> QED
            BY <3>1, <3>2
    <2>5. PICK f : f = [i \in 0..Len(b) |-> f[i]] /\ (x # 0 => UpTo(x - 1, f))
        BY <2>4
    <2> DEFINE at == Len(b) - x
               h == [i \in 0..Len(b) |-> IF i = at THEN StepOf(b, at, f) ELSE f[i]]
    <2>6. at \in 0..Len(b)
        BY <1>1, <2>3
    <2>7. h = [i \in 0..Len(b) |-> h[i]]
        OBVIOUS
    <2>8. ASSUME NEW i \in 0..Len(b), Len(b) - i <= x
          PROVE  h[i] = StepOf(b, i, h)
        <3>1. StepOf(b, i, h) = StepOf(b, i, f)
            <4>1. \A j \in 0..Len(b) : i < j => h[j] = f[j]
                BY <1>1, <2>3, <2>8
            <4> HIDE DEF h
            <4> QED
                BY <4>1, StepLooksAhead
        <3>2. CASE i = at
            <4>1. h[i] = StepOf(b, at, f)
                BY <2>6, <3>2
            <4> QED
                BY <3>1, <3>2, <4>1
        <3>3. CASE i # at
            <4>1. x # 0 /\ Len(b) - i <= x - 1
                BY <1>1, <2>3, <2>8, <3>3
            <4>2. f[i] = StepOf(b, i, f)
                BY <2>5, <4>1 DEF UpTo
            <4>3. h[i] = f[i]
                BY <3>3
            <4> QED
                BY <3>1, <4>2, <4>3
        <3> QED
            BY <3>2, <3>3
    <2> HIDE DEF h
    <2>9. UpTo(x, h)
        BY <2>7, <2>8 DEF UpTo
    <2> QED
        BY <2>3, <2>9
<1>3. Len(b) \in 0..Len(b)
    BY <1>1
<1>4. PICK f : UpTo(Len(b), f)
    BY <1>2, <1>3
<1>5. \A i \in 0..Len(b) : f[i] = StepOf(b, i, f)
    BY <1>1, <1>4
<1>6. f = [i \in 0..Len(b) |-> f[i]]
    BY <1>4
<1> HIDE DEF UpTo
<1>7. [i \in 0..Len(b) |-> f[i]] = [i \in 0..Len(b) |-> StepOf(b, i, f)]
    BY <1>5
<1>8. MessagesFrom(f, b)
    BY <1>6, <1>7 DEF MessagesFrom
<1> QED
    BY <1>8

(* Messages is such a solution. *)
LEMMA MessagesIs ==
    ASSUME NEW b \in Seq(Byte)
    PROVE  \E f : MessagesFrom(f, b) /\ Messages(b) = f[0]
<1> DEFINE f == CHOOSE x : MessagesFrom(x, b)
<1>1. MessagesFrom(f, b)
    BY MessagesFromExists
<1>2. Messages(b) = f[0]
    BY DEF Messages, MessagesFrom, StepOf, EndAt
<1> QED
    BY <1>1, <1>2

(* What it gives at one place. *)
LEMMA FromStep ==
    ASSUME NEW b \in Seq(Byte), NEW f, MessagesFrom(f, b), NEW i \in 0..Len(b)
    PROVE  f[i] = StepOf(b, i, f)
<1>1. f = [j \in 0..Len(b) |-> StepOf(b, j, f)]
    BY DEF MessagesFrom
<1> QED
    BY <1>1, Zenon

(* The messages behind the first n bytes do not depend on these. *)
LEMMA MessagesBehind ==
    ASSUME NEW b \in Seq(Byte), NEW n \in 0..Len(b), NEW f, MessagesFrom(f, b),
           NEW h, MessagesFrom(h, Drop(b, n)), NEW i \in n..Len(b)
    PROVE  f[i] = h[i - n]
<1> DEFINE d == Drop(b, n)
           T == {m \in 0..(Len(b) - n) : f[Len(b) - m] # h[Len(b) - m - n]}
<1>1. Len(b) \in Nat /\ n \in Nat /\ d \in Seq(Byte) /\ Len(d) = Len(b) - n
    BY BytesTakeDrop
<1> HIDE DEF d
<1>2. ASSUME T # {}
      PROVE  FALSE
    <2>1. T \subseteq Nat
        BY <1>1
    <2> HIDE DEF T
    <2>2. PICK x \in T : \A y \in T : x <= y
        BY <1>2, <2>1, NatLeast
    <2> DEFINE at == Len(b) - x
    <2>3. x \in 0..(Len(b) - n) /\ f[at] # h[at - n]
        BY <2>2 DEF T
    <2>4. at \in n..Len(b) /\ at \in Nat /\ at - n \in Nat /\ at \in 0..Len(b) /\ at - n \in 0..Len(d)
        BY <1>1, <2>3
    <2>5. \A j \in n..Len(b) : at < j => f[j] = h[j - n]
        <3>1. ASSUME NEW j \in n..Len(b), at < j
              PROVE  f[j] = h[j - n]
            <4>1. Len(b) - j \in 0..(Len(b) - n) /\ Len(b) - j \notin T
                BY <1>1, <2>1, <2>2, <2>3, <3>1
            <4>2. Len(b) - (Len(b) - j) = j
                BY <1>1
            <4> QED
                BY <4>1, <4>2 DEF T
        <3> QED
            BY <3>1
    <2> HIDE DEF at
    <2>6. f[at] = StepOf(b, at, f) /\ h[at - n] = StepOf(d, at - n, h)
        BY <1>1, <2>4, FromStep DEF d
    <2>7. at = Len(b) <=> at - n = Len(d)
        BY <1>1, <2>4
    <2>8. CASE at = Len(b)
        BY <2>3, <2>6, <2>7, <2>8 DEF StepOf
    <2>9. CASE at # Len(b) /\ at + 4 > Len(b)
        <3>1. at - n + 4 > Len(d)
            BY <1>1, <2>4, <2>9
        <3> QED
            BY <2>3, <2>6, <2>7, <2>9, <3>1 DEF StepOf, LengthSize
    <2>10. CASE at # Len(b) /\ ~ (at + 4 > Len(b))
        <3>1. EndAt(b, at) \in Nat /\ EndAt(b, at) >= at + 4 /\ EndAt(b, at) = at + 4 + DecodeUint(b, at, 4)
            BY <2>4, EndBehind
        <3>2. EndAt(d, at - n) = at - n + 4 + DecodeUint(d, at - n, 4)
            BY <1>1, <2>4, EndBehind
        <3>3. DecodeUint(d, at - n, 4) = DecodeUint(b, at, 4)
            <4>1. SubSeq(d, at - n + 1, at - n + 4) = SubSeq(b, n + (at - n + 1), n + (at - n + 4))
                <5>1. at - n + 1 \in Nat \ {0} /\ at - n + 4 \in Int /\ n + (at - n + 4) <= Len(b)
                    BY <1>1, <2>4, <2>10
                <5> QED
                    BY <5>1, SubOfDrop DEF d
            <4>2. n + (at - n + 1) = at + 1 /\ n + (at - n + 4) = at + 4
                BY <1>1, <2>4
            <4>3. ~ (Len(b) < at + 4) /\ ~ (Len(d) < at - n + 4)
                BY <1>1, <2>4, <2>10
            <4> QED
                BY <4>1, <4>2, <4>3 DEF DecodeUint
        <3>4. DecodeUint(b, at, 4) \in Nat
            BY <2>4, DecodeNat
        <3>5. EndAt(d, at - n) = EndAt(b, at) - n
            BY <1>1, <2>4, <3>1, <3>2, <3>3, <3>4
        <3>6. ~ (at - n + 4 > Len(d)) /\ (EndAt(b, at) > Len(b) <=> EndAt(d, at - n) > Len(d))
            BY <1>1, <2>4, <2>10, <3>1, <3>5
        <3>7. CASE EndAt(b, at) > Len(b)
            BY <2>3, <2>6, <2>7, <2>10, <3>6, <3>7 DEF StepOf, LengthSize
        <3>8. CASE ~ (EndAt(b, at) > Len(b))
            <4> DEFINE end == EndAt(b, at)
            <4>1. end \in n..Len(b) /\ at < end /\ end \in Nat
                BY <1>1, <2>4, <3>1, <3>8
            <4>2. f[end] = h[end - n]
                BY <2>5, <4>1
            <4>3. SubSeq(d, at - n + 4 + 1, end - n) = SubSeq(b, at + 4 + 1, end)
                <5>1. SubSeq(d, at - n + 4 + 1, end - n) = SubSeq(b, n + (at - n + 4 + 1), n + (end - n))
                    <6>1. at - n + 4 + 1 \in Nat \ {0} /\ end - n \in Int /\ n + (end - n) <= Len(b)
                        BY <1>1, <2>4, <4>1
                    <6> HIDE DEF end
                    <6> QED
                        BY <6>1, SubOfDrop DEF d
                <5>2. n + (at - n + 4 + 1) = at + 4 + 1 /\ n + (end - n) = end
                    BY <1>1, <2>4, <4>1
                <5> QED
                    BY <5>1, <5>2
            <4>4. StepOf(b, at, f) = <<SubSeq(b, at + 4 + 1, end)>> \o f[end]
                BY <2>10, <3>8 DEF StepOf, LengthSize
            <4>5. StepOf(d, at - n, h) = <<SubSeq(d, at - n + 4 + 1, end - n)>> \o h[end - n]
                BY <2>7, <2>10, <3>5, <3>6, <3>8 DEF StepOf, LengthSize
            <4> QED
                BY <2>3, <2>6, <4>2, <4>3, <4>4, <4>5
        <3> QED
            BY <3>7, <3>8
    <2> QED
        BY <2>8, <2>9, <2>10
<1>3. Len(b) - i \in 0..(Len(b) - n) /\ Len(b) - (Len(b) - i) = i
    BY <1>1
<1> QED
    BY <1>2, <1>3

(* What Messages does with what a stream starts with. *)
LEMMA MessagesUnfold ==
    ASSUME NEW b \in Seq(Byte)
    PROVE  /\ b = <<>> => Messages(b) = <<>>
           /\ LET num == DecodeUint(b, 0, 4)
              IN  /\ b # <<>> /\ Len(b) < 4 + num => Messages(b) = <<<<>>>>
                  /\ b # <<>> /\ Len(b) < 4 => Messages(b) = <<<<>>>>
                  /\ 4 <= Len(b) /\ 4 + num <= Len(b) =>
                        Messages(b) = <<SubSeq(b, 5, 4 + num)>> \o Messages(Drop(b, 4 + num))
<1> DEFINE num == DecodeUint(b, 0, 4)
<1>1. Len(b) \in Nat /\ num \in Nat /\ (b = <<>> <=> Len(b) = 0)
    <2>1. Len(b) \in Nat /\ (b = <<>> <=> Len(b) = 0)
        BY EmptySeq, LenProperties
    <2>2. num \in Nat
        BY DecodeNat
    <2> QED
        BY <2>1, <2>2
<1>2. PICK f : MessagesFrom(f, b) /\ Messages(b) = f[0]
    BY MessagesIs
<1>3. f[0] = StepOf(b, 0, f) /\ 0 \in 0..Len(b)
    BY <1>1, <1>2, FromStep
<1>4. EndAt(b, 0) = 4 + num
    BY <1>1, EndBehind
<1> HIDE DEF num
<1>5. CASE b = <<>>
    <2>1. Messages(b) = <<>>
        BY <1>1, <1>2, <1>3, <1>5 DEF StepOf
    <2> QED
        BY <1>1, <1>5, <2>1
<1>6. CASE b # <<>> /\ (Len(b) < 4 \/ Len(b) < 4 + num)
    <2>1. Messages(b) = <<<<>>>>
        BY <1>1, <1>2, <1>3, <1>4, <1>6 DEF StepOf, LengthSize
    <2> QED
        BY <1>1, <1>6, <2>1 DEF num
<1>7. CASE b # <<>> /\ 4 <= Len(b) /\ 4 + num <= Len(b)
    <2>1. Messages(b) = <<SubSeq(b, 5, 4 + num)>> \o f[4 + num]
        <3>1. 0 # Len(b) /\ ~ (0 + 4 > Len(b)) /\ ~ (4 + num > Len(b)) /\ 0 + 4 + 1 = 5
            BY <1>1, <1>7
        <3> QED
            BY <1>2, <1>3, <1>4, <3>1 DEF StepOf, LengthSize
    <2>2. f[4 + num] = Messages(Drop(b, 4 + num))
        <3>1. 4 + num \in 0..Len(b) /\ 4 + num \in (4 + num)..Len(b) /\ (4 + num) - (4 + num) = 0
            BY <1>1, <1>7
        <3>2. Drop(b, 4 + num) \in Seq(Byte)
            BY <3>1, BytesTakeDrop
        <3>3. PICK h : MessagesFrom(h, Drop(b, 4 + num)) /\ Messages(Drop(b, 4 + num)) = h[0]
            BY <3>2, MessagesIs
        <3>4. f[4 + num] = h[(4 + num) - (4 + num)]
            BY <1>2, <3>1, <3>3, MessagesBehind
        <3> QED
            BY <3>1, <3>3, <3>4
    <2> QED
        BY <1>1, <1>7, <2>1, <2>2 DEF num
<1> QED
    BY <1>1, <1>5, <1>6, <1>7 DEF num

(* A length has four bytes and is read back. *)
LEMMA NumberBytes ==
    ASSUME NEW n \in Nat, n <= MaxNumber
    PROVE  /\ EncodeUint(n, 4) \in Seq(Byte) /\ Len(EncodeUint(n, 4)) = 4
           /\ Value(EncodeUint(n, 4)) = n
           /\ \A b \in Seq(Byte) : DecodeUint(EncodeUint(n, 4) \o b, 0, 4) = n
<1>1. n \in 0..MaxNumber /\ n \in Int
    BY Limits, SMT
<1>2. FitsIn(n, 4)
    BY <1>1 DEF FitsIn
<1> QED
    BY <1>1, <1>2, EncodeUintBytes, ValueOfUint, DecodeEncode

(* The messages are strings of bytes. *)
LEMMA MessagesType ==
    ASSUME NEW b \in Seq(Byte)
    PROVE  Messages(b) \in Seq(Seq(Byte))
<1> DEFINE T == {n \in Nat : \E a \in Seq(Byte) : Len(a) = n /\ Messages(a) \notin Seq(Seq(Byte))}
<1>1. ASSUME T # {}
      PROVE  FALSE
    <2>1. T \subseteq Nat
        OBVIOUS
    <2> HIDE DEF T
    <2>2. PICK x \in T : \A y \in T : x <= y
        BY <1>1, <2>1, NatLeast
    <2>3. PICK a \in Seq(Byte) : Len(a) = x /\ Messages(a) \notin Seq(Seq(Byte))
        BY <2>2 DEF T
    <2> DEFINE num == DecodeUint(a, 0, 4)
    <2>4. Len(a) \in Nat /\ num \in Nat
        BY LenProperties, DecodeNat
    <2>5. <<>> \in Seq(Seq(Byte)) /\ <<<<>>>> \in Seq(Seq(Byte))
        <3>1. <<>> \in Seq(Byte)
            BY EmptySeq
        <3> QED
            BY <3>1
    <2>6. CASE a = <<>> \/ Len(a) < 4 + num
        <3>1. Messages(a) = <<>> \/ Messages(a) = <<<<>>>>
            BY <2>6, MessagesUnfold
        <3> QED
            BY <2>3, <2>5, <3>1
    <2>7. CASE ~ (Len(a) < 4 + num)
        <3> DEFINE d == Drop(a, 4 + num)
                   m == SubSeq(a, 5, 4 + num)
        <3>1. 4 + num \in 0..Len(a) /\ 4 <= Len(a) /\ 4 + num <= Len(a)
            BY <2>4, <2>7
        <3>2. Messages(a) = <<m>> \o Messages(d)
            BY <3>1, MessagesUnfold
        <3>3. d \in Seq(Byte) /\ Len(d) = Len(a) - (4 + num)
            BY <3>1, BytesTakeDrop
        <3>4. m \in Seq(Byte)
            BY <2>4, <3>1, BytesSub
        <3>5. Len(d) \in Nat /\ Len(d) < x
            BY <2>3, <2>4, <3>1, <3>3
        <3>6. Messages(d) \in Seq(Seq(Byte))
            <4>1. Len(d) \notin T
                BY <2>1, <2>2, <3>5
            <4> HIDE DEF d
            <4> QED
                BY <3>3, <3>5, <4>1 DEF T
        <3> HIDE DEF d, m
        <3>7. <<m>> \in Seq(Seq(Byte))
            BY <3>4
        <3>8. Messages(a) \in Seq(Seq(Byte))
            BY <3>2, <3>6, <3>7, ConcatProperties
        <3> QED
            BY <2>3, <3>8
    <2> QED
        BY <2>6, <2>7
<1>2. Len(b) \in Nat
    BY LenProperties
<1> QED
    BY <1>1, <1>2

(* Nothing is torn: there is no empty message. *)
Whole(b) == \A i \in 1..Len(Messages(b)) : Messages(b)[i] # <<>>

(* A frame behind whole messages is one message more. *)
LEMMA MessagesAppend ==
    ASSUME NEW b \in Seq(Byte), Whole(b), NEW m \in Seq(Byte), Len(m) <= MaxNumber
    PROVE  Messages(b \o Frame(m)) = Append(Messages(b), m)
<1> DEFINE Bad(a) == Whole(a) /\ Messages(a \o Frame(m)) # Append(Messages(a), m)
           T == {n \in Nat : \E a \in Seq(Byte) : Len(a) = n /\ Bad(a)}
<1>1. Len(m) \in Nat
    BY LenProperties
<1>2. Frame(m) \in Seq(Byte) /\ Len(Frame(m)) = 4 + Len(m) /\ DecodeUint(Frame(m), 0, 4) = Len(m)
      /\ Take(Frame(m), 4) \o m = Frame(m) /\ Drop(Frame(m), 4) = m
    <2> DEFINE e == EncodeUint(Len(m), 4)
    <2>1. e \in Seq(Byte) /\ Len(e) = 4 /\ DecodeUint(e \o m, 0, 4) = Len(m)
        BY <1>1, NumberBytes
    <2>2. Frame(m) = e \o m
        BY DEF Frame, LengthSize
    <2> HIDE DEF e
    <2>3. e \o m \in Seq(Byte) /\ Len(e \o m) = 4 + Len(m)
        BY <2>1, BytesConcat
    <2>4. Take(e \o m, 4) = e /\ Drop(e \o m, 4) = m
        BY <2>1, TakeDropConcat
    <2> QED
        BY <2>1, <2>2, <2>3, <2>4
<1>3. Messages(Frame(m)) = <<m>>
    <2>1. 4 <= Len(Frame(m)) /\ 4 + Len(m) <= Len(Frame(m)) /\ 4 \in 0..Len(Frame(m))
        BY <1>1, <1>2
    <2>2. Messages(Frame(m)) = <<SubSeq(Frame(m), 5, 4 + Len(m))>> \o Messages(Drop(Frame(m), 4 + Len(m)))
        BY <1>2, <2>1, MessagesUnfold
    <2>3. SubSeq(Frame(m), 5, 4 + Len(m)) = m
        <3>1. SubSeq(Frame(m), 4 + 1, Len(Frame(m))) = m
            BY <1>2 DEF Drop
        <3> QED
            BY <1>2, <3>1
    <2>4. Drop(Frame(m), 4 + Len(m)) = <<>>
        <3>1. 4 + Len(m) \in 0..Len(Frame(m))
            BY <1>1, <1>2
        <3>2. Drop(Frame(m), 4 + Len(m)) \in Seq(Byte) /\ Len(Drop(Frame(m), 4 + Len(m))) = 0
            BY <1>1, <1>2, <3>1, BytesTakeDrop
        <3> QED
            BY <3>2, EmptySeq
    <2>5. Messages(<<>>) = <<>>
        BY EmptySeq, MessagesUnfold
    <2>6. <<m>> \in Seq(Seq(Byte))
        OBVIOUS
    <2> QED
        BY <2>2, <2>3, <2>4, <2>5, <2>6, ConcatEmptySeq
<1> HIDE DEF Bad
<1>4. ASSUME T # {}
      PROVE  FALSE
    <2>1. T \subseteq Nat
        OBVIOUS
    <2> HIDE DEF T
    <2>2. PICK x \in T : \A y \in T : x <= y
        BY <1>4, <2>1, NatLeast
    <2>3. PICK a \in Seq(Byte) : Len(a) = x /\ Bad(a)
        BY <2>2 DEF T
    <2> DEFINE num == DecodeUint(a, 0, 4)
    <2>4. Len(a) \in Nat /\ num \in Nat
        BY LenProperties, DecodeNat
    <2>5. CASE a = <<>>
        <3>1. Messages(a) = <<>> /\ a \o Frame(m) = Frame(m)
            BY <1>2, <2>5, MessagesUnfold, ConcatEmptySeq
        <3> QED
            BY <1>3, <2>3, <3>1 DEF Bad
    <2>6. CASE a # <<>> /\ Len(a) < 4 + num
        <3>1. Messages(a) = <<<<>>>>
            BY <2>6, MessagesUnfold
        <3>2. ~ Whole(a)
            BY <3>1 DEF Whole
        <3> QED
            BY <2>3, <3>2 DEF Bad
    <2>7. CASE ~ (Len(a) < 4 + num)
        <3> DEFINE d == Drop(a, 4 + num)
                   c == SubSeq(a, 5, 4 + num)
                   af == a \o Frame(m)
        <3>1. 4 + num \in 0..Len(a) /\ 4 <= Len(a) /\ 4 + num <= Len(a)
            BY <2>4, <2>7
        <3>2. Messages(a) = <<c>> \o Messages(d)
            BY <3>1, MessagesUnfold
        <3>3. d \in Seq(Byte) /\ Len(d) = Len(a) - (4 + num)
            BY <3>1, BytesTakeDrop
        <3>4. c \in Seq(Byte)
            BY <2>4, <3>1, BytesSub
        <3>5. Len(d) \in Nat /\ Len(d) < x
            BY <2>3, <2>4, <3>1, <3>3
        <3>6. af \in Seq(Byte) /\ Len(af) = Len(a) + (4 + Len(m))
            BY <1>2, BytesConcat, ZenonT(30)
        <3>7. DecodeUint(af, 0, 4) = num
            <4>1. 0 + 4 <= Len(a)
                BY <3>1
            <4> QED
                BY <1>2, <4>1, DecodeConcat
        <3>8. 4 + num <= Len(af) /\ 4 <= Len(af)
            BY <1>1, <2>4, <3>1, <3>6
        <3>9. Messages(af) = <<SubSeq(af, 5, 4 + num)>> \o Messages(Drop(af, 4 + num))
            BY <3>6, <3>7, <3>8, MessagesUnfold
        <3>10. SubSeq(af, 5, 4 + num) = c
            BY <1>2, <2>4, <3>1, SubOfConcat
        <3>11. Drop(af, 4 + num) = d \o Frame(m)
            <4> DEFINE h == Take(a, 4 + num)
            <4>1. h \in Seq(Byte) /\ Len(h) = 4 + num /\ h \o d = a
                BY <3>1, BytesTakeDrop
            <4> HIDE DEF h, d
            <4>2. (h \o d) \o Frame(m) = h \o (d \o Frame(m))
                <5>1. h \in Seq(Byte) /\ d \in Seq(Byte) /\ Frame(m) \in Seq(Byte)
                    BY <1>2, <3>3, <4>1
                <5> QED
                    BY <5>1, ConcatAssociative, SMTT(30)
            <4>4. af = h \o (d \o Frame(m))
                BY <4>1, <4>2, Zenon DEF af
            <4>3. d \o Frame(m) \in Seq(Byte)
                BY <1>2, <3>3, BytesConcat
            <4>5. Drop(h \o (d \o Frame(m)), Len(h)) = d \o Frame(m)
                BY <4>1, <4>3, TakeDropConcat
            <4> QED
                BY <4>1, <4>4, <4>5, Zenon
        <3> HIDE DEF c, d, af
        <3>12. Messages(d) \in Seq(Seq(Byte)) /\ <<c>> \in Seq(Seq(Byte)) /\ Len(<<c>>) = 1
            BY <3>3, <3>4, MessagesType
        <3>13. Whole(d)
            <4>1. Whole(a)
                BY <2>3 DEF Bad
            <4>2. Len(Messages(a)) = 1 + Len(Messages(d)) /\ Len(Messages(d)) \in Nat
                  /\ \A i \in 1..Len(Messages(a)) :
                        Messages(a)[i] = IF i <= 1 THEN <<c>>[i] ELSE Messages(d)[i - 1]
                BY <3>2, <3>12, ConcatProperties, LenProperties
            <4>3. ASSUME NEW i \in 1..Len(Messages(d))
                  PROVE  Messages(d)[i] # <<>>
                <5>1. i + 1 \in 1..Len(Messages(a)) /\ ~ (i + 1 <= 1) /\ i + 1 - 1 = i
                    BY <4>2
                <5>2. Messages(a)[i + 1] = Messages(d)[i]
                    BY <4>2, <5>1
                <5> QED
                    BY <4>1, <5>1, <5>2 DEF Whole
            <4> QED
                BY <4>3 DEF Whole
        <3>14. Messages(d \o Frame(m)) = Append(Messages(d), m)
            <4>1. Len(d) \notin T
                BY <2>1, <2>2, <3>5
            <4>2. ~ Bad(d)
                BY <3>3, <3>5, <4>1 DEF T
            <4> QED
                BY <3>13, <4>2 DEF Bad
        <3>15. Messages(af) = <<c>> \o (Messages(d) \o <<m>>)
            BY <3>9, <3>10, <3>11, <3>12, <3>14, AppendIsConcat
        <3>16. <<m>> \in Seq(Seq(Byte))
            OBVIOUS
        <3>17. <<c>> \o (Messages(d) \o <<m>>) = (<<c>> \o Messages(d)) \o <<m>>
            BY <3>12, <3>16, ConcatAssociative
        <3>18. Messages(a) \in Seq(Seq(Byte))
            BY MessagesType
        <3>19. Messages(af) = Append(Messages(a), m)
            BY <3>2, <3>15, <3>17, <3>18, AppendIsConcat
        <3> QED
            BY <2>3, <3>19 DEF Bad, af
    <2> QED
        BY <2>5, <2>6, <2>7
<1>5. Len(b) \in Nat
    BY LenProperties
<1> QED
    BY <1>4, <1>5 DEF Bad

(* Two beginnings that give the same length are read alike. *)
LEMMA MessagesSameLength ==
    ASSUME NEW h \in Seq(Byte), Len(h) = 4, NEW b \in Seq(Byte)
    PROVE  /\ Value(h) \in Nat /\ Value(h) <= MaxNumber
           /\ Messages(h \o b) = Messages(EncodeUint(Value(h), 4) \o b)
<1> DEFINE num == Value(h)
           e == EncodeUint(num, 4)
<1>1. num \in Nat /\ num <= MaxNumber
    <2>1. num \in 0..MaxNumber
        BY ValueNat
    <2>2. MaxNumber \in Nat
        BY Limits
    <2> HIDE DEF num
    <2> QED
        BY <2>1, <2>2
<1>2. e \in Seq(Byte) /\ Len(e) = 4 /\ DecodeUint(e \o b, 0, 4) = num
    BY <1>1, NumberBytes
<1>3. DecodeUint(h \o b, 0, 4) = num
    <2>1. 0 \in Nat /\ 4 \in Nat /\ 0 + 4 <= Len(h)
        OBVIOUS
    <2>2. DecodeUint(h, 0, 4) = Value(SubSeq(h, 1, 4))
        BY DEF DecodeUint
    <2>3. DecodeUint(h \o b, 0, 4) = DecodeUint(h, 0, 4)
        BY <2>1, DecodeConcat
    <2>4. SubSeq(h, 1, Len(h)) = h
        BY SubSeqFull
    <2> QED
        BY <2>2, <2>3, <2>4, Zenon
<1> HIDE DEF num, e
<1> DEFINE hb == h \o b
           eb == e \o b
<1>4. /\ hb \in Seq(Byte) /\ Len(hb) = 4 + Len(b) /\ Len(b) \in Nat
      /\ eb \in Seq(Byte) /\ Len(eb) = 4 + Len(b)
    <2>1. hb \in Seq(Byte) /\ Len(hb) = 4 + Len(b) /\ Len(b) \in Nat
        BY BytesConcat, ZenonT(30)
    <2>2. eb \in Seq(Byte) /\ Len(eb) = 4 + Len(b)
        BY <1>2, BytesConcat
    <2> QED
        BY <2>1, <2>2
<1>5. hb # <<>> /\ eb # <<>>
    BY <1>4, EmptySeq
<1>6. CASE num > Len(b)
    <2>1. Len(hb) < 4 + num /\ Len(eb) < 4 + num
        BY <1>1, <1>4, <1>6
    <2>2. Messages(hb) = <<<<>>>> /\ Messages(eb) = <<<<>>>>
        BY <1>2, <1>3, <1>4, <1>5, <2>1, MessagesUnfold
    <2> QED
        BY <1>1, <2>2 DEF num, e
<1>7. CASE ~ (num > Len(b))
    <2>1. 4 + num <= Len(hb) /\ 4 + num <= Len(eb) /\ 4 <= Len(hb) /\ 4 <= Len(eb)
        BY <1>1, <1>4, <1>7
    <2>2. /\ Messages(hb) = <<SubSeq(hb, 5, 4 + num)>> \o Messages(Drop(hb, 4 + num))
          /\ Messages(eb) = <<SubSeq(eb, 5, 4 + num)>> \o Messages(Drop(eb, 4 + num))
        BY <1>2, <1>3, <1>4, <2>1, MessagesUnfold
    <2>3. SubSeq(hb, 5, 4 + num) = SubSeq(b, 1, num) /\ SubSeq(eb, 5, 4 + num) = SubSeq(b, 1, num)
        <3>1. num <= Len(b) /\ num \in Int /\ 4 + 1 = 5
            BY <1>1, <1>4, <1>7
        <3>2. /\ SubSeq(h \o b, Len(h) + 1, Len(h) + num) = SubSeq(b, 1, num)
              /\ SubSeq(e \o b, Len(e) + 1, Len(e) + num) = SubSeq(b, 1, num)
            <4> DEFINE from == 1
            <4>1. from \in Nat \ {0}
                OBVIOUS
            <4> HIDE DEF from
            <4>2. SubSeq(h \o b, Len(h) + from, Len(h) + num) = SubSeq(b, from, num)
                BY <3>1, <4>1, SubOfConcat
            <4>3. SubSeq(e \o b, Len(e) + from, Len(e) + num) = SubSeq(b, from, num)
                BY <1>2, <3>1, <4>1, SubOfConcat
            <4> QED
                BY <4>2, <4>3 DEF from
        <3> QED
            BY <1>2, <3>1, <3>2
    <2>4. Drop(hb, 4 + num) = Drop(b, num) /\ Drop(eb, 4 + num) = Drop(b, num)
        <3>1. num + 1 \in Nat \ {0} /\ Len(b) \in Int /\ Len(b) <= Len(b)
            BY <1>1, <1>4
        <3>2. /\ SubSeq(h \o b, Len(h) + (num + 1), Len(h) + Len(b)) = SubSeq(b, num + 1, Len(b))
              /\ SubSeq(e \o b, Len(e) + (num + 1), Len(e) + Len(b)) = SubSeq(b, num + 1, Len(b))
            <4> DEFINE from == num + 1
            <4>1. from \in Nat \ {0}
                BY <3>1
            <4> HIDE DEF from
            <4>2. SubSeq(h \o b, Len(h) + from, Len(h) + Len(b)) = SubSeq(b, from, Len(b))
                BY <3>1, <4>1, SubOfConcat
            <4>3. SubSeq(e \o b, Len(e) + from, Len(e) + Len(b)) = SubSeq(b, from, Len(b))
                BY <1>2, <3>1, <4>1, SubOfConcat, ZenonT(30)
            <4> QED
                BY <4>2, <4>3 DEF from
        <3>3. 4 + (num + 1) = (4 + num) + 1
            BY <1>1
        <3> QED
            BY <1>2, <1>4, <3>2, <3>3 DEF Drop
    <2> QED
        BY <1>1, <2>2, <2>3, <2>4 DEF num, e
<1> QED
    BY <1>6, <1>7

(* A least element is the minimum. *)
LEMMA MinIn ==
    ASSUME NEW S, \E x \in S : \A y \in S : x <= y
    PROVE  Min(S) \in S /\ \A y \in S : Min(S) <= y
<1> DEFINE Least(x) == x \in S /\ \A y \in S : x <= y
<1>1. Min(S) = CHOOSE x : Least(x)
    BY DEF Min
<1>2. \E x : Least(x)
    OBVIOUS
<1> HIDE DEF Least
<1>3. Least(Min(S))
    BY <1>1, <1>2
<1> QED
    BY <1>3 DEF Least

(* The smaller of two numbers. *)
LEMMA MinOfTwo ==
    ASSUME NEW x \in Int, NEW y \in Int
    PROVE  Min({x, y}) = IF x <= y THEN x ELSE y
<1> DEFINE S == {x, y}
<1>1. \E v \in S : \A w \in S : v <= w
    OBVIOUS
<1> HIDE DEF S
<1>2. Min(S) \in S /\ \A w \in S : Min(S) <= w
    BY <1>1, MinIn
<1> DEFINE m == Min(S)
<1>3. m = Min({x, y}) /\ m \in {x, y} /\ m <= x /\ m <= y
    BY <1>2 DEF S
<1> HIDE DEF m
<1> QED
    BY <1>3

(* The smallest of three numbers. *)
LEMMA MinOfThree ==
    ASSUME NEW x \in Int, NEW y \in Int, NEW z \in Int
    PROVE  \E m \in Int : /\ Min({x, y, z}) = m
                          /\ m <= x /\ m <= y /\ m <= z /\ (m = x \/ m = y \/ m = z)
<1> DEFINE S == {x, y, z}
<1>1. \E v \in S : \A w \in S : v <= w
    <2>1. CASE x <= y /\ x <= z
        BY <2>1
    <2>2. CASE y <= x /\ y <= z
        BY <2>2
    <2>3. CASE z <= x /\ z <= y
        BY <2>3
    <2> QED
        BY <2>1, <2>2, <2>3
<1> HIDE DEF S
<1>2. Min(S) \in S /\ \A w \in S : Min(S) <= w
    BY <1>1, MinIn
<1> DEFINE m == Min(S)
<1>3. m = Min({x, y, z}) /\ m \in {x, y, z} /\ m <= x /\ m <= y /\ m <= z
    BY <1>2 DEF S
<1> HIDE DEF m
<1> QED
    BY <1>3

(* A side of a stream.  The bounds say that a length has 4 bytes and a message is one that Value tells apart. *)
Reader == [buf : Seq(Byte), phase : {"length", "body", "message"}, acc : Seq(Byte), num : Nat]

ReaderInv(rd) ==
    /\ rd \in Reader
    /\ Len(rd.buf) <= ReadBufferSize
    /\ rd.phase = "length" => rd.num # 0 /\ Len(rd.acc) + rd.num = 4
    /\ rd.phase = "body" => rd.num # 0 /\ Len(rd.acc) + rd.num <= MaxNumber
    /\ rd.phase = "message" => rd.num = 0 /\ Len(rd.acc) <= MaxNumber

(* What is assumed of the numbers of the session, its buffers and its losses. *)
LEMMA WireFacts ==
    /\ MaxTries \in Nat \ {0} /\ MaxLost \in Nat /\ FreePort \in Nat /\ ServerPort \in Nat
    /\ Chunks \subseteq Nat \ {0} /\ MaxSingleRead \in Nat \ {0} /\ ReadBufferSize \in Nat \ {0}
BY WireAssumption, Zenon DEF WireConstants

(* CLenValueSeparator begins with a length again. *)
LEMMA ReadMessageReader ==
    ASSUME NEW rd, ReaderInv(rd)
    PROVE  ReaderInv(ReadMessage(rd.buf)) /\ ReadMessage(rd.buf).phase = "length"
           /\ ReadMessage(rd.buf).acc = <<>> /\ ReadMessage(rd.buf).buf = rd.buf
<1>1. <<>> \in Seq(Byte) /\ Len(<<>>) = 0
    BY EmptySeq
<1> QED
    BY <1>1 DEF ReaderInv, Reader, ReadMessage, LengthSize

(* A piece fits into the buffer and is not more than the pipe holds. *)
LEMMA PiecesBound ==
    ASSUME NEW rd, ReaderInv(rd), NEW pipe \in Seq(Byte), NEW n \in Pieces(rd, pipe)
    PROVE  n \in 0..Len(pipe) /\ Len(rd.buf) + n <= ReadBufferSize
<1>1. Len(pipe) \in Nat /\ rd.buf \in Seq(Byte) /\ Len(rd.buf) \in Nat /\ ReadBufferSize \in Nat
      /\ Len(rd.buf) <= ReadBufferSize
    <2>1. rd.buf \in Seq(Byte) /\ Len(rd.buf) <= ReadBufferSize
        BY DEF ReaderInv, Reader
    <2> QED
        BY <2>1, LenProperties, WireFacts
<1>2. CASE Filled(rd)
    BY <1>1, <1>2 DEF Pieces
<1>3. CASE ~ Filled(rd)
    <2>1. PICK c \in Chunks : n = Min({c, Len(pipe), ReadBufferSize - Len(rd.buf)})
        BY <1>3 DEF Pieces
    <2>2. c \in Nat
        BY WireFacts
    <2> DEFINE room == ReadBufferSize - Len(rd.buf)
               size == Len(pipe)
    <2>3. room \in Int /\ size \in Int /\ c \in Int /\ n = Min({c, size, room})
        BY <1>1, <2>1, <2>2
    <2>4. n \in Int /\ n <= c /\ n <= size /\ n <= room /\ (n = c \/ n = size \/ n = room)
        <3> HIDE DEF room, size
        <3>1. PICK m \in Int : /\ Min({c, size, room}) = m
                               /\ m <= c /\ m <= size /\ m <= room /\ (m = c \/ m = size \/ m = room)
            BY <2>3, MinOfThree, Zenon
        <3> QED
            BY <2>3, <3>1
    <2> QED
        BY <1>1, <2>2, <2>4
<1> QED
    BY <1>2, <1>3

(* Strings are put together in either order. *)
LEMMA BytesAssociative ==
    ASSUME NEW a \in Seq(Byte), NEW b \in Seq(Byte), NEW c \in Seq(Byte)
    PROVE  (a \o b) \o c = a \o (b \o c)
BY ConcatAssociative

(* What is not read begins with the length, or what is known of it. *)
Begin(rd) == IF rd.phase = "length" THEN rd.acc ELSE EncodeUint(Len(rd.acc) + rd.num, 4) \o rd.acc

(* What is known of the length is a string of bytes. *)
LEMMA BeginBytes ==
    ASSUME NEW rd, ReaderInv(rd)
    PROVE  Begin(rd) \in Seq(Byte)
<1>1. rd.acc \in Seq(Byte) /\ Len(rd.acc) \in Nat /\ rd.num \in Nat
    BY LenProperties DEF ReaderInv, Reader
<1> DEFINE e == EncodeUint(Len(rd.acc) + rd.num, 4)
<1>2. e \in Seq(Byte)
    <2>1. Len(rd.acc) + rd.num \in Int
        BY <1>1
    <2> QED
        BY <2>1, EncodeUintBytes
<1> HIDE DEF e
<1>3. e \o rd.acc \in Seq(Byte)
    BY <1>1, <1>2, BytesConcat
<1> QED
    BY <1>1, <1>3 DEF Begin, e

(* What is not read: the length, the buffer, the pipe. *)
LEMMA UnreadBytes ==
    ASSUME NEW rd, ReaderInv(rd), NEW pipe \in Seq(Byte)
    PROVE  /\ Unread(rd, pipe) = Begin(rd) \o (rd.buf \o pipe)
           /\ Begin(rd) \in Seq(Byte) /\ rd.buf \in Seq(Byte) /\ rd.buf \o pipe \in Seq(Byte)
           /\ Unread(rd, pipe) \in Seq(Byte)
<1>1. Begin(rd) \in Seq(Byte) /\ rd.buf \in Seq(Byte)
    BY BeginBytes DEF ReaderInv, Reader
<1>2. rd.buf \o pipe \in Seq(Byte)
    BY <1>1, BytesConcat
<1>3. Begin(rd) \o (rd.buf \o pipe) \in Seq(Byte)
    BY <1>1, <1>2, BytesConcat
<1>4. Unread(rd, pipe) = (Begin(rd) \o rd.buf) \o pipe
    BY Zenon DEF Unread, Begin, LengthSize
<1>5. (Begin(rd) \o rd.buf) \o pipe = Begin(rd) \o (rd.buf \o pipe)
    BY <1>1, BytesAssociative
<1> QED
    BY <1>1, <1>2, <1>3, <1>4, <1>5, Zenon

(* What the other side writes comes behind what is not read. *)
LEMMA UnreadWrite ==
    ASSUME NEW rd, ReaderInv(rd), NEW pipe \in Seq(Byte), NEW more \in Seq(Byte)
    PROVE  Unread(rd, pipe \o more) = Unread(rd, pipe) \o more
<1>1. rd.buf \in Seq(Byte) /\ Begin(rd) \in Seq(Byte)
    BY UnreadBytes
<1>2. pipe \o more \in Seq(Byte) /\ Begin(rd) \o rd.buf \in Seq(Byte)
    BY <1>1, BytesConcat
<1>3. Unread(rd, pipe) = (Begin(rd) \o rd.buf) \o pipe /\ Unread(rd, pipe \o more) = (Begin(rd) \o rd.buf) \o (pipe \o more)
    BY Zenon DEF Unread, Begin, LengthSize
<1>4. ((Begin(rd) \o rd.buf) \o pipe) \o more = (Begin(rd) \o rd.buf) \o (pipe \o more)
    BY <1>2, BytesAssociative
<1> QED
    BY <1>3, <1>4, Zenon

(* The length is known, or all of the message is read: what remains is read alike. *)
LEMMA TurnKeeps ==
    ASSUME NEW rd \in Reader, Len(rd.buf) <= ReadBufferSize, rd.phase # "message",
           rd.phase = "length" => Len(rd.acc) + rd.num = 4,
           rd.phase = "body" => Len(rd.acc) + rd.num <= MaxNumber,
           NEW rest \in Seq(Byte)
    PROVE  /\ ReaderInv(Turn(rd)) /\ Turn(rd).buf = rd.buf
           /\ Messages(Begin(Turn(rd)) \o rest) = Messages(Begin(rd) \o rest)
<1>1. rd.acc \in Seq(Byte) /\ Len(rd.acc) \in Nat /\ rd.num \in Nat /\ rd.buf \in Seq(Byte)
    BY LenProperties DEF Reader
<1>2. CASE rd.num > 0
    <2>1. Turn(rd) = rd
        BY <1>2 DEF Turn
    <2>2. ReaderInv(rd)
        BY <1>1, <1>2 DEF ReaderInv
    <2> QED
        BY <2>1, <2>2
<1>3. CASE ~ (rd.num > 0) /\ rd.phase = "body"
    <2>1. rd.num = 0
        BY <1>1, <1>3
    <2>2. Turn(rd) = [rd EXCEPT !.phase = "message", !.acc = @]
        BY <1>3, Zenon DEF Turn
    <2> DEFINE t == [rd EXCEPT !.phase = "message", !.acc = @]
    <2>3. t \in Reader /\ t.phase = "message" /\ t.acc = rd.acc /\ t.num = rd.num /\ t.buf = rd.buf
        BY DEF Reader
    <2> HIDE DEF t
    <2>4. ReaderInv(t)
        BY <1>1, <1>3, <2>1, <2>3 DEF ReaderInv
    <2>5. Begin(t) = Begin(rd)
        BY <1>3, <2>3 DEF Begin
    <2> QED
        BY <2>2, <2>3, <2>4, <2>5 DEF t
<1>4. CASE ~ (rd.num > 0) /\ rd.phase = "length"
    <2>1. rd.num = 0 /\ Len(rd.acc) = 4 /\ Begin(rd) = rd.acc
        <3>1. rd.num = 0
            BY <1>1, <1>4
        <3>2. Len(rd.acc) + rd.num = 4
            BY <1>4
        <3>3. Begin(rd) = rd.acc
            BY <1>4 DEF Begin
        <3> QED
            BY <1>1, <3>1, <3>2, <3>3
    <2>2. /\ Value(rd.acc) \in Nat /\ Value(rd.acc) <= MaxNumber
          /\ Messages(rd.acc \o rest) = Messages(EncodeUint(Value(rd.acc), 4) \o rest)
        BY <1>1, <2>1, MessagesSameLength
    <2>3. <<>> \in Seq(Byte) /\ Len(<<>>) = 0 /\ 0 <= MaxNumber
        BY EmptySeq, Limits, SMT
    <2>4. EncodeUint(Value(rd.acc), 4) \in Seq(Byte)
        <3>1. Value(rd.acc) \in Int
            BY <2>2
        <3> QED
            BY <3>1, EncodeUintBytes
    <2>5. EncodeUint(Value(rd.acc), 4) \o <<>> = EncodeUint(Value(rd.acc), 4)
        BY <2>4, ConcatEmptySeq
    <2>6. CASE Value(rd.acc) = 0
        <3>1. Turn(rd) = [rd EXCEPT !.phase = "message", !.acc = <<>>]
            BY <1>4, <2>6 DEF Turn
        <3> DEFINE t == [rd EXCEPT !.phase = "message", !.acc = <<>>]
        <3>2. t \in Reader /\ t.phase = "message" /\ t.acc = <<>> /\ t.num = 0 /\ t.buf = rd.buf
            BY <2>1, <2>3 DEF Reader
        <3> HIDE DEF t
        <3>3. ReaderInv(t)
            BY <2>3, <3>2 DEF ReaderInv
        <3>4. Begin(t) = EncodeUint(0, 4) \o <<>>
            BY <2>3, <3>2 DEF Begin
        <3>5. Begin(t) = EncodeUint(Value(rd.acc), 4)
            BY <2>5, <2>6, <3>4
        <3> QED
            BY <2>1, <2>2, <3>1, <3>2, <3>3, <3>5 DEF t
    <2>7. CASE Value(rd.acc) # 0
        <3>1. Turn(rd) = [rd EXCEPT !.phase = "body", !.acc = <<>>, !.num = Value(rd.acc)]
            BY <1>4, <2>7 DEF Turn
        <3> DEFINE t == [rd EXCEPT !.phase = "body", !.acc = <<>>, !.num = Value(rd.acc)]
        <3>2. t \in Reader /\ t.phase = "body" /\ t.acc = <<>> /\ t.num = Value(rd.acc) /\ t.buf = rd.buf
            BY <2>2, <2>3 DEF Reader
        <3> HIDE DEF t
        <3>3. ReaderInv(t)
            BY <2>2, <2>3, <2>7, <3>2 DEF ReaderInv
        <3>4. Begin(t) = EncodeUint(0 + Value(rd.acc), 4) \o <<>>
            BY <2>3, <3>2 DEF Begin
        <3>5. 0 + Value(rd.acc) = Value(rd.acc)
            BY <2>2
        <3>6. Begin(t) = EncodeUint(Value(rd.acc), 4)
            BY <2>5, <3>4, <3>5, Zenon
        <3> QED
            BY <2>1, <2>2, <3>1, <3>2, <3>3, <3>6 DEF t
    <2> QED
        BY <2>6, <2>7
<1> QED
    BY <1>2, <1>3, <1>4 DEF Reader

(* However much the stream hands over, the messages not read yet stay the same. *)
LEMMA ReadSomeKeeps ==
    ASSUME NEW rd, ReaderInv(rd), rd.phase # "message", NEW pipe \in Seq(Byte), NEW n \in Pieces(rd, pipe)
    PROVE  /\ ReaderInv(ReadSome(rd, Take(pipe, n))) /\ Drop(pipe, n) \in Seq(Byte)
           /\ Messages(Unread(ReadSome(rd, Take(pipe, n)), Drop(pipe, n))) = Messages(Unread(rd, pipe))
<1> DEFINE chunk == Take(pipe, n)
           rest == Drop(pipe, n)
           b == rd.buf \o chunk
           m == Min({Wanted(rd), Len(b)})
           r == [rd EXCEPT !.acc = @ \o Take(b, m), !.buf = Drop(b, m), !.num = @ - m]
<1>1. n \in 0..Len(pipe) /\ Len(rd.buf) + n <= ReadBufferSize
    BY PiecesBound
<1>2. chunk \in Seq(Byte) /\ Len(chunk) = n /\ rest \in Seq(Byte) /\ chunk \o rest = pipe
    BY <1>1, BytesTakeDrop
<1> HIDE DEF chunk, rest
<1>3. rd.acc \in Seq(Byte) /\ Len(rd.acc) \in Nat /\ rd.num \in Nat /\ rd.buf \in Seq(Byte) /\ rd \in Reader
    BY LenProperties DEF ReaderInv, Reader
<1>4. b \in Seq(Byte) /\ Len(b) = Len(rd.buf) + n /\ Len(b) \in Nat /\ Len(b) <= ReadBufferSize
    <2>1. b \in Seq(Byte) /\ Len(b) = Len(rd.buf) + Len(chunk) /\ Len(rd.buf) \in Nat /\ Len(chunk) \in Nat
        BY <1>2, <1>3, BytesConcat
    <2> QED
        BY <1>1, <1>2, <2>1
<1>5. ReadSome(rd, chunk) = Turn(r)
    BY Zenon DEF ReadSome
<1> HIDE DEF b
<1>6. m \in Nat /\ m <= rd.num /\ m <= Len(b)
    <2>1. Wanted(rd) = IF rd.num <= MaxSingleRead THEN rd.num ELSE MaxSingleRead
        <3>1. rd.num \in Int /\ MaxSingleRead \in Int
            BY <1>3, WireFacts
        <3> QED
            BY <3>1, MinOfTwo DEF Wanted
    <2>2. Wanted(rd) \in Nat /\ Wanted(rd) <= rd.num
        BY <1>3, <2>1, WireFacts
    <2>3. m = IF Wanted(rd) <= Len(b) THEN Wanted(rd) ELSE Len(b)
        <3>1. Wanted(rd) \in Int /\ Len(b) \in Int
            BY <1>4, <2>2
        <3> QED
            BY <3>1, MinOfTwo
    <2> HIDE DEF m
    <2> QED
        BY <1>3, <1>4, <2>2, <2>3
<1> HIDE DEF m
<1>7. /\ Take(b, m) \in Seq(Byte) /\ Len(Take(b, m)) = m
      /\ Drop(b, m) \in Seq(Byte) /\ Len(Drop(b, m)) = Len(b) - m /\ Take(b, m) \o Drop(b, m) = b
    <2>1. m \in 0..Len(b)
        BY <1>4, <1>6
    <2> QED
        BY <1>4, <2>1, BytesTakeDrop
<1>8. rd.acc \o Take(b, m) \in Seq(Byte) /\ Len(rd.acc \o Take(b, m)) = Len(rd.acc) + m
    <2>1. rd.acc \in Seq(Byte) /\ Take(b, m) \in Seq(Byte)
        BY <1>3, <1>7
    <2>2. /\ rd.acc \o Take(b, m) \in Seq(Byte)
          /\ Len(rd.acc \o Take(b, m)) = Len(rd.acc) + Len(Take(b, m))
        BY <2>1, BytesConcat
    <2> QED
        BY <1>7, <2>2
<1>9. rd.num - m \in Nat
    BY <1>3, <1>6
<1>10. /\ r \in Reader /\ r.phase = rd.phase /\ r.acc = rd.acc \o Take(b, m) /\ r.buf = Drop(b, m)
       /\ r.num = rd.num - m
    BY <1>3, <1>7, <1>8, <1>9 DEF Reader
<1> HIDE DEF r
<1>11. Len(r.acc) + r.num = Len(rd.acc) + rd.num /\ Len(r.buf) <= ReadBufferSize
    <2>1. Len(r.acc) = Len(rd.acc) + m /\ r.num = rd.num - m /\ Len(r.buf) = Len(b) - m
        BY <1>7, <1>8, <1>10
    <2>2. ReadBufferSize \in Nat
        BY WireFacts
    <2> QED
        BY <1>3, <1>4, <1>6, <2>1, <2>2
<1>12. Begin(r) = Begin(rd) \o Take(b, m)
    <2>1. CASE rd.phase = "length"
        BY <1>10, <2>1 DEF Begin
    <2>2. CASE rd.phase # "length"
        <3> DEFINE e == EncodeUint(Len(rd.acc) + rd.num, 4)
        <3>1. e \in Seq(Byte)
            <4>1. Len(rd.acc) + rd.num \in Int
                BY <1>3
            <4> QED
                BY <4>1, EncodeUintBytes
        <3>2. Begin(r) = e \o (rd.acc \o Take(b, m)) /\ Begin(rd) = e \o rd.acc
            BY <1>10, <1>11, <2>2 DEF Begin
        <3> HIDE DEF e
        <3>3. (e \o rd.acc) \o Take(b, m) = e \o (rd.acc \o Take(b, m))
            BY <1>3, <1>7, <3>1, BytesAssociative
        <3> QED
            BY <3>2, <3>3, Zenon
    <2> QED
        BY <2>1, <2>2
<1>13. r.phase # "message" /\ (r.phase = "length" => Len(r.acc) + r.num = 4)
       /\ (r.phase = "body" => Len(r.acc) + r.num <= MaxNumber)
    BY <1>10, <1>11 DEF ReaderInv
<1> DEFINE left == r.buf \o rest
<1>14. left \in Seq(Byte)
    BY <1>2, <1>7, <1>10, BytesConcat
<1> HIDE DEF left
<1>15. ReaderInv(Turn(r)) /\ Turn(r).buf = r.buf /\ Messages(Begin(Turn(r)) \o left) = Messages(Begin(r) \o left)
    BY <1>10, <1>11, <1>13, <1>14, TurnKeeps
<1>16. Unread(Turn(r), rest) = Begin(Turn(r)) \o left
    <2>1. Unread(Turn(r), rest) = Begin(Turn(r)) \o (Turn(r).buf \o rest)
        BY <1>2, <1>15, UnreadBytes
    <2> QED
        BY <1>15, <2>1, Zenon DEF left
<1>17. Unread(rd, pipe) = Begin(r) \o left
    <2>1. Unread(rd, pipe) = Begin(rd) \o (rd.buf \o pipe) /\ Begin(rd) \in Seq(Byte)
        BY UnreadBytes
    <2>2. (rd.buf \o chunk) \o rest = rd.buf \o (chunk \o rest)
        BY <1>2, <1>3, BytesAssociative, ZenonT(30)
    <2>3. rd.buf \o pipe = b \o rest
        BY <1>2, <2>2, Zenon DEF b
    <2>4. (Take(b, m) \o Drop(b, m)) \o rest = Take(b, m) \o (Drop(b, m) \o rest)
        BY <1>2, <1>7, BytesAssociative, ZenonT(30)
    <2>5. b \o rest = Take(b, m) \o left
        BY <1>7, <1>10, <2>4, Zenon DEF left
    <2>6. (Begin(rd) \o Take(b, m)) \o left = Begin(rd) \o (Take(b, m) \o left)
        BY <1>7, <1>14, <2>1, BytesAssociative
    <2> QED
        BY <1>12, <2>1, <2>3, <2>5, <2>6, Zenon
<1> QED
    BY <1>2, <1>5, <1>15, <1>16, <1>17, Zenon DEF chunk, rest

(* A message that is read is the first that was not read before. *)
LEMMA MessageRead ==
    ASSUME NEW rd, ReaderInv(rd), rd.phase = "message", NEW pipe \in Seq(Byte)
    PROVE  Messages(Unread(rd, pipe)) = <<rd.acc>> \o Messages(Unread(ReadMessage(rd.buf), pipe))
<1> DEFINE len == Len(rd.acc)
           e == EncodeUint(len, 4)
           left == rd.buf \o pipe
           head == e \o rd.acc
           b == head \o left
<1>1. rd.acc \in Seq(Byte) /\ len \in Nat /\ rd.num = 0 /\ len <= MaxNumber
    BY LenProperties DEF ReaderInv, Reader
<1>2. e \in Seq(Byte) /\ Len(e) = 4 /\ \A c \in Seq(Byte) : DecodeUint(e \o c, 0, 4) = len
    BY <1>1, NumberBytes
<1>3. Begin(rd) = head
    <2>1. len + 0 = len
        BY <1>1
    <2> QED
        BY <1>1, <2>1 DEF Begin
<1>4. Unread(rd, pipe) = b /\ left \in Seq(Byte)
    <2>1. Unread(rd, pipe) = Begin(rd) \o (rd.buf \o pipe) /\ rd.buf \o pipe \in Seq(Byte)
        BY UnreadBytes
    <2> QED
        BY <1>3, <2>1, Zenon
<1>5. Unread(ReadMessage(rd.buf), pipe) = left
    <2>1. /\ ReaderInv(ReadMessage(rd.buf)) /\ ReadMessage(rd.buf).phase = "length"
          /\ ReadMessage(rd.buf).acc = <<>> /\ ReadMessage(rd.buf).buf = rd.buf
        BY ReadMessageReader
    <2>2. Unread(ReadMessage(rd.buf), pipe) = Begin(ReadMessage(rd.buf)) \o (ReadMessage(rd.buf).buf \o pipe)
        BY <2>1, UnreadBytes
    <2>3. Begin(ReadMessage(rd.buf)) = <<>>
        BY <2>1, Zenon DEF Begin
    <2>4. <<>> \o left = left
        BY <1>4, ConcatEmptySeq
    <2> QED
        BY <2>1, <2>2, <2>3, <2>4, Zenon
<1> HIDE DEF e, left
<1>6. head \in Seq(Byte) /\ Len(head) = 4 + len
    <2>1. rd.acc \in Seq(Byte) /\ e \in Seq(Byte)
        BY <1>1, <1>2
    <2>2. e \o rd.acc \in Seq(Byte) /\ Len(e \o rd.acc) = Len(e) + Len(rd.acc)
        BY <2>1, BytesConcat
    <2> QED
        BY <1>2, <2>2
<1>7. head \o left = e \o (rd.acc \o left) /\ rd.acc \o left \in Seq(Byte)
    <2>1. rd.acc \in Seq(Byte) /\ e \in Seq(Byte) /\ left \in Seq(Byte)
        BY <1>1, <1>2, <1>4
    <2>2. (e \o rd.acc) \o left = e \o (rd.acc \o left)
        BY <2>1, BytesAssociative
    <2>3. rd.acc \o left \in Seq(Byte)
        BY <2>1, BytesConcat
    <2> QED
        BY <2>2, <2>3
<1>8. DecodeUint(b, 0, 4) = len
    BY <1>2, <1>7
<1>9. SubSeq(head, 5, 4 + len) = rd.acc
    <2>1. Drop(e \o rd.acc, Len(e)) = rd.acc
        BY <1>1, <1>2, TakeDropConcat
    <2> HIDE DEF len
    <2>2. SubSeq(head, 4 + 1, Len(head)) = rd.acc
        BY <1>2, <2>1 DEF Drop
    <2> HIDE DEF head
    <2> QED
        BY <1>6, <2>2
<1> HIDE DEF head
<1>10. b \in Seq(Byte) /\ Len(b) = (4 + len) + Len(left) /\ Len(left) \in Nat
    BY <1>4, <1>6, BytesConcat
<1>11. Drop(b, 4 + len) = left
    BY <1>4, <1>6, TakeDropConcat
<1>12. SubSeq(b, 5, 4 + len) = rd.acc
    <2> DEFINE from == 5
               to == 4 + len
    <2>1. from \in Nat \ {0} /\ to \in Int /\ to <= Len(head)
        BY <1>1, <1>6
    <2> HIDE DEF from, to
    <2>2. SubSeq(head \o left, from, to) = SubSeq(head, from, to)
        BY <1>4, <1>6, <2>1, SubOfConcat
    <2> QED
        BY <1>9, <2>2 DEF from, to
<1> HIDE DEF b, len
<1>13. 4 + len <= Len(b) /\ 4 <= Len(b)
    BY <1>1, <1>10
<1>14. Messages(b) = <<SubSeq(b, 5, 4 + len)>> \o Messages(Drop(b, 4 + len))
    BY <1>8, <1>10, <1>13, MessagesUnfold
<1> QED
    BY <1>4, <1>5, <1>11, <1>12, <1>14

(* The functions that are called. *)
FunctionIds == SyncFunctions \cup {fSendCapsule}

(* A function has a number of two bytes, and not 0. *)
LEMMA FunctionIdsFit ==
    /\ \A f \in FunctionIds : FitsIn(f, 2) /\ f \in Nat \ {0}
    /\ SyncFunctions \subseteq FunctionIds /\ fSendCapsule \in FunctionIds /\ fSendCapsule \notin SyncFunctions
    /\ 0 \notin SyncFunctions
<1> USE DEF fSendCapsule, fWaitForCapsule, fGetParameter, fRegister, fGetAddresses, fRegisterEphemeral
<1>1. \A f \in FunctionIds : f \in Nat \ {0} /\ f < 65536
    BY SMT DEF FunctionIds, SyncFunctions
<1>2. \A f \in FunctionIds : f \in 0..MaxNumber
    BY <1>1, Limits, SMT
<1>3. fSendCapsule \notin SyncFunctions /\ 0 \notin SyncFunctions
    BY SMT DEF SyncFunctions
<1> QED
    BY <1>1, <1>2, <1>3, SMT DEF FunctionIds, FitsIn

(* A function is the first two bytes of its message. *)
LEMMA FunctionsType ==
    ASSUME NEW b \in Seq(Byte)
    PROVE  /\ Functions(b) \in Seq(Nat) /\ Len(Functions(b)) = Len(Messages(b)) /\ Len(Messages(b)) \in Nat
           /\ \A i \in 1..Len(Messages(b)) : Functions(b)[i] = DecodeUint(Messages(b)[i], 0, 2)
<1> DEFINE ms == Messages(b)
<1>1. ms \in Seq(Seq(Byte)) /\ Len(ms) \in Nat /\ DOMAIN ms = 1..Len(ms)
    BY MessagesType, LenProperties
<1>2. Functions(b) = [i \in DOMAIN ms |-> DecodeUint(ms[i], 0, 2)]
    BY DEF Functions
<1> HIDE DEF ms
<1>3. \A i \in 1..Len(ms) : DecodeUint(ms[i], 0, 2) \in Nat
    <2>1. \A i \in 1..Len(ms) : ms[i] \in Seq(Byte)
        BY <1>1, ElementOfSeq
    <2> QED
        BY <2>1, DecodeNat
<1>4. Functions(b) \in Seq(Nat) /\ Len(Functions(b)) = Len(ms)
      /\ \A i \in 1..Len(ms) : Functions(b)[i] = DecodeUint(ms[i], 0, 2)
    BY <1>1, <1>2, <1>3
<1> QED
    BY <1>1, <1>4 DEF ms

(* Where each function has a number nothing is torn. *)
LEMMA FunctionsWhole ==
    ASSUME NEW b \in Seq(Byte), \A i \in 1..Len(Functions(b)) : Functions(b)[i] # 0
    PROVE  Whole(b)
<1>1. ASSUME NEW i \in 1..Len(Messages(b)), Messages(b)[i] = <<>>
      PROVE  FALSE
    <2>1. Functions(b)[i] = DecodeUint(<<>>, 0, 2)
        BY <1>1, FunctionsType
    <2>2. DecodeUint(<<>>, 0, 2) = 0
        BY DEF DecodeUint
    <2>3. i \in 1..Len(Functions(b))
        BY FunctionsType
    <2> QED
        BY <2>1, <2>2, <2>3
<1> QED
    BY <1>1 DEF Whole

(* One message more is one function more. *)
LEMMA FunctionsAppend ==
    ASSUME NEW a \in Seq(Byte), NEW b \in Seq(Byte), NEW m \in Seq(Byte), Messages(b) = Append(Messages(a), m)
    PROVE  Functions(b) = Append(Functions(a), DecodeUint(m, 0, 2))
<1> DEFINE as == Messages(a)
           fs == Functions(a)
           f == DecodeUint(m, 0, 2)
<1>1. as \in Seq(Seq(Byte)) /\ f \in Nat
    BY MessagesType, DecodeNat
<1>2. /\ fs \in Seq(Nat) /\ Len(fs) = Len(as) /\ Len(as) \in Nat
      /\ \A i \in 1..Len(as) : fs[i] = DecodeUint(as[i], 0, 2)
    BY FunctionsType
<1>3. /\ Functions(b) \in Seq(Nat) /\ Len(Functions(b)) = Len(Append(as, m))
      /\ \A i \in 1..Len(Append(as, m)) : Functions(b)[i] = DecodeUint(Append(as, m)[i], 0, 2)
    BY FunctionsType
<1>4. /\ Len(Append(as, m)) = Len(as) + 1 /\ Append(as, m)[Len(as) + 1] = m
      /\ \A i \in 1..Len(as) : Append(as, m)[i] = as[i]
    <2> HIDE DEF as
    <2> QED
        BY <1>1, AppendProperties, ZenonT(30)
<1>5. /\ Append(fs, f) \in Seq(Nat) /\ Len(Append(fs, f)) = Len(fs) + 1 /\ Append(fs, f)[Len(fs) + 1] = f
      /\ \A i \in 1..Len(fs) : Append(fs, f)[i] = fs[i]
    <2> HIDE DEF fs, f
    <2> QED
        BY <1>1, <1>2, AppendProperties
<1> HIDE DEF as, fs
<1>6. ASSUME NEW i \in 1..(Len(as) + 1)
      PROVE  Functions(b)[i] = Append(fs, f)[i]
    <2>1. CASE i \in 1..Len(as)
        <3> HIDE DEF f
        <3> QED
            BY <1>2, <1>3, <1>4, <1>5, <2>1
    <2>2. CASE i = Len(as) + 1
        BY <1>2, <1>3, <1>4, <1>5, <2>2
    <2>3. i \in 1..Len(as) \/ i = Len(as) + 1
        <3> DEFINE n == Len(as)
        <3>1. n \in Nat /\ i \in 1..(n + 1)
            BY <1>2
        <3> HIDE DEF n, f
        <3>2. i \in 1..n \/ i = n + 1
            BY ONLY <3>1
        <3> QED
            BY <3>2 DEF n
    <2> QED
        BY <2>1, <2>2, <2>3
<1> HIDE DEF f
<1>7. Functions(b) = Append(fs, f)
    <2>1. /\ Functions(b) \in Seq(Nat) /\ Append(fs, f) \in Seq(Nat)
          /\ Len(Functions(b)) = Len(Append(fs, f)) /\ Len(Functions(b)) = Len(as) + 1
        BY <1>2, <1>3, <1>4, <1>5
    <2>2. \A i \in 1..Len(Functions(b)) : Functions(b)[i] = Append(fs, f)[i]
        BY <1>6, <2>1
    <2> QED
        BY <2>1, <2>2, SeqEqual
<1> QED
    BY <1>7 DEF fs, f

(* The first message calls the first function. *)
LEMMA FunctionsHead ==
    ASSUME NEW a \in Seq(Byte), NEW b \in Seq(Byte), NEW m \in Seq(Byte), Messages(b) = <<m>> \o Messages(a)
    PROVE  Functions(b) = <<DecodeUint(m, 0, 2)>> \o Functions(a)
<1> DEFINE as == Messages(a)
           fs == Functions(a)
           f == DecodeUint(m, 0, 2)
<1>1. as \in Seq(Seq(Byte)) /\ f \in Nat /\ <<m>> \in Seq(Seq(Byte)) /\ Len(<<m>>) = 1
    <2>1. as \in Seq(Seq(Byte)) /\ f \in Nat
        BY MessagesType, DecodeNat
    <2>2. <<m>> \in Seq(Seq(Byte)) /\ Len(<<m>>) = 1
        OBVIOUS
    <2> QED
        BY <2>1, <2>2
<1>2. /\ fs \in Seq(Nat) /\ Len(fs) = Len(as) /\ Len(as) \in Nat
      /\ \A i \in 1..Len(as) : fs[i] = DecodeUint(as[i], 0, 2)
    BY FunctionsType
<1>3. /\ Functions(b) \in Seq(Nat) /\ Len(Functions(b)) = Len(<<m>> \o as)
      /\ \A i \in 1..Len(<<m>> \o as) : Functions(b)[i] = DecodeUint((<<m>> \o as)[i], 0, 2)
    BY FunctionsType
<1>4. /\ Len(<<m>> \o as) = 1 + Len(as)
      /\ \A i \in 1..(1 + Len(as)) : (<<m>> \o as)[i] = IF i <= 1 THEN <<m>>[i] ELSE as[i - 1]
    <2> HIDE DEF as
    <2> QED
        BY <1>1, ConcatProperties
<1>5. /\ <<f>> \o fs \in Seq(Nat) /\ Len(<<f>> \o fs) = 1 + Len(fs)
      /\ \A i \in 1..(1 + Len(fs)) : (<<f>> \o fs)[i] = IF i <= 1 THEN <<f>>[i] ELSE fs[i - 1]
    <2> HIDE DEF fs, f
    <2>1. <<f>> \in Seq(Nat) /\ Len(<<f>>) = 1
        BY <1>1
    <2> QED
        BY <1>2, <2>1, ConcatProperties
<1> HIDE DEF as, fs
<1>6. ASSUME NEW i \in 1..(1 + Len(as))
      PROVE  Functions(b)[i] = (<<f>> \o fs)[i]
    <2>1. CASE i = 1
        <3>1. (<<m>> \o as)[i] = m
            BY <1>2, <1>4, <2>1
        <3>2. Functions(b)[i] = f
            BY <1>3, <1>4, <3>1
        <3> HIDE DEF f
        <3> QED
            BY <1>2, <1>5, <2>1, <3>2
    <2>2. CASE i # 1
        <3>1. i - 1 \in 1..Len(as) /\ ~ (i <= 1)
            <4> DEFINE n == Len(as)
            <4>1. n \in Nat /\ i \in 1..(1 + n)
                BY <1>2
            <4> HIDE DEF n, f
            <4>2. i - 1 \in 1..n /\ ~ (i <= 1)
                BY ONLY <4>1, <2>2
            <4> QED
                BY <4>2 DEF n
        <3>2. (<<m>> \o as)[i] = as[i - 1]
            BY <1>4, <3>1
        <3>3. Functions(b)[i] = fs[i - 1]
            <4> HIDE DEF f
            <4> QED
                BY <1>2, <1>3, <1>4, <3>1, <3>2
        <3> HIDE DEF f
        <3> QED
            BY <1>2, <1>5, <3>1, <3>3
    <2> QED
        BY <2>1, <2>2
<1> HIDE DEF f
<1>7. Functions(b) = <<f>> \o fs
    <2>1. /\ Functions(b) \in Seq(Nat) /\ <<f>> \o fs \in Seq(Nat)
          /\ Len(Functions(b)) = Len(<<f>> \o fs) /\ Len(Functions(b)) = 1 + Len(as)
        BY <1>2, <1>3, <1>4, <1>5
    <2>2. \A i \in 1..Len(Functions(b)) : Functions(b)[i] = (<<f>> \o fs)[i]
        BY <1>6, <2>1
    <2> QED
        BY <2>1, <2>2, SeqEqual
<1> QED
    BY <1>7 DEF fs, f

(* A datagram: two bytes for the function, then its body. *)
LEMMA DatagramBytes ==
    ASSUME NEW f \in FunctionIds, NEW body \in Seq(Byte)
    PROVE  /\ Datagram(f, body) \in Seq(Byte) /\ Len(Datagram(f, body)) = 2 + Len(body)
           /\ DecodeUint(Datagram(f, body), 0, 2) = f /\ Drop(Datagram(f, body), 2) = body
           /\ RecvData(Datagram(f, body)) = [ok |-> TRUE, fid |-> f, body |-> body]
<1> DEFINE e == EncodeUint(f, 2)
<1>1. FitsIn(f, 2) /\ f \in Int /\ 2 \in Nat
    BY FunctionIdsFit
<1>2. e \in Seq(Byte) /\ Len(e) = 2 /\ DecodeUint(e \o body, 0, 2) = f
    BY <1>1, EncodeUintBytes, DecodeEncode
<1>3. Datagram(f, body) = e \o body
    BY DEF Datagram
<1> HIDE DEF e
<1>4. e \o body \in Seq(Byte) /\ Len(e \o body) = 2 + Len(body) /\ Len(body) \in Nat
    BY <1>2, BytesConcat
<1>5. Drop(e \o body, 2) = body
    BY <1>2, TakeDropConcat
<1>6. ~ (Len(Datagram(f, body)) < 2)
    BY <1>3, <1>4
<1> QED
    BY <1>2, <1>3, <1>4, <1>5, <1>6 DEF RecvData

(* A frame is a string of bytes. *)
LEMMA FrameBytes ==
    ASSUME NEW m \in Seq(Byte), Len(m) <= MaxNumber
    PROVE  Frame(m) \in Seq(Byte)
<1>1. Len(m) \in Nat
    BY LenProperties
<1>2. EncodeUint(Len(m), 4) \in Seq(Byte)
    BY <1>1, NumberBytes
<1> QED
    BY <1>2, BytesConcat DEF Frame, LengthSize

(* A datagram that is written comes behind those not read yet. *)
LEMMA FunctionsWrite ==
    ASSUME NEW rd, ReaderInv(rd), NEW pipe \in Seq(Byte),
           \A i \in 1..Len(Functions(Unread(rd, pipe))) : Functions(Unread(rd, pipe))[i] # 0,
           NEW f \in FunctionIds, NEW body \in Seq(Byte), 2 + Len(body) <= MaxNumber
    PROVE  /\ pipe \o Frame(Datagram(f, body)) \in Seq(Byte)
           /\ Functions(Unread(rd, pipe \o Frame(Datagram(f, body)))) = Append(Functions(Unread(rd, pipe)), f)
<1> DEFINE m == Datagram(f, body)
           b == Unread(rd, pipe)
<1>1. m \in Seq(Byte) /\ Len(m) <= MaxNumber /\ DecodeUint(m, 0, 2) = f
    BY DatagramBytes
<1> HIDE DEF m
<1>2. b \in Seq(Byte)
    BY UnreadBytes
<1>3. Whole(b)
    BY <1>2, FunctionsWhole
<1>4. Frame(m) \in Seq(Byte)
    BY <1>1, FrameBytes
<1>5. pipe \o Frame(m) \in Seq(Byte) /\ b \o Frame(m) \in Seq(Byte)
    BY <1>2, <1>4, BytesConcat
<1>6. Messages(b \o Frame(m)) = Append(Messages(b), m)
    BY <1>1, <1>2, <1>3, MessagesAppend
<1>7. Unread(rd, pipe \o Frame(m)) = b \o Frame(m)
    BY <1>4, UnreadWrite
<1> HIDE DEF b
<1>8. Functions(b \o Frame(m)) = Append(Functions(b), f)
    BY <1>1, <1>2, <1>5, <1>6, FunctionsAppend
<1> QED
    BY <1>5, <1>7, <1>8, Zenon DEF m, b

(* ReadMessage takes the first function. *)
LEMMA FunctionsRead ==
    ASSUME NEW rd, ReaderInv(rd), rd.phase = "message", NEW pipe \in Seq(Byte)
    PROVE  /\ ReaderInv(ReadMessage(rd.buf))
           /\ Functions(Unread(rd, pipe)) = <<DecodeUint(rd.acc, 0, 2)>> \o Functions(Unread(ReadMessage(rd.buf), pipe))
<1>1. ReaderInv(ReadMessage(rd.buf))
    BY ReadMessageReader
<1>2. Unread(rd, pipe) \in Seq(Byte) /\ Unread(ReadMessage(rd.buf), pipe) \in Seq(Byte)
    BY <1>1, UnreadBytes
<1>3. rd.acc \in Seq(Byte)
    BY DEF ReaderInv, Reader
<1>4. Messages(Unread(rd, pipe)) = <<rd.acc>> \o Messages(Unread(ReadMessage(rd.buf), pipe))
    BY MessageRead
<1> QED
    BY <1>1, <1>2, <1>3, <1>4, FunctionsHead

(* ReadSome keeps the functions that are called. *)
LEMMA FunctionsKept ==
    ASSUME NEW rd, ReaderInv(rd), rd.phase # "message", NEW pipe \in Seq(Byte), NEW n \in Pieces(rd, pipe)
    PROVE  /\ ReaderInv(ReadSome(rd, Take(pipe, n))) /\ Drop(pipe, n) \in Seq(Byte)
           /\ Functions(Unread(ReadSome(rd, Take(pipe, n)), Drop(pipe, n))) = Functions(Unread(rd, pipe))
BY ReadSomeKeeps, Zenon DEF Functions

Sized(n) == {b \in Seq(Byte) : Len(b) = n}

CapsuleSet == [ok : {TRUE}, dst : Sized(AddressSize), src : Sized(AddressSize), hop : Nat, dx : BOOLEAN,
               ds : BOOLEAN, appId : Sized(HashSize), data : Seq(Byte)]

(* What is put together is as long as its parts. *)
LEMMA ConcatSize ==
    ASSUME NEW a \in Seq(Byte), NEW b \in Seq(Byte)
    PROVE  a \o b \in Seq(Byte) /\ Len(a \o b) = Len(a) + Len(b) /\ Len(a) \in Nat /\ Len(b) \in Nat
BY BytesConcat

(* The empty string. *)
LEMMA NoBytes == <<>> \in Seq(Byte) /\ Len(<<>>) = 0
BY EmptySeq

(* A string of one byte. *)
LEMMA OneByte ==
    ASSUME NEW x \in Byte
    PROVE  <<x>> \in Seq(Byte) /\ Len(<<x>>) = 1
OBVIOUS

(* A string of two bytes. *)
LEMMA TwoBytes ==
    ASSUME NEW x \in Byte, NEW y \in Byte
    PROVE  <<x, y>> \in Seq(Byte) /\ Len(<<x, y>>) = 2
OBVIOUS

(* The bytes that the messages begin with. *)
LEMMA SmallBytes ==
    /\ \A x \in {0, 1, 2, 3, 4, 5, 54, 58, 65, 66, 67, 68, 69, 80, 81, 82, 83, 92} : x \in Byte
    /\ Byte \subseteq Nat
<1>1. \A x \in {0, 1, 2, 3, 4, 5, 54, 58, 65, 66, 67, 68, 69, 80, 81, 82, 83, 92} : x \in Nat /\ x <= 255
    BY SMT
<1>2. \A x \in {0, 1, 2, 3, 4, 5, 54, 58, 65, 66, 67, 68, 69, 80, 81, 82, 83, 92} : x \in Byte
    BY <1>1, Limits, SMT
<1>3. Byte \subseteq Nat
    BY Limits, SMT
<1> QED
    BY <1>2, <1>3, Zenon

(* Capsules have the size that is expected of them. *)
LEMMA PackBytes ==
    ASSUME NEW c, c.dst \in Sized(AddressSize), c.src \in Sized(AddressSize), c.hop \in Nat, c.dx \in BOOLEAN,
           c.ds \in BOOLEAN, c.appId \in Sized(HashSize), c.data \in Seq(Byte)
    PROVE  PackCapsule(c) \in Seq(Byte) /\ Len(PackCapsule(c)) = HeaderSize + Len(c.data) /\ Len(c.data) \in Nat
<1> DEFINE h == EncodeUint(c.hop, 2)
           f == <<(IF c.dx THEN 1 ELSE 0) + (IF c.ds THEN 2 ELSE 0)>>
           s1 == c.dst \o c.src
           s2 == s1 \o h
           s3 == s2 \o f
           s4 == s3 \o c.appId
           s5 == s4 \o c.data
<1>1. PackCapsule(c) = s5
    BY Zenon DEF PackCapsule
<1>2. h \in Seq(Byte) /\ Len(h) = 2
    <2>1. c.hop \in Int /\ 2 \in Nat
        OBVIOUS
    <2> QED
        BY <2>1, EncodeUintBytes
<1>3. f \in Seq(Byte) /\ Len(f) = 1
    <2> DEFINE x == (IF c.dx THEN 1 ELSE 0) + (IF c.ds THEN 2 ELSE 0)
    <2>1. x \in {0, 1, 2, 3}
        OBVIOUS
    <2>2. x \in Byte
        <3> HIDE DEF x
        <3> QED
            BY <2>1, SmallBytes
    <2>3. f = <<x>>
        OBVIOUS
    <2> HIDE DEF x, f
    <2> QED
        BY <2>2, <2>3, OneByte
<1> HIDE DEF h, f
<1>4. c.dst \in Seq(Byte) /\ Len(c.dst) = AddressSize /\ c.src \in Seq(Byte) /\ Len(c.src) = AddressSize
      /\ c.appId \in Seq(Byte) /\ Len(c.appId) = HashSize /\ c.data \in Seq(Byte)
    BY DEF Sized
<1>5. s1 \in Seq(Byte) /\ Len(s1) = AddressSize + AddressSize
    <2>1. c.dst \in Seq(Byte) /\ c.src \in Seq(Byte)
        BY <1>4
    <2>2. c.dst \o c.src \in Seq(Byte) /\ Len(c.dst \o c.src) = Len(c.dst) + Len(c.src)
        BY <2>1, ConcatSize
    <2> QED
        BY <1>4, <2>2
<1> HIDE DEF s1
<1>6. s2 \in Seq(Byte) /\ Len(s2) = AddressSize + AddressSize + 2
    BY <1>2, <1>5, ConcatSize
<1> HIDE DEF s2
<1>7. s3 \in Seq(Byte) /\ Len(s3) = AddressSize + AddressSize + 2 + 1
    BY <1>3, <1>6, ConcatSize
<1> HIDE DEF s3
<1>8. s4 \in Seq(Byte) /\ Len(s4) = AddressSize + AddressSize + 2 + 1 + HashSize
    BY <1>4, <1>7, ConcatSize
<1> HIDE DEF s4
<1>9. s5 \in Seq(Byte) /\ Len(s5) = AddressSize + AddressSize + 2 + 1 + HashSize + Len(c.data) /\ Len(c.data) \in Nat
    BY <1>4, <1>8, ConcatSize
<1> HIDE DEF s5
<1>10. AddressSize \in Nat /\ HashSize \in Nat
    BY Sizes
<1>11. AddressSize + AddressSize + 2 + 1 + HashSize = HeaderSize
    BY <1>10 DEF HeaderSize
<1> QED
    BY <1>1, <1>9, <1>11

(* What is unpacked is a capsule or a failure. *)
LEMMA UnpackType ==
    ASSUME NEW b \in Seq(Byte)
    PROVE  \/ UnpackCapsule(b) = Failed
           \/ /\ UnpackCapsule(b) \in CapsuleSet
              /\ HeaderSize + Len(UnpackCapsule(b).data) = Len(b)
<1>1. CASE Len(b) < HeaderSize
    BY <1>1 DEF UnpackCapsule
<1>2. CASE ~ (Len(b) < HeaderSize)
    <2> DEFINE flags == b[2 * AddressSize + 3]
               c == [ok |-> TRUE,
                     dst |-> Take(b, AddressSize),
                     src |-> SubSeq(b, AddressSize + 1, 2 * AddressSize),
                     hop |-> DecodeUint(b, 2 * AddressSize, 2),
                     dx |-> flags % 2 = 1,
                     ds |-> (flags \div 2) % 2 = 1,
                     appId |-> SubSeq(b, 2 * AddressSize + 4, HeaderSize),
                     data |-> Drop(b, HeaderSize)]
    <2>1. UnpackCapsule(b) = c
        BY <1>2, Zenon DEF UnpackCapsule
    <2>2. /\ Len(b) \in Nat /\ AddressSize \in Nat \ {0} /\ HashSize \in Nat \ {0} /\ HeaderSize \in Nat
          /\ HeaderSize <= Len(b) /\ HeaderSize = 2 * AddressSize + 3 + HashSize
        BY <1>2, LenProperties, Sizes DEF HeaderSize
    <2>3. Take(b, AddressSize) \in Sized(AddressSize)
        <3>1. AddressSize \in 0..Len(b)
            BY <2>2
        <3> QED
            BY <3>1, BytesTakeDrop DEF Sized
    <2>4. SubSeq(b, AddressSize + 1, 2 * AddressSize) \in Sized(AddressSize)
        <3> DEFINE from == AddressSize + 1
                   to == 2 * AddressSize
        <3>1. from \in Nat \ {0} /\ to \in Int /\ to <= Len(b) /\ to - from + 1 = AddressSize /\ from <= to
            BY <2>2
        <3> HIDE DEF from, to
        <3>2. SubSeq(b, from, to) \in Seq(Byte) /\ Len(SubSeq(b, from, to)) = to - from + 1
            BY <3>1, BytesSub
        <3> QED
            BY <3>1, <3>2 DEF Sized, from, to
    <2>5. DecodeUint(b, 2 * AddressSize, 2) \in Nat
        <3>1. 2 * AddressSize \in Nat /\ 2 \in Nat
            BY <2>2
        <3> QED
            BY <3>1, DecodeNat
    <2>6. SubSeq(b, 2 * AddressSize + 4, HeaderSize) \in Sized(HashSize)
        <3> DEFINE from == 2 * AddressSize + 4
        <3>1. /\ from \in Nat \ {0} /\ HeaderSize \in Int /\ HeaderSize <= Len(b)
              /\ HeaderSize - from + 1 = HashSize /\ from <= HeaderSize
            BY <2>2
        <3> HIDE DEF from
        <3>2. SubSeq(b, from, HeaderSize) \in Seq(Byte) /\ Len(SubSeq(b, from, HeaderSize)) = HeaderSize - from + 1
            BY <3>1, BytesSub
        <3> QED
            BY <3>1, <3>2 DEF Sized, from
    <2>7. Drop(b, HeaderSize) \in Seq(Byte) /\ Len(Drop(b, HeaderSize)) = Len(b) - HeaderSize
        <3>1. HeaderSize \in 0..Len(b)
            BY <2>2
        <3> QED
            BY <3>1, BytesTakeDrop
    <2>8. c \in CapsuleSet
        BY <2>3, <2>4, <2>5, <2>6, <2>7, Zenon DEF CapsuleSet
    <2>9. HeaderSize + Len(c.data) = Len(b)
        BY <2>2, <2>7
    <2> QED
        BY <2>1, <2>8, <2>9
<1> QED
    BY <1>1, <1>2

(* A message of the shell that is not too long for the stream. *)
MessageFits(m) == m \in Seq(Byte) /\ HeaderSize + Len(m) + 19 <= MaxNumber

(* What the session sends fits into a frame. *)
LEMMA WireLimits ==
    /\ HeaderSize + (MaxUser + MaxA) + 23 <= MaxNumber /\ HeaderSize + MaxM1 + 23 <= MaxNumber
    /\ HeaderSize + MaxM2 + 23 <= MaxNumber /\ HeaderSize + (MaxSalt + MaxB) + 23 <= MaxNumber
    /\ HeaderSize + (MaxPacket + DigestLen) + 23 <= MaxNumber
    /\ Len(NodeAddresses) * AddressSize + 2 <= MaxNumber
    /\ MaxNumber \in Nat
<1>1. /\ \A n \in {MaxUser + MaxA, MaxM1, MaxM2, MaxSalt + MaxB, MaxPacket + DigestLen} :
             HeaderSize + n + 23 <= MaxNumber
      /\ Len(NodeAddresses) * AddressSize + 2 <= MaxNumber
    BY WireAssumption, Zenon DEF WireConstants
<1>2. MaxNumber \in Nat
    BY Limits, SMT
<1> QED
    BY <1>1, <1>2, Zenon

(* The beginning of a message has two bytes. *)
LEMMA StartBytes ==
    ASSUME NEW type \in {mA, mB, mC, mD, mP, mQ, mR}
    PROVE  Start(type) \in Seq(Byte) /\ Len(Start(type)) = 2
<1>1. type \in Byte /\ 69 \in Byte
    BY SmallBytes, SMT DEF mA, mB, mC, mD, mP, mQ, mR
<1> QED
    BY <1>1, TwoBytes DEF Start

(* Message A fits. *)
LEMMA ConstructABytes ==
    ASSUME NEW u \in Seq(Byte), NEW a \in Seq(Byte), ConstructA(u, a).ok
    PROVE  MessageFits(ConstructA(u, a).out)
<1>1. /\ Len(u) \in MinUser..MaxUser /\ Len(a) \in MinA..MaxA
      /\ ConstructA(u, a).out = ((Start(mA) \o u) \o <<0>>) \o a
    BY Zenon DEF ConstructA, Message, Failed
<1>2. Start(mA) \in Seq(Byte) /\ Len(Start(mA)) = 2
    BY StartBytes
<1>3. <<0>> \in Seq(Byte) /\ Len(<<0>>) = 1
    BY SmallBytes, OneByte
<1>4. Start(mA) \o u \in Seq(Byte) /\ Len(Start(mA) \o u) = 2 + Len(u) /\ Len(u) \in Nat
    BY <1>2, ConcatSize, ZenonT(30)
<1> DEFINE s == Start(mA) \o u
<1> HIDE DEF s
<1>5. s \o <<0>> \in Seq(Byte) /\ Len(s \o <<0>>) = 3 + Len(u)
    <2>1. s \in Seq(Byte) /\ <<0>> \in Seq(Byte)
        BY <1>3, <1>4 DEF s
    <2>2. s \o <<0>> \in Seq(Byte) /\ Len(s \o <<0>>) = Len(s) + Len(<<0>>)
        BY <2>1, ConcatSize
    <2> QED
        BY <1>3, <1>4, <2>2 DEF s
<1> DEFINE t == s \o <<0>>
<1> HIDE DEF t
<1>6. t \o a \in Seq(Byte) /\ Len(t \o a) = 3 + Len(u) + Len(a) /\ Len(a) \in Nat
    <2>1. t \in Seq(Byte)
        BY <1>5 DEF t
    <2>2. t \o a \in Seq(Byte) /\ Len(t \o a) = Len(t) + Len(a) /\ Len(a) \in Nat
        BY <2>1, ConcatSize
    <2> QED
        BY <1>5, <2>2 DEF t
<1>7. HeaderSize + (3 + Len(u) + Len(a)) + 19 <= MaxNumber
    <2>1. Len(u) <= MaxUser /\ Len(a) <= MaxA
        BY <1>1, <1>4, <1>6, Sizes
    <2>2. HeaderSize \in Nat /\ MaxUser \in Nat /\ MaxA \in Nat
        BY Sizes
    <2> QED
        BY <1>4, <1>6, <2>1, <2>2, WireLimits
<1> QED
    BY <1>1, <1>6, <1>7 DEF MessageFits, t, s

(* The other messages are a beginning of at most four bytes and one or two strings. *)
LEMMA BeginFits ==
    ASSUME NEW h \in Seq(Byte), Len(h) <= 4, NEW b \in Seq(Byte), NEW n \in Nat, Len(b) <= n,
           HeaderSize + n + 23 <= MaxNumber
    PROVE  MessageFits(h \o b)
<1>1. h \o b \in Seq(Byte) /\ Len(h \o b) = Len(h) + Len(b) /\ Len(h) \in Nat /\ Len(b) \in Nat
    BY ConcatSize
<1>2. HeaderSize \in Nat /\ MaxNumber \in Nat
    BY Sizes, WireLimits
<1>3. HeaderSize + (Len(h) + Len(b)) + 19 <= MaxNumber
    BY <1>1, <1>2
<1> QED
    BY <1>1, <1>3 DEF MessageFits

(* Message P fits. *)
LEMMA ConstructPBytes ==
    ASSUME NEW salt \in Seq(Byte), NEW b \in Seq(Byte), ConstructPSuccess(salt, b).ok
    PROVE  MessageFits(ConstructPSuccess(salt, b).out)
<1> DEFINE h == Start(mP) \o <<0, Len(salt)>>
<1>1. /\ Len(salt) \in MinSalt..MaxSalt /\ Len(b) \in MinB..MaxB
      /\ ConstructPSuccess(salt, b).out = (h \o salt) \o b
    BY Zenon DEF ConstructPSuccess, Message, Failed
<1>2. Start(mP) \in Seq(Byte) /\ Len(Start(mP)) = 2
    BY StartBytes
<1>3. Len(salt) \in Nat /\ Len(b) \in Nat /\ Len(salt) <= MaxSalt /\ Len(b) <= MaxB
    BY <1>1, LenProperties, Sizes
<1>4. <<0, Len(salt)>> \in Seq(Byte) /\ Len(<<0, Len(salt)>>) = 2
    <2>1. Len(salt) \in Byte /\ 0 \in Byte
        <3>1. Len(salt) <= 255
            BY <1>3, Sizes
        <3>2. Len(salt) \in Byte
            BY <1>3, <3>1, Limits, SMT
        <3> QED
            BY <3>2, SmallBytes
    <2> QED
        BY <2>1, TwoBytes
<1>5. h \in Seq(Byte) /\ Len(h) <= 4
    <2> DEFINE e == <<0, Len(salt)>>
    <2> HIDE DEF e
    <2>1. Start(mP) \o e \in Seq(Byte) /\ Len(Start(mP) \o e) = Len(Start(mP)) + Len(e)
        BY <1>2, <1>4, ConcatSize DEF e
    <2> QED
        BY <1>2, <1>4, <2>1 DEF e
<1> HIDE DEF h
<1>6. (h \o salt) \o b = h \o (salt \o b)
    BY <1>5, BytesAssociative
<1>7. salt \o b \in Seq(Byte) /\ Len(salt \o b) <= MaxSalt + MaxB /\ MaxSalt + MaxB \in Nat
    <2>1. salt \o b \in Seq(Byte) /\ Len(salt \o b) = Len(salt) + Len(b)
        BY ConcatSize
    <2>2. MaxSalt \in Nat /\ MaxB \in Nat
        BY Sizes
    <2> QED
        BY <1>3, <2>1, <2>2
<1>8. MessageFits(h \o (salt \o b))
    BY <1>5, <1>7, WireLimits, BeginFits
<1> QED
    BY <1>1, <1>6, <1>8

(* A refusal fits. *)
LEMMA ConstructFailBytes ==
    ASSUME NEW type \in {mP, mQ}, NEW error \in Byte
    PROVE  MessageFits(ConstructFail(type, error).out)
<1>1. ConstructFail(type, error).out = Start(type) \o <<error>>
    BY DEF ConstructFail, Message
<1>2. Start(type) \in Seq(Byte) /\ Len(Start(type)) = 2
    BY StartBytes
<1>3. <<error>> \in Seq(Byte) /\ Len(<<error>>) = 1
    BY OneByte
<1>4. MaxM1 \in Nat
    BY Sizes
<1> DEFINE e == <<error>>
<1> HIDE DEF e
<1>5. e \in Seq(Byte) /\ Start(type) \o e \in Seq(Byte) /\ Len(Start(type) \o e) = 3
    <2>1. e \in Seq(Byte) /\ Len(e) = 1
        BY <1>3 DEF e
    <2>2. Start(type) \o e \in Seq(Byte) /\ Len(Start(type) \o e) = Len(Start(type)) + Len(e)
        BY <1>2, <2>1, ConcatSize
    <2> QED
        BY <1>2, <2>1, <2>2
<1>6. HeaderSize + 3 + 19 <= MaxNumber
    BY <1>4, Sizes, WireLimits
<1> QED
    BY <1>1, <1>5, <1>6 DEF MessageFits, e

(* Messages B and Q fit. *)
LEMMA ConstructBQBytes ==
    ASSUME NEW m \in Seq(Byte)
    PROVE  /\ ConstructB(m).ok => MessageFits(ConstructB(m).out)
           /\ ConstructQSuccess(m).ok => MessageFits(ConstructQSuccess(m).out)
<1>1. Start(mB) \in Seq(Byte) /\ Len(Start(mB)) = 2 /\ Start(mQ) \in Seq(Byte) /\ Len(Start(mQ)) = 2
    BY StartBytes
<1>2. Len(m) \in Nat /\ MaxM1 \in Nat /\ MaxM2 \in Nat
    BY LenProperties, Sizes
<1>3. ASSUME ConstructB(m).ok
      PROVE  MessageFits(ConstructB(m).out)
    <2>1. Len(m) \in MinM1..MaxM1 /\ ConstructB(m).out = Start(mB) \o m
        BY <1>3, Zenon DEF ConstructB, Message, Failed
    <2>2. Len(m) <= MaxM1
        BY <1>2, <2>1, Sizes
    <2>3. Len(Start(mB)) <= 4
        BY <1>1
    <2>4. MessageFits(Start(mB) \o m)
        BY <1>1, <1>2, <2>2, <2>3, WireLimits, BeginFits
    <2> QED
        BY <2>1, <2>4
<1>4. ASSUME ConstructQSuccess(m).ok
      PROVE  MessageFits(ConstructQSuccess(m).out)
    <2> DEFINE h == Start(mQ) \o <<0>>
    <2>1. Len(m) \in MinM2..MaxM2 /\ ConstructQSuccess(m).out = h \o m
        BY <1>4, Zenon DEF ConstructQSuccess, Message, Failed
    <2>2. Len(m) <= MaxM2
        BY <1>2, <2>1, Sizes
    <2>3. h \in Seq(Byte) /\ Len(h) <= 4
        <3> DEFINE e == <<0>>
        <3>1. e \in Seq(Byte) /\ Len(e) = 1
            BY SmallBytes, OneByte
        <3> HIDE DEF e
        <3>2. Start(mQ) \o e \in Seq(Byte) /\ Len(Start(mQ) \o e) = Len(Start(mQ)) + Len(e)
            BY <1>1, <3>1, ConcatSize
        <3> QED
            BY <1>1, <3>1, <3>2 DEF e
    <2> HIDE DEF h
    <2>4. MessageFits(h \o m)
        BY <1>2, <2>2, <2>3, WireLimits, BeginFits
    <2> QED
        BY <2>1, <2>4
<1> QED
    BY <1>3, <1>4

(* Messages C and R fit when the encryption made their contents. *)
LEMMA ConstructCRBytes ==
    ASSUME NEW m \in Seq(Byte), Len(m) <= MaxPacket + DigestLen
    PROVE  MessageFits(ConstructC(m)) /\ MessageFits(ConstructR(m, 0))
<1>1. Start(mC) \in Seq(Byte) /\ Len(Start(mC)) = 2 /\ Start(mR) \in Seq(Byte) /\ Len(Start(mR)) = 2
    BY StartBytes
<1>2. MaxPacket + DigestLen \in Nat
    BY DatagramAssumption, SrpAssumption
<1>3. MessageFits(Start(mC) \o m)
    <2>1. Len(Start(mC)) <= 4
        BY <1>1
    <2> QED
        BY <1>1, <1>2, <2>1, WireLimits, BeginFits
<1> DEFINE h == Start(mR) \o <<0>>
<1>4. h \in Seq(Byte) /\ Len(h) <= 4
    <2> DEFINE e == <<0>>
    <2>1. e \in Seq(Byte) /\ Len(e) = 1
        BY SmallBytes, OneByte
    <2> HIDE DEF e
    <2>2. Start(mR) \o e \in Seq(Byte) /\ Len(Start(mR) \o e) = Len(Start(mR)) + Len(e)
        BY <1>1, <2>1, ConcatSize
    <2> QED
        BY <1>1, <2>1, <2>2 DEF e
<1>5. MessageFits(h \o m)
    <2> HIDE DEF h
    <2> QED
        BY <1>2, <1>4, WireLimits, BeginFits
<1> QED
    BY <1>3, <1>5 DEF ConstructC, ConstructR

(* The packet of the exchange in a capsule. *)
LEMMA RequestBytes ==
    ASSUME NEW dst \in Sized(AddressSize), NEW src \in Sized(AddressSize), NEW dport \in Nat, NEW sport \in Nat,
           NEW seq \in Nat, NEW m, MessageFits(m),
           NEW junk, junk.hop \in Nat, junk.dx \in BOOLEAN, junk.appId \in Sized(HashSize)
    PROVE  LET b == PackCapsule(DSCapsule(dst, src, dport, sport, Packet(seq, m), junk))
           IN  b \in Seq(Byte) /\ Len(b) + 6 <= MaxNumber
<1> DEFINE e == EncodeUint(seq, 8)
           f == <<SOF>>
           p == Packet(seq, m)
           d == EncodeUint(dport, 2) \o EncodeUint(sport, 2)
           c == DSCapsule(dst, src, dport, sport, p, junk)
<1>1. m \in Seq(Byte) /\ HeaderSize + Len(m) + 19 <= MaxNumber /\ Len(m) \in Nat
    BY LenProperties DEF MessageFits
<1>2. p = (f \o e) \o m
    BY DEF Packet
<1> HIDE DEF p
<1>3. e \in Seq(Byte) /\ Len(e) = 8 /\ f \in Seq(Byte) /\ Len(f) = 1
    <2>1. e \in Seq(Byte) /\ Len(e) = 8
        <3>1. seq \in Int /\ 8 \in Nat
            OBVIOUS
        <3> QED
            BY <3>1, EncodeUintBytes
    <2>2. f \in Seq(Byte) /\ Len(f) = 1
        BY SmallBytes, OneByte DEF SOF
    <2> QED
        BY <2>1, <2>2
<1> HIDE DEF e, f
<1>4. p \in Seq(Byte) /\ Len(p) = 9 + Len(m)
    <2>1. f \o e \in Seq(Byte) /\ Len(f \o e) = Len(f) + Len(e)
        BY <1>3, ConcatSize
    <2> DEFINE h == f \o e
    <2> HIDE DEF h
    <2>2. h \o m \in Seq(Byte) /\ Len(h \o m) = Len(h) + Len(m)
        BY <1>1, <2>1, ConcatSize DEF h
    <2> QED
        BY <1>1, <1>2, <1>3, <2>1, <2>2 DEF h
<1>5. d \in Seq(Byte) /\ Len(d) = 4
    <2> DEFINE x == EncodeUint(dport, 2)
               y == EncodeUint(sport, 2)
    <2>1. x \in Seq(Byte) /\ Len(x) = 2 /\ y \in Seq(Byte) /\ Len(y) = 2
        <3>1. dport \in Int /\ sport \in Int /\ 2 \in Nat
            OBVIOUS
        <3> QED
            BY <3>1, EncodeUintBytes
    <2> HIDE DEF x, y
    <2>2. x \o y \in Seq(Byte) /\ Len(x \o y) = Len(x) + Len(y)
        BY <2>1, ConcatSize
    <2>3. x \o y \in Seq(Byte) /\ Len(x \o y) = 4
        BY <2>1, <2>2
    <2> QED
        BY <2>3 DEF x, y
<1>6. c = [dst |-> dst, src |-> src, hop |-> junk.hop, dx |-> junk.dx, ds |-> TRUE, appId |-> junk.appId,
           data |-> d \o p]
    BY Zenon DEF DSCapsule
<1> HIDE DEF d
<1>7. d \o p \in Seq(Byte) /\ Len(d \o p) = 13 + Len(m)
    <2>1. d \o p \in Seq(Byte) /\ Len(d \o p) = Len(d) + Len(p)
        BY <1>4, <1>5, ConcatSize
    <2> QED
        BY <1>1, <1>4, <1>5, <2>1
<1> HIDE DEF c
<1>8. /\ c.dst \in Sized(AddressSize) /\ c.src \in Sized(AddressSize) /\ c.hop \in Nat /\ c.dx \in BOOLEAN
      /\ c.ds \in BOOLEAN /\ c.appId \in Sized(HashSize) /\ c.data \in Seq(Byte) /\ Len(c.data) = 13 + Len(m)
    BY <1>6, <1>7
<1>9. PackCapsule(c) \in Seq(Byte) /\ Len(PackCapsule(c)) = HeaderSize + Len(c.data)
    BY <1>8, PackBytes
<1>10. HeaderSize + (13 + Len(m)) + 6 <= MaxNumber /\ HeaderSize \in Nat
    BY <1>1, Sizes
<1>11. Len(PackCapsule(c)) + 6 <= MaxNumber
    BY <1>1, <1>8, <1>9, <1>10
<1> QED
    BY <1>9, <1>11 DEF c, p

(* What is behind the first n bytes, also when there are fewer. *)
LEMMA DropBytes ==
    ASSUME NEW b \in Seq(Byte), NEW n \in Nat
    PROVE  Drop(b, n) \in Seq(Byte) /\ Len(Drop(b, n)) = IF n <= Len(b) THEN Len(b) - n ELSE 0
<1> DEFINE from == n + 1
<1>1. from \in Nat \ {0} /\ Len(b) \in Int /\ Len(b) <= Len(b)
    BY LenProperties
<1> HIDE DEF from
<1>2. SubSeq(b, from, Len(b)) \in Seq(Byte) /\ Len(SubSeq(b, from, Len(b))) = IF from <= Len(b) THEN Len(b) - from + 1 ELSE 0
    BY <1>1, BytesSub
<1>3. Drop(b, n) = SubSeq(b, from, Len(b))
    BY DEF Drop, from
<1> QED
    BY <1>1, <1>2, <1>3 DEF from

(* An element of a string is a byte. *)
LEMMA ElementByte ==
    ASSUME NEW b \in Seq(Byte), NEW i \in 1..Len(b)
    PROVE  b[i] \in Byte
BY ElementOfSeq

(* What message A is parsed to. *)
LEMMA ParseAType ==
    ASSUME NEW b \in Seq(Byte), ParseA(b).ok
    PROVE  ParseA(b).user \in Seq(Byte) /\ ParseA(b).srpA \in Seq(Byte)
<1> DEFINE S == {i \in 3..Len(b) : b[i] = 0}
           z == Min(S)
<1>1. /\ ~ (Len(b) < 2 + MinUser + MinA) /\ 0 \in Range(Drop(b, 2))
      /\ ParseA(b) = [ok |-> TRUE, user |-> SubSeq(b, 3, z - 1), srpA |-> Drop(b, z)]
    BY Zenon DEF ParseA, Failed
<1>2. Len(b) \in Nat /\ 2 <= Len(b)
    BY <1>1, LenProperties, Sizes
<1>3. S # {}
    <2>1. /\ Drop(b, 2) \in Seq(Byte) /\ Len(Drop(b, 2)) = Len(b) - 2
          /\ \A i \in 1..(Len(b) - 2) : Drop(b, 2)[i] = b[2 + i]
        <3>1. 2 \in 0..Len(b)
            BY <1>2
        <3> QED
            BY <3>1, BytesTakeDrop
    <2>2. PICK i \in DOMAIN Drop(b, 2) : Drop(b, 2)[i] = 0
        BY <1>1 DEF Range
    <2>3. i \in 1..(Len(b) - 2)
        BY <2>1, LenProperties
    <2>4. 2 + i \in 3..Len(b) /\ b[2 + i] = 0
        BY <1>2, <2>1, <2>2, <2>3
    <2> QED
        BY <2>4
<1>4. S \subseteq Nat /\ S \subseteq 3..Len(b)
    BY <1>2
<1> HIDE DEF S
<1>5. z \in 3..Len(b)
    <2>1. \E x \in S : \A y \in S : x <= y
        BY <1>3, <1>4, NatLeast
    <2>2. Min(S) \in S
        BY <2>1, MinIn
    <2> QED
        BY <1>4, <2>2
<1> HIDE DEF z
<1>6. SubSeq(b, 3, z - 1) \in Seq(Byte)
    <2> DEFINE from == 3
               to == z - 1
    <2>1. from \in Nat \ {0} /\ to \in Int /\ to <= Len(b)
        BY <1>2, <1>5
    <2> HIDE DEF from, to
    <2>2. SubSeq(b, from, to) \in Seq(Byte)
        BY <2>1, BytesSub
    <2> QED
        BY <2>2 DEF from, to
<1>7. Drop(b, z) \in Seq(Byte)
    <2>1. z \in Nat
        BY <1>5
    <2> QED
        BY <2>1, DropBytes
<1> QED
    BY <1>1, <1>6, <1>7

(* What message P is parsed to; the error is a byte. *)
LEMMA ParsePType ==
    ASSUME NEW b \in Seq(Byte), ParseP(b).ok
    PROVE  ParseP(b).error \in Byte /\ ParseP(b).salt \in Seq(Byte) /\ ParseP(b).srpB \in Seq(Byte)
<1>1. ~ (Len(b) < 3)
    BY Zenon DEF ParseP, Failed
<1>2. Len(b) \in Nat /\ 3 <= Len(b)
    BY <1>1, LenProperties
<1>3. b[3] \in Byte /\ 0 \in Byte /\ <<>> \in Seq(Byte)
    <2>1. 3 \in 1..Len(b)
        BY <1>2
    <2>2. b[3] \in Byte
        BY <2>1, ElementByte
    <2> QED
        BY <2>2, SmallBytes, NoBytes
<1>4. CASE b[3] # 0
    <2>1. ParseP(b) = [ok |-> TRUE, error |-> b[3], salt |-> <<>>, srpB |-> <<>>]
        BY <1>1, <1>4, Zenon DEF ParseP, Failed
    <2> QED
        BY <1>3, <2>1
<1>5. CASE b[3] = 0
    <2> DEFINE n == b[4]
               d == Drop(b, 4 + n)
    <2>1. /\ ~ (Len(b) < 4 + MinSalt + MinB) /\ n \in MinSalt..MaxSalt /\ Len(d) \in MinB..MaxB
          /\ ParseP(b) = [ok |-> TRUE, error |-> 0, salt |-> SubSeq(b, 5, 4 + n), srpB |-> d]
        BY <1>1, <1>5, Zenon DEF ParseP, Failed
    <2> HIDE DEF n
    <2>2. n \in Nat /\ 4 + n \in Nat
        BY <2>1, Sizes
    <2>3. d \in Seq(Byte) /\ Len(d) = IF 4 + n <= Len(b) THEN Len(b) - (4 + n) ELSE 0
        BY <2>2, DropBytes
    <2>4. 4 + n <= Len(b)
        BY <2>1, <2>3, Sizes
    <2>5. SubSeq(b, 5, 4 + n) \in Seq(Byte)
        <3> DEFINE from == 5
                   to == 4 + n
        <3>1. from \in Nat \ {0} /\ to \in Int /\ to <= Len(b)
            BY <2>2, <2>4
        <3> HIDE DEF from, to
        <3>2. SubSeq(b, from, to) \in Seq(Byte)
            BY <3>1, BytesSub
        <3> QED
            BY <3>2 DEF from, to
    <2> HIDE DEF d
    <2> QED
        BY <1>3, <2>1, <2>3, <2>5
<1> QED
    BY <1>4, <1>5

(* What the other messages are parsed to. *)
LEMMA ParseOthersType ==
    ASSUME NEW b \in Seq(Byte)
    PROVE  /\ ParseB(b).ok => ParseB(b).m1 \in Seq(Byte)
           /\ ParseC(b).ok => ParseC(b).request \in Seq(Byte)
           /\ ParseR(b).ok => ParseR(b).response \in Seq(Byte)
<1>1. Drop(b, 2) \in Seq(Byte) /\ Drop(b, 3) \in Seq(Byte)
    BY DropBytes
<1>2. ASSUME ParseB(b).ok PROVE ParseB(b).m1 = Drop(b, 2)
    BY <1>2, Zenon DEF ParseB, Failed
<1>3. ASSUME ParseC(b).ok PROVE ParseC(b).request = Drop(b, 2)
    BY <1>3, Zenon DEF ParseC, Failed
<1>4. ASSUME ParseR(b).ok PROVE ParseR(b).response = Drop(b, 3)
    BY <1>4, Zenon DEF ParseR, Failed
<1> QED
    BY <1>1, <1>2, <1>3, <1>4

(* What a packet of the exchange is parsed to. *)
LEMMA ParsePacketType ==
    ASSUME NEW b \in Seq(Byte), ParsePacket(b).ok
    PROVE  ParsePacket(b).seq \in Nat /\ ParsePacket(b).payload \in Seq(Byte)
<1>1. ParsePacket(b) = [ok |-> TRUE, seq |-> DecodeUint(b, 1, 8), payload |-> Drop(b, 9)]
    BY Zenon DEF ParsePacket, Failed
<1>2. DecodeUint(b, 1, 8) \in Nat /\ Drop(b, 9) \in Seq(Byte)
    BY DecodeNat, DropBytes
<1> QED
    BY <1>1, <1>2

(* The ports of a DS capsule are numbers. *)
LEMMA PortsType ==
    ASSUME NEW c \in CapsuleSet, PortsDS(c).ok
    PROVE  PortsDS(c).dst \in Nat /\ PortsDS(c).src \in Nat
<1>1. c.data \in Seq(Byte)
    BY DEF CapsuleSet
<1>2. PortsDS(c) = [ok |-> TRUE, dst |-> DecodeUint(c.data, 0, 2), src |-> DecodeUint(c.data, 2, 2)]
    BY Zenon DEF PortsDS, Failed
<1>3. DecodeUint(c.data, 0, 2) \in Nat /\ DecodeUint(c.data, 2, 2) \in Nat
    BY <1>1, DecodeNat
<1> QED
    BY <1>2, <1>3

(* What the program makes of a response to WaitForCapsule. *)
LEMMA WaitResultType ==
    ASSUME NEW b \in Seq(Byte), WaitResult(b).ok
    PROVE  WaitResult(b) \in CapsuleSet
<1>1. Drop(b, 4) \in Seq(Byte)
    BY DropBytes
<1>2. WaitResult(b) = UnpackCapsule(Drop(b, 4))
    BY Zenon DEF WaitResult, Failed
<1> QED
    BY <1>1, <1>2, UnpackType DEF Failed

(* The multiples of d up to n. *)
LEMMA Products ==
    ASSUME NEW d \in Nat \ {0}, NEW n \in Nat
    PROVE  /\ n \div d \in Nat
           /\ \A i \in 1..(n \div d) : i * d <= n /\ (i - 1) * d \in Nat /\ i * d = (i - 1) * d + d
<1> DEFINE q == n \div d
<1>1. q \in Nat /\ q * d <= n
    BY SMT
<1> HIDE DEF q
<1>2. ASSUME NEW i \in 1..q
      PROVE  i * d <= n /\ (i - 1) * d \in Nat /\ i * d = (i - 1) * d + d
    <2>1. i \in Nat /\ i - 1 \in Nat /\ q - i \in Nat
        BY <1>1
    <2>2. (q - i) * d \in Nat /\ (i - 1) * d \in Nat
        BY <2>1, SMT
    <2>3. (q - i) * d = q * d - i * d /\ (i - 1) * d = i * d - d
        BY <1>1, <2>1, SMT
    <2>4. i * d \in Nat /\ q * d \in Nat
        BY <1>1, <2>1, SMT
    <2> QED
        BY <1>1, <2>2, <2>3, <2>4
<1> QED
    BY <1>1, <1>2 DEF q

(* What the program makes of a response to GetAddresses: whole addresses. *)
LEMMA AddressesType ==
    ASSUME NEW b \in Seq(Byte), AddressesResult(b).ok
    PROVE  AddressesResult(b).list \in Seq(Sized(AddressSize))
<1> DEFINE n == Len(b) \div AddressSize
           l == [i \in 1..n |-> SubSeq(b, (i - 1) * AddressSize + 1, i * AddressSize)]
<1>1. AddressesResult(b).list = l
    BY Zenon DEF AddressesResult, Failed
<1>2. /\ n \in Nat /\ Len(b) \in Nat
      /\ \A i \in 1..n : /\ i * AddressSize <= Len(b) /\ (i - 1) * AddressSize \in Nat
                         /\ i * AddressSize = (i - 1) * AddressSize + AddressSize
    BY LenProperties, Sizes, Products
<1> HIDE DEF n
<1>3. ASSUME NEW i \in 1..n
      PROVE  SubSeq(b, (i - 1) * AddressSize + 1, i * AddressSize) \in Sized(AddressSize)
    <2> DEFINE x == (i - 1) * AddressSize
               from == x + 1
               to == i * AddressSize
    <2>1. x \in Nat /\ to = x + AddressSize /\ to <= Len(b)
        BY <1>2
    <2> HIDE DEF x, to
    <2>2. from \in Nat \ {0} /\ to \in Int /\ to <= Len(b) /\ from <= to /\ to - from + 1 = AddressSize
        BY <1>2, <2>1, Sizes
    <2> HIDE DEF from
    <2>3. SubSeq(b, from, to) \in Seq(Byte) /\ Len(SubSeq(b, from, to)) = IF from <= to THEN to - from + 1 ELSE 0
        BY <2>2, BytesSub
    <2>4. SubSeq(b, from, to) \in Sized(AddressSize)
        BY <2>2, <2>3 DEF Sized
    <2> QED
        BY <2>4 DEF from, to, x
<1>4. l \in Seq(Sized(AddressSize))
    BY <1>2, <1>3
<1> QED
    BY <1>1, <1>4

(* What the program makes of a response to RegisterEphemeral. *)
LEMMA PortResultType ==
    ASSUME NEW b \in Seq(Byte), PortResult(b).ok
    PROVE  PortResult(b).port \in Nat
BY DecodeNat, Zenon DEF PortResult, Failed

(* A datagram is taken apart. *)
LEMMA RecvDataType ==
    ASSUME NEW b \in Seq(Byte), RecvData(b).ok
    PROVE  /\ RecvData(b).fid = DecodeUint(b, 0, 2) /\ RecvData(b).body \in Seq(Byte)
           /\ Len(b) = 2 + Len(RecvData(b).body)
<1>1. ~ (Len(b) < 2) /\ RecvData(b) = [ok |-> TRUE, fid |-> DecodeUint(b, 0, 2), body |-> Drop(b, 2)]
    BY Zenon DEF RecvData, Failed
<1>2. Drop(b, 2) \in Seq(Byte) /\ Len(Drop(b, 2)) = IF 2 <= Len(b) THEN Len(b) - 2 ELSE 0
    BY DropBytes
<1>3. Len(b) \in Nat
    BY LenProperties
<1> QED
    BY <1>1, <1>2, <1>3

(***************************************************************************)
(* Recursion on numbers: f[e] is made of e and of f at an earlier place.   *)
(***************************************************************************)
Recursion(f, x, p, F) ==
    \A e \in Nat : f[e] = IF e = 0 THEN x ELSE F[<<e, f[p[e]]>>]

(* Such a function exists when the earlier place is earlier. *)
LEMMA RecursionExists ==
    ASSUME NEW S, NEW x \in S, NEW p \in [Nat -> Nat], \A e \in Nat \ {0} : p[e] < e,
           NEW F \in [Nat \X S -> S]
    PROVE  \E f \in [Nat -> S] : Recursion(f, x, p, F)
<1> DEFINE Step(f, e) == IF e = 0 THEN x ELSE F[<<e, f[p[e]]>>]
           UpTo(n, f) == f \in [Nat -> S] /\ \A e \in 0..n : f[e] = Step(f, e)
           T == {n \in Nat : ~ \E f : UpTo(n, f)}
<1>1. ASSUME NEW f \in [Nat -> S], NEW e \in Nat
      PROVE  Step(f, e) \in S
    OBVIOUS
<1>2. ASSUME T # {}
      PROVE  FALSE
    <2>1. T \subseteq Nat
        OBVIOUS
    <2> HIDE DEF T
    <2>2. PICK n \in T : \A m \in T : n <= m
        BY <1>2, <2>1, NatLeast
    <2>3. n \in Nat /\ ~ \E f : UpTo(n, f)
        BY <2>2 DEF T
    <2>4. CASE n = 0
        <3> DEFINE f == [e \in Nat |-> x]
        <3>1. UpTo(0, f)
            OBVIOUS
        <3> HIDE DEF f, UpTo
        <3> QED
            BY <2>3, <2>4, <3>1
    <2>5. CASE n # 0
        <3>1. n - 1 \in Nat /\ ~ (n <= n - 1)
            BY <2>3, <2>5
        <3>2. n - 1 \notin T
            BY <2>2, <3>1
        <3>3. PICK f : UpTo(n - 1, f)
            BY <3>1, <3>2 DEF T
        <3> DEFINE h == [e \in Nat |-> IF e = n THEN Step(f, n) ELSE f[e]]
        <3>4. f \in [Nat -> S] /\ \A e \in 0..(n - 1) : f[e] = Step(f, e)
            BY <3>3
        <3>5. h \in [Nat -> S] /\ h[n] = Step(f, n) /\ \A e \in Nat : e # n => h[e] = f[e]
            BY <1>1, <2>3, <3>4
        <3> HIDE DEF h
        <3>6. ASSUME NEW e \in 0..n
              PROVE  h[e] = Step(h, e)
            <4>1. e # 0 => p[e] \in Nat /\ p[e] # n
                BY <2>3
            <4>2. Step(h, e) = Step(f, e)
                BY <3>5, <4>1
            <4>3. h[e] = Step(f, e)
                <5> HIDE DEF Step
                <5>1. CASE e = n
                    BY <3>5, <5>1
                <5>2. CASE e # n
                    <6>1. e \in 0..(n - 1) /\ e \in Nat
                        BY <2>3, <5>2
                    <6> QED
                        BY <3>4, <3>5, <5>2, <6>1
                <5> QED
                    BY <5>1, <5>2
            <4> HIDE DEF Step
            <4> QED
                BY <4>2, <4>3
        <3>7. UpTo(n, h)
            <4> HIDE DEF Step
            <4> QED
                BY <3>5, <3>6
        <3> HIDE DEF UpTo
        <3> QED
            BY <2>3, <3>7
    <2> QED
        BY <2>4, <2>5
<1>3. ASSUME NEW m \in Nat, NEW n \in Nat, NEW f, UpTo(m, f), NEW h, UpTo(n, h), NEW e \in Nat, e <= m, e <= n
      PROVE  f[e] = h[e]
    <2> DEFINE D == {i \in Nat : i <= m /\ i <= n /\ f[i] # h[i]}
    <2>1. ASSUME D # {}
          PROVE  FALSE
        <3>1. D \subseteq Nat
            OBVIOUS
        <3> HIDE DEF D
        <3>2. PICK i \in D : \A j \in D : i <= j
            BY <2>1, <3>1, NatLeast
        <3>3. i \in Nat /\ i <= m /\ i <= n /\ f[i] # h[i]
            BY <3>2 DEF D
        <3>4. f[i] = Step(f, i) /\ h[i] = Step(h, i)
            <4> HIDE DEF Step
            <4>1. i \in 0..m /\ i \in 0..n
                BY <3>3
            <4> QED
                BY <1>3, <4>1
        <3>5. i # 0 => f[p[i]] = h[p[i]]
            <4>1. ASSUME i # 0
                  PROVE  f[p[i]] = h[p[i]]
                <5>1. p[i] \in Nat /\ p[i] < i
                    BY <3>3, <4>1
                <5>2. p[i] \notin D /\ p[i] <= m /\ p[i] <= n
                    BY <3>2, <3>3, <5>1
                <5> QED
                    BY <5>1, <5>2 DEF D
            <4> QED
                BY <4>1
        <3> QED
            BY <3>3, <3>4, <3>5
    <2> QED
        BY <1>3, <2>1
<1> DEFINE best(n) == CHOOSE f : UpTo(n, f)
           r == [n \in Nat |-> best(n)[n]]
<1>4. ASSUME NEW n \in Nat
      PROVE  UpTo(n, best(n))
    <2>1. \E f : UpTo(n, f)
        BY <1>2
    <2> HIDE DEF UpTo
    <2> QED
        BY <2>1
<1> HIDE DEF best, T
<1>5. ASSUME NEW n \in Nat
      PROVE  best(n) \in [Nat -> S] /\ best(n)[n] = Step(best(n), n)
    <2>1. UpTo(n, best(n))
        BY <1>4
    <2> HIDE DEF Step
    <2> QED
        BY <2>1
<1>6. r \in [Nat -> S]
    BY <1>5
<1>7. ASSUME NEW n \in Nat
      PROVE  r[n] = Step(r, n)
    <2>1. CASE n = 0
        BY <1>5, <2>1
    <2>2. CASE n # 0
        <3>1. p[n] \in Nat /\ p[n] <= n /\ p[n] <= p[n]
            BY <2>2
        <3>2. UpTo(n, best(n)) /\ UpTo(p[n], best(p[n]))
            BY <1>4, <3>1
        <3>3. best(n)[p[n]] = best(p[n])[p[n]]
            <4> HIDE DEF UpTo, Step
            <4> QED
                BY <1>3, <3>1, <3>2
        <3>4. r[n] = best(n)[n] /\ r[p[n]] = best(p[n])[p[n]]
            BY <3>1
        <3> HIDE DEF r
        <3> QED
            BY <1>5, <2>2, <3>3, <3>4
    <2> QED
        BY <2>1, <2>2
<1>8. Recursion(r, x, p, F)
    <2> HIDE DEF r
    <2> QED
        BY <1>7 DEF Recursion
<1> QED
    BY <1>6, <1>8

FlattenStep(s, f) == [i \in 1..Len(s) |-> IF i = 1 THEN s[i] ELSE f[i - 1] \o s[i]]

(* FlattenSeq puts one string behind the other. *)
LEMMA FlattenIs ==
    ASSUME NEW s \in Seq(Seq(Byte)), s # <<>>
    PROVE  \E f : f = FlattenStep(s, f) /\ FlattenSeq(s) = f[Len(s)]
<1> DEFINE B == Seq(Byte)
           n == Len(s)
           p == [e \in Nat |-> IF e = 0 THEN 0 ELSE e - 1]
           F == [t \in Nat \X B |-> IF t[1] \in 2..n THEN t[2] \o s[t[1]] ELSE IF n = 0 THEN t[2] ELSE s[1]]
<1>1. n \in Nat /\ n # 0 /\ \A i \in 1..n : s[i] \in B
    BY LenProperties, ElementOfSeq, EmptySeq
<1>2. \E f \in [Nat -> B] : Recursion(f, <<>>, p, F)
    <2>1. <<>> \in B /\ p \in [Nat -> Nat] /\ \A e \in Nat \ {0} : p[e] < e
        BY NoBytes
    <2>2. ASSUME NEW t \in Nat \X B
          PROVE  (IF t[1] \in 2..n THEN t[2] \o s[t[1]] ELSE IF n = 0 THEN t[2] ELSE s[1]) \in B
        <3>1. t[2] \in B /\ s[1] \in B
            BY <1>1
        <3>2. ASSUME t[1] \in 2..n PROVE t[2] \o s[t[1]] \in B
            <4>1. s[t[1]] \in B
                BY <1>1, <3>2
            <4> HIDE DEF n
            <4> QED
                BY <3>1, <4>1, BytesConcat
        <3> QED
            BY <3>1, <3>2
    <2>3. F \in [Nat \X B -> B]
        BY <2>2
    <2> HIDE DEF B, p, F
    <2> QED
        BY <2>1, <2>3, RecursionExists
<1>3. PICK f \in [Nat -> B] : Recursion(f, <<>>, p, F)
    BY <1>2
<1> DEFINE h == [i \in 1..n |-> f[i]]
<1>4. ASSUME NEW i \in 1..n
      PROVE  h[i] = IF i = 1 THEN s[i] ELSE h[i - 1] \o s[i]
    <2>1. i \in Nat /\ i # 0 /\ p[i] = i - 1 /\ i - 1 \in Nat
        BY <1>1
    <2>2. f[i] = F[<<i, f[p[i]]>>]
        <3> HIDE DEF F, p, B, n
        <3> QED
            BY <1>3, <2>1 DEF Recursion
    <2>3. f[i - 1] \in B
        BY <2>1
    <2> DEFINE t == <<i, f[i - 1]>>
    <2>4. t \in Nat \X B /\ t[1] = i /\ t[2] = f[i - 1]
        BY <2>1, <2>3
    <2>5. F[t] = IF i \in 2..n THEN f[i - 1] \o s[i] ELSE s[1]
        <3> HIDE DEF t, B
        <3> QED
            BY <1>1, <2>4
    <2>6. f[i] = IF i \in 2..n THEN f[i - 1] \o s[i] ELSE s[1]
        <3> HIDE DEF F
        <3> QED
            BY <2>1, <2>2, <2>5
    <2> HIDE DEF F, p, B
    <2>7. CASE i = 1
        BY <1>1, <2>6, <2>7
    <2>8. CASE i # 1
        <3>1. i \in 2..n /\ i - 1 \in 1..n
            BY <1>1, <2>8
        <3> QED
            BY <2>6, <2>8, <3>1
    <2> QED
        BY <2>7, <2>8
<1>5. h = FlattenStep(s, h)
    <2>1. \A i \in 1..n : h[i] = IF i = 1 THEN s[i] ELSE h[i - 1] \o s[i]
        BY <1>4
    <2>3. h = [i \in 1..n |-> h[i]]
        OBVIOUS
    <2> HIDE DEF h
    <2> QED
        BY <2>1, <2>3 DEF FlattenStep
<1> HIDE DEF h
<1> DEFINE c == CHOOSE x : x = FlattenStep(s, x)
<1>6. c = FlattenStep(s, c)
    BY <1>5
<1>7. FlattenSeq(s) = c[n]
    BY <1>1, Zenon DEF FlattenSeq, FlattenStep
<1> HIDE DEF c
<1> QED
    BY <1>6, <1>7

(* Blocks of one size, one after the other: how long that is, and where each is found again. *)
LEMMA FlattenUniform ==
    ASSUME NEW s \in Seq(Seq(Byte)), NEW size \in Nat \ {0}, \A i \in 1..Len(s) : Len(s[i]) = size
    PROVE  /\ FlattenSeq(s) \in Seq(Byte) /\ Len(FlattenSeq(s)) = Len(s) * size
           /\ \A i \in 1..Len(s) : SubSeq(FlattenSeq(s), (i - 1) * size + 1, i * size) = s[i]
<1>1. CASE s = <<>>
    <2>1. FlattenSeq(s) = <<>> /\ Len(s) = 0
        BY <1>1, EmptySeq DEF FlattenSeq
    <2>2. Len(s) * size = 0 /\ \A i \in 1..Len(s) : FALSE
        BY <2>1
    <2> QED
        BY <2>1, <2>2, NoBytes
<1>2. CASE s # <<>>
    <2>1. PICK f : f = FlattenStep(s, f) /\ FlattenSeq(s) = f[Len(s)]
        BY <1>2, FlattenIs
    <2>2. Len(s) \in Nat /\ Len(s) # 0 /\ \A i \in 1..Len(s) : s[i] \in Seq(Byte)
        BY <1>2, LenProperties, ElementOfSeq, EmptySeq
    <2>3. \A m \in 1..Len(s) : f[m] = IF m = 1 THEN s[m] ELSE f[m - 1] \o s[m]
        BY <2>1, Zenon DEF FlattenStep
    <2> DEFINE Good(m) == /\ f[m] \in Seq(Byte) /\ Len(f[m]) = m * size
                          /\ \A i \in 1..m : SubSeq(f[m], (i - 1) * size + 1, i * size) = s[i]
               T == {m \in 1..Len(s) : ~ Good(m)}
    <2>4. ASSUME T # {}
          PROVE  FALSE
        <3>1. T \subseteq Nat
            BY <2>2
        <3> HIDE DEF T
        <3>2. PICK m \in T : \A j \in T : m <= j
            BY <2>4, <3>1, NatLeast
        <3>3. m \in 1..Len(s) /\ m \in Nat /\ ~ Good(m)
            BY <2>2, <3>2 DEF T
        <3>4. s[m] \in Seq(Byte) /\ Len(s[m]) = size /\ SubSeq(s[m], 1, size) = s[m]
            <4>1. s[m] \in Seq(Byte) /\ Len(s[m]) = size
                BY <2>2, <3>3
            <4>2. SubSeq(s[m], 1, Len(s[m])) = s[m]
                BY <4>1, SubSeqFull
            <4> QED
                BY <4>1, <4>2, Zenon
        <3>5. CASE m = 1
            <4>1. f[m] = s[m]
                BY <2>3, <3>3, <3>5
            <4>2. m * size = size /\ (m - 1) * size + 1 = 1
                BY <3>5
            <4>3. \A i \in 1..m : i = m
                BY <3>5
            <4>4. Good(m)
                <5> HIDE DEF T
                <5>1. SubSeq(f[m], (m - 1) * size + 1, m * size) = s[m]
                    BY <3>4, <4>1, <4>2, Zenon
                <5>2. f[m] \in Seq(Byte) /\ Len(f[m]) = m * size
                    BY <3>4, <4>1, <4>2, Zenon
                <5> QED
                    BY <4>3, <5>1, <5>2, Zenon
            <4> QED
                BY <3>3, <4>4
        <3>6. CASE m # 1
            <4>1. m - 1 \in 1..Len(s) /\ ~ (m <= m - 1)
                BY <2>2, <3>3, <3>6
            <4>2. Good(m - 1)
                <5>1. m - 1 \notin T
                    BY <3>2, <4>1
                <5> HIDE DEF Good
                <5> QED
                    BY <4>1, <5>1 DEF T
            <4> DEFINE a == f[m - 1]
                       b == s[m]
            <4>3. a \in Seq(Byte) /\ Len(a) = (m - 1) * size
                  /\ \A i \in 1..(m - 1) : SubSeq(a, (i - 1) * size + 1, i * size) = s[i]
                BY <4>2
            <4>4. f[m] = a \o b
                BY <2>3, <3>3, <3>6
            <4>5. b \in Seq(Byte) /\ Len(b) = size
                BY <3>4
            <4> HIDE DEF a, b
            <4>6. a \o b \in Seq(Byte) /\ Len(a \o b) = Len(a) + Len(b)
                BY <4>3, <4>5, ConcatSize
            <4>7. (m - 1) * size + size = m * size /\ m - 1 \in Nat /\ (m - 1) * size \in Nat
                BY <3>3, <4>1, SMT
            <4>8. Len(a \o b) = m * size
                BY <4>3, <4>5, <4>6, <4>7
            <4>9. ASSUME NEW i \in 1..m
                  PROVE  SubSeq(a \o b, (i - 1) * size + 1, i * size) = s[i]
                <5>1. CASE i = m
                    <6> DEFINE from == 1
                    <6>1. from \in Nat \ {0} /\ size \in Int /\ size <= Len(b)
                        BY <4>5
                    <6> HIDE DEF from
                    <6>2. SubSeq(a \o b, Len(a) + from, Len(a) + size) = SubSeq(b, from, size)
                        BY <4>3, <4>5, <6>1, SubOfConcat, ZenonT(30)
                    <6>3. SubSeq(a \o b, (m - 1) * size + 1, m * size) = SubSeq(b, 1, size)
                        BY <4>3, <4>7, <6>2, Zenon DEF from
                    <6> QED
                        BY <3>4, <5>1, <6>3, Zenon DEF b
                <5>2. CASE i # m
                    <6>1. i \in 1..(m - 1) /\ i \in Nat /\ i - 1 \in Nat /\ (m - 1) - i \in Nat
                        BY <3>3, <5>2
                    <6>2. (i - 1) * size \in Nat /\ i * size \in Nat /\ ((m - 1) - i) * size \in Nat
                        BY <6>1, SMT
                    <6>3. ((m - 1) - i) * size = (m - 1) * size - i * size
                        BY <3>3, <6>1, SMT
                    <6> DEFINE from == (i - 1) * size + 1
                               to == i * size
                    <6>4. from \in Nat \ {0} /\ to \in Int /\ to <= Len(a)
                        <7> DEFINE x == (i - 1) * size
                                   y == i * size
                                   z == (m - 1) * size
                                   w == ((m - 1) - i) * size
                        <7>1. x \in Nat /\ y \in Nat /\ z \in Nat /\ w \in Nat /\ w = z - y /\ Len(a) = z
                            BY <4>3, <4>7, <6>2, <6>3
                        <7>2. from = x + 1 /\ to = y
                            OBVIOUS
                        <7> HIDE DEF x, y, z, w, from, to
                        <7> QED
                            BY <7>1, <7>2
                    <6>5. SubSeq(a, from, to) = s[i]
                        BY <4>3, <6>1
                    <6> HIDE DEF from, to
                    <6>6. SubSeq(a \o b, from, to) = SubSeq(a, from, to)
                        BY <4>3, <4>5, <6>4, SubOfConcat
                    <6> QED
                        BY <6>5, <6>6 DEF from, to
                <5> QED
                    BY <5>1, <5>2
            <4>10. Good(m)
                BY <4>4, <4>6, <4>8, <4>9
            <4> QED
                BY <3>3, <4>10
        <3> QED
            BY <3>5, <3>6
    <2>5. Good(Len(s))
        <3>1. Len(s) \in 1..Len(s)
            BY <2>2
        <3> HIDE DEF Good
        <3> QED
            BY <2>4, <3>1
    <2> QED
        BY <2>1, <2>5
<1> QED
    BY <1>1, <1>2

(***************************************************************************)
(* What the theorems assume of the hash function, of the node's answers    *)
(* and, below, of the block cipher.  SHA-1, AES and the functions of the   *)
(* instance satisfy it; it is no assumption of the modules since it speaks *)
(* of every string of bytes.                                               *)
(***************************************************************************)
HashGivesBytes == \A b \in Seq(Byte) : Hash(b) \in Sized(HashLen)
ParameterGivesBytes == \A b \in Seq(Byte) : Parameter(b) \in Seq(Byte)

(* A string of zeros. *)
LEMMA ZerosBytes ==
    ASSUME NEW n \in Int
    PROVE  Zeros(n) \in Seq(Byte) /\ Len(Zeros(n)) = IF n >= 0 THEN n ELSE 0
<1>1. 0 \in Byte
    BY SmallBytes
<1>2. CASE n >= 0
    <2>1. n \in Nat
        BY <1>2
    <2> QED
        BY <1>1, <1>2, <2>1 DEF Zeros
<1>3. CASE ~ (n >= 0)
    <2>1. 1..n = {}
        BY <1>3
    <2>2. Zeros(n) = <<>>
        BY <2>1 DEF Zeros
    <2> QED
        BY <1>3, <2>2, NoBytes
<1> QED
    BY <1>2, <1>3

(* vector::resize. *)
LEMMA ResizeBytes ==
    ASSUME NEW b \in Seq(Byte), NEW n \in Nat
    PROVE  Resize(b, n) \in Seq(Byte) /\ Len(Resize(b, n)) = n
<1>1. Len(b) \in Nat
    BY LenProperties
<1>2. CASE Len(b) >= n
    <2>1. n \in 0..Len(b)
        BY <1>1, <1>2
    <2> QED
        BY <1>2, <2>1, BytesTakeDrop DEF Resize
<1>3. CASE ~ (Len(b) >= n)
    <2> DEFINE z == Zeros(n - Len(b))
    <2>1. n - Len(b) \in Int /\ n - Len(b) >= 0
        BY <1>1, <1>3
    <2>2. z \in Seq(Byte) /\ Len(z) = n - Len(b)
        BY <2>1, ZerosBytes
    <2> HIDE DEF z
    <2>3. b \o z \in Seq(Byte) /\ Len(b \o z) = Len(b) + Len(z)
        BY <2>2, ConcatSize
    <2>4. b \o z \in Seq(Byte) /\ Len(b \o z) = n
        BY <1>1, <2>2, <2>3
    <2> QED
        BY <1>3, <2>4 DEF Resize, z
<1> QED
    BY <1>2, <1>3

(* OsslConversion gives numbers. *)
LEMMA ToNumberNat == ASSUME NEW b \in Seq(Byte) PROVE ToNumber(b) \in Nat
BY ValueNat DEF ToNumber

(* OsslConversion gives strings of bytes. *)
LEMMA ToBytesType ==
    ASSUME NEW n \in Nat
    PROVE  ToBytes(n) \in Seq(Byte) /\ Len(ToBytes(n)) \in Nat
<1> DEFINE size == IF n = 0 THEN 0 ELSE IF n < 256 THEN 1 ELSE IF n < 65536 THEN 2 ELSE 3
<1>1. size \in Nat /\ n \in Int
    BY SMT
<1>2. ToBytes(n) = EncodeUint(n, size)
    BY SMT DEF ToBytes
<1> HIDE DEF size
<1> QED
    BY <1>1, <1>2, EncodeUintBytes

(* A remainder is a number. *)
LEMMA ModNat ==
    ASSUME NEW x \in Int
    PROVE  x % N \in Nat
BY SrpAssumption

PowStep(b, e, h) == (((h * h) % N) * (IF e % 2 = 1 THEN b % N ELSE 1)) % N

(* A step of the exponentiation gives a number. *)
LEMMA PowStepNat ==
    ASSUME NEW b \in Nat, NEW e \in Nat, NEW h \in Nat
    PROVE  PowStep(b, e, h) \in Nat
<1>1. h * h \in Int
    OBVIOUS
<1>2. (h * h) % N \in Nat /\ b % N \in Nat
    BY <1>1, ModNat
<1> DEFINE x == (h * h) % N
           y == IF e % 2 = 1 THEN b % N ELSE 1
<1>3. x \in Int /\ y \in Int
    BY <1>2
<1> HIDE DEF x, y
<1>4. x * y \in Int
    BY <1>3
<1>5. (x * y) % N \in Nat
    BY <1>4, ModNat
<1> QED
    BY <1>5 DEF PowStep, x, y

(* The power that PowMod computes by squaring. *)
LEMMA PowModIs ==
    ASSUME NEW b \in Nat
    PROVE  \A e \in Nat : /\ PowMod(b, e) \in Nat
                         /\ PowMod(b, e) = IF e = 0 THEN 1 % N ELSE PowStep(b, e, PowMod(b, e \div 2))
<1> DEFINE p == [i \in Nat |-> i \div 2]
           F == [t \in Nat \X Nat |-> PowStep(b, t[1], t[2])]
           one == 1 % N
           IsPow(f) == f = [i \in Nat |-> IF i = 0 THEN one ELSE PowStep(b, i, f[i \div 2])]
<1>1. one \in Nat
    BY ModNat
<1>2. p \in [Nat -> Nat] /\ \A i \in Nat \ {0} : p[i] < i
    BY SMT
<1>3. \E f \in [Nat -> Nat] : Recursion(f, one, p, F)
    <2>1. F \in [Nat \X Nat -> Nat]
        BY PowStepNat
    <2> HIDE DEF F, p, one
    <2> QED
        BY <1>1, <1>2, <2>1, RecursionExists
<1>4. PICK f \in [Nat -> Nat] : Recursion(f, one, p, F)
    BY <1>3
<1> HIDE DEF one
<1>5. ASSUME NEW i \in Nat
      PROVE  f[i] = IF i = 0 THEN one ELSE PowStep(b, i, f[i \div 2])
    <2>1. i \div 2 \in Nat /\ f[i \div 2] \in Nat /\ p[i] = i \div 2
        <3>1. i \div 2 \in Nat
            BY SMT
        <3> QED
            BY <1>4, <3>1
    <2>2. f[i] = IF i = 0 THEN one ELSE F[<<i, f[p[i]]>>]
        <3> HIDE DEF F, p
        <3> QED
            BY <1>4 DEF Recursion
    <2> DEFINE h == f[i \div 2]
    <2>3. F[<<i, h>>] = PowStep(b, i, h)
        <3> HIDE DEF h
        <3>1. h \in Nat
            BY <2>1 DEF h
        <3> QED
            BY <3>1
    <2> HIDE DEF F, p
    <2> QED
        BY <2>1, <2>2, <2>3
<1>6. IsPow(f)
    BY <1>5
<1> DEFINE c == CHOOSE h : IsPow(h)
<1>7. IsPow(c)
    <2> HIDE DEF IsPow
    <2> QED
        BY <1>6
<1>8. ASSUME NEW e PROVE PowMod(b, e) = c[e]
    BY DEF PowMod, PowStep, one
<1> HIDE DEF c
<1>9. ASSUME NEW i \in Nat
      PROVE  c[i] = IF i = 0 THEN one ELSE PowStep(b, i, c[i \div 2])
    BY <1>7
<1> HIDE DEF IsPow
<1> DEFINE T == {i \in Nat : c[i] \notin Nat}
<1>10. ASSUME T # {}
       PROVE  FALSE
    <2>1. T \subseteq Nat
        OBVIOUS
    <2> HIDE DEF T
    <2>2. PICK i \in T : \A j \in T : i <= j
        BY <1>10, <2>1, NatLeast
    <2>3. i \in Nat /\ c[i] \notin Nat
        BY <2>2 DEF T
    <2>4. i # 0
        BY <1>1, <1>9, <2>3
    <2>5. i \div 2 \in Nat /\ ~ (i <= i \div 2)
        BY <2>3, <2>4, SMT
    <2>6. c[i \div 2] \in Nat
        BY <2>2, <2>5 DEF T
    <2>7. PowStep(b, i, c[i \div 2]) \in Nat
        BY <2>3, <2>6, PowStepNat
    <2> QED
        BY <1>9, <2>3, <2>4, <2>7
<1>11. \A e \in Nat : e \div 2 \in Nat
    BY SMT
<1> QED
    BY <1>8, <1>9, <1>10, <1>11 DEF one

(* A power is a number. *)
LEMMA PowModNat ==
    ASSUME NEW b \in Nat, NEW e \in Nat
    PROVE  PowMod(b, e) \in Nat
BY PowModIs

(***************************************************************************)
(* The login gives numbers and strings of bytes of the sizes it is to give.*)
(***************************************************************************)
LEMMA PadBytes ==
    ASSUME NEW b \in Seq(Byte)
    PROVE  Pad(b) \in Seq(Byte)
<1> DEFINE n == LenN - Len(b)
<1>1. LenN \in Nat
    BY ToBytesType, SrpAssumption DEF LenN
<1>2. n \in Int
    BY <1>1, LenProperties
<1> HIDE DEF n
<1>3. Zeros(n) \in Seq(Byte)
    BY <1>2, ZerosBytes
<1> HIDE DEF n
<1>4. Zeros(n) \o b \in Seq(Byte)
    BY <1>3, ConcatSize
<1> QED
    BY <1>4 DEF Pad, n

(* The digest has its size. *)
LEMMA HashBytes ==
    ASSUME HashGivesBytes, NEW b \in Seq(Byte)
    PROVE  Hash(b) \in Seq(Byte) /\ Len(Hash(b)) = HashLen /\ ToNumber(Hash(b)) \in Nat
<1>1. Hash(b) \in Seq(Byte) /\ Len(Hash(b)) = HashLen
    BY DEF HashGivesBytes, Sized
<1> QED
    BY <1>1, ToNumberNat

(* k is a number. *)
LEMMA MultiplierNat == ASSUME HashGivesBytes PROVE k \in Nat
<1>1. ToBytes(N) \in Seq(Byte) /\ ToBytes(g) \in Seq(Byte)
    BY ToBytesType, SrpAssumption
<1>2. Pad(ToBytes(g)) \in Seq(Byte)
    BY <1>1, PadBytes
<1>3. ToBytes(N) \o Pad(ToBytes(g)) \in Seq(Byte)
    BY <1>1, <1>2, ConcatSize
<1> QED
    BY <1>3, HashBytes DEF k

(* B behind A, resized or not, is a string of bytes. *)
LEMMA WithBBytes ==
    ASSUME NEW c \in Seq(Byte), NEW b \in Seq(Byte)
    PROVE  WithB(c, b) \in Seq(Byte)
<1>1. LenN \in Nat /\ Len(b) \in Nat
    BY ToBytesType, SrpAssumption, LenProperties DEF LenN
<1>2. CASE Len(b) < LenN
    <2> DEFINE d == Append(c, 0)
               n == LenN - Len(b)
    <2>1. d \in Seq(Byte) /\ n \in Nat
        BY <1>1, <1>2, SmallBytes, AppendProperties
    <2> HIDE DEF d, n
    <2>2. Resize(d, n) \in Seq(Byte)
        BY <2>1, ResizeBytes
    <2>3. Resize(d, n) \o b \in Seq(Byte)
        BY <2>2, ConcatSize
    <2> QED
        BY <1>2, <2>3 DEF WithB, d, n
<1>3. CASE ~ (Len(b) < LenN)
    BY <1>3, ConcatSize DEF WithB
<1> QED
    BY <1>2, <1>3

(* u is a number at both ends. *)
LEMMA UNat ==
    ASSUME HashGivesBytes, NEW a \in Seq(Byte), NEW b \in Seq(Byte)
    PROVE  ClientU(a, b) \in Nat /\ ServerU(a, b) \in Nat
<1> DEFINE n == LenN - Len(a)
<1>1. n \in Int
    BY ToBytesType, SrpAssumption, LenProperties DEF LenN
<1> HIDE DEF n
<1>2. Zeros(n) \in Seq(Byte)
    BY <1>1, ZerosBytes
<1>3. a \o Zeros(n) \in Seq(Byte) /\ Pad(a) \in Seq(Byte)
    BY <1>2, ConcatSize, PadBytes
<1>4. WithB(a \o Zeros(n), b) \in Seq(Byte) /\ WithB(Pad(a), b) \in Seq(Byte)
    BY <1>3, WithBBytes
<1> QED
    BY <1>4, HashBytes DEF ClientU, ServerU, n

(* x is a number. *)
LEMMA PrivateXNat ==
    ASSUME HashGivesBytes, NEW u \in Seq(Byte), NEW w \in Seq(Byte), NEW salt \in Seq(Byte)
    PROVE  PrivateX(u, w, salt) \in Nat
<1>1. <<58>> \in Seq(Byte)
    BY SmallBytes, OneByte
<1>2. u \o <<58>> \in Seq(Byte)
    BY <1>1, ConcatSize
<1>3. u \o <<58>> \o w \in Seq(Byte)
    BY <1>2, ConcatSize
<1>4. Hash(u \o <<58>> \o w) \in Seq(Byte)
    BY <1>3, HashBytes
<1>5. salt \o Hash(u \o <<58>> \o w) \in Seq(Byte)
    BY <1>4, ConcatSize
<1> QED
    BY <1>5, HashBytes DEF PrivateX

(* The session key has twice the size of a digest. *)
LEMMA InterleaveType ==
    ASSUME HashGivesBytes, NEW s \in Seq(Byte), InterleaveS(s).ok
    PROVE  InterleaveS(s).out \in Sized(2 * HashLen)
<1> DEFINE even == IF Len(s) % 2 = 1 THEN Tail(s) ELSE s
           half == Len(even) \div 2
           odds == [i \in 1..half |-> even[2 * i - 1]]
           evens == [i \in 1..half |-> even[2 * i]]
           pairs == [i \in 1..HashLen |-> <<Hash(odds)[i], Hash(evens)[i]>>]
<1>1. s # <<>>
    BY DEF InterleaveS, Failed
<1>2. InterleaveS(s).out = FlattenSeq(pairs)
    BY DEF InterleaveS, Failed
<1>3. even \in Seq(Byte)
    BY <1>1
<1> HIDE DEF even
<1>4. Len(even) \in Nat /\ half \in Nat /\ \A i \in 1..half : 2 * i - 1 \in 1..Len(even) /\ 2 * i \in 1..Len(even)
    <2> DEFINE m == Len(even)
    <2>1. m \in Nat
        BY <1>3, LenProperties
    <2> HIDE DEF m
    <2>2. m \div 2 \in Nat /\ \A i \in 1..(m \div 2) : 2 * i - 1 \in 1..m /\ 2 * i \in 1..m
        BY <2>1, SMT
    <2> QED
        BY <2>1, <2>2 DEF m
<1> HIDE DEF half
<1>5. odds \in Seq(Byte) /\ evens \in Seq(Byte)
    <2>1. \A i \in 1..half : even[2 * i - 1] \in Byte /\ even[2 * i] \in Byte
        BY <1>3, <1>4, ElementByte
    <2> QED
        BY <1>4, <2>1
<1> HIDE DEF odds, evens
<1>6. /\ Hash(odds) \in Seq(Byte) /\ Len(Hash(odds)) = HashLen
      /\ Hash(evens) \in Seq(Byte) /\ Len(Hash(evens)) = HashLen
    BY <1>5, HashBytes
<1>7. ASSUME NEW i \in 1..HashLen
      PROVE  <<Hash(odds)[i], Hash(evens)[i]>> \in Seq(Byte) /\ Len(<<Hash(odds)[i], Hash(evens)[i]>>) = 2
    <2> DEFINE x == Hash(odds)[i]
               y == Hash(evens)[i]
    <2>1. x \in Byte /\ y \in Byte
        BY <1>6, ElementByte
    <2> HIDE DEF x, y
    <2>2. <<x, y>> \in Seq(Byte) /\ Len(<<x, y>>) = 2
        BY <2>1, TwoBytes
    <2> QED
        BY <2>2 DEF x, y
<1>8. HashLen \in Nat \ {0}
    BY SrpAssumption
<1>9. pairs \in Seq(Seq(Byte)) /\ Len(pairs) = HashLen /\ \A i \in 1..Len(pairs) : Len(pairs[i]) = 2
    <2>1. Len(pairs) = HashLen /\ pairs \in Seq(Seq(Byte))
        BY <1>7, <1>8
    <2>2. \A i \in 1..HashLen : Len(pairs[i]) = 2
        BY <1>7
    <2> QED
        BY <2>1, <2>2
<1> HIDE DEF pairs
<1> DEFINE size == 2
<1>10. size \in Nat \ {0} /\ \A i \in 1..Len(pairs) : Len(pairs[i]) = size
    BY <1>9
<1> HIDE DEF size
<1>11. FlattenSeq(pairs) \in Seq(Byte) /\ Len(FlattenSeq(pairs)) = Len(pairs) * size
    BY <1>9, <1>10, FlattenUniform
<1>12. Len(pairs) * size = 2 * HashLen
    BY <1>8, <1>9 DEF size
<1> QED
    BY <1>2, <1>11, <1>12 DEF Sized

(* What the proofs of both ends are made of. *)
ProofsSet == [ok : {TRUE}, srpB : Seq(Byte), m1 : Sized(HashLen), m2 : Sized(HashLen), key : Sized(2 * HashLen)]

(* XOR of two bytes is one. *)
LEMMA XorByteByte == \A x, y : XorByte(x, y) \in Byte
<1> DEFINE Good(n) == n \in Nat
           bit(x, y, w) == IF Bit(x, w) = Bit(y, w) THEN 0 ELSE w
<1>1. ASSUME NEW x, NEW y, NEW w \in Nat
      PROVE  bit(x, y, w) \in 0..w
    <2>1. CASE Bit(x, w) = Bit(y, w)
        BY <2>1
    <2>2. CASE Bit(x, w) # Bit(y, w)
        BY <2>2
    <2> QED
        BY <2>1, <2>2
<1> HIDE DEF bit
<1>2. ASSUME NEW x, NEW y
      PROVE  XorByte(x, y) \in Byte
    <2>1. XorByte(x, y) = bit(x, y, 1) + bit(x, y, 2) + bit(x, y, 4) + bit(x, y, 8)
                            + bit(x, y, 16) + bit(x, y, 32) + bit(x, y, 64) + bit(x, y, 128)
        BY Zenon DEF XorByte, bit
    <2>2. /\ bit(x, y, 1) \in 0..1 /\ bit(x, y, 2) \in 0..2 /\ bit(x, y, 4) \in 0..4 /\ bit(x, y, 8) \in 0..8
          /\ bit(x, y, 16) \in 0..16 /\ bit(x, y, 32) \in 0..32 /\ bit(x, y, 64) \in 0..64 /\ bit(x, y, 128) \in 0..128
        BY <1>1
    <2> DEFINE low == bit(x, y, 1) + bit(x, y, 2) + bit(x, y, 4) + bit(x, y, 8)
               b1 == bit(x, y, 16)
               b2 == bit(x, y, 32)
               b4 == bit(x, y, 64)
               b8 == bit(x, y, 128)
    <2>3. low \in 0..15
        <3> DEFINE l1 == bit(x, y, 1)
                   l2 == bit(x, y, 2)
                   l4 == bit(x, y, 4)
                   l8 == bit(x, y, 8)
        <3>1. l1 \in 0..1 /\ l2 \in 0..2 /\ l4 \in 0..4 /\ l8 \in 0..8
            BY <2>2
        <3>2. low = l1 + l2 + l4 + l8
            OBVIOUS
        <3> HIDE DEF l1, l2, l4, l8, low
        <3> QED
            BY <3>1, <3>2
    <2>4. b1 \in 0..16 /\ b2 \in 0..32 /\ b4 \in 0..64 /\ b8 \in 0..128 /\ XorByte(x, y) = low + b1 + b2 + b4 + b8
        BY <2>1, <2>2
    <2> HIDE DEF low, b1, b2, b4, b8
    <2> QED
        BY <2>3, <2>4 DEF Byte
<1> QED
    BY <1>2

(* XOR keeps the length of its first operand. *)
LEMMA XorBytesBytes ==
    ASSUME NEW a \in Seq(Byte), NEW b
    PROVE  XorBytes(a, b) \in Seq(Byte) /\ Len(XorBytes(a, b)) = Len(a)
<1>1. Len(a) \in Nat
    BY LenProperties
<1>2. \A i \in 1..Len(a) : XorByte(a[i], b[i]) \in Byte
    BY XorByteByte
<1> DEFINE n == Len(a)
<1> HIDE DEF n
<1>3. n \in Nat /\ \A i \in 1..n : XorByte(a[i], b[i]) \in Byte
    BY <1>1, <1>2 DEF n
<1>4. [i \in 1..n |-> XorByte(a[i], b[i])] \in Seq(Byte) /\ Len([i \in 1..n |-> XorByte(a[i], b[i])]) = n
    BY <1>3
<1> QED
    BY <1>4 DEF XorBytes, n

(* Key, M1 and M2 have their sizes. *)
LEMMA ProofsType ==
    ASSUME HashGivesBytes, NEW u \in Seq(Byte), NEW salt \in Seq(Byte), NEW srpA \in Seq(Byte), NEW srpB \in Seq(Byte),
           NEW secret \in Nat, Proofs(u, salt, srpA, srpB, secret).ok
    PROVE  Proofs(u, salt, srpA, srpB, secret) \in ProofsSet
<1> DEFINE s == ToBytes(secret)
           key == InterleaveS(s)
           m1 == CalculateM1(u, salt, srpA, srpB, key.out)
           m2 == Hash(srpA \o m1 \o key.out)
<1>1. s \in Seq(Byte)
    BY ToBytesType
<1>2. key.ok /\ Proofs(u, salt, srpA, srpB, secret)
                  = [ok |-> TRUE, srpB |-> srpB, m1 |-> m1, m2 |-> m2, key |-> key.out]
    BY Zenon DEF Proofs, Failed
<1> HIDE DEF s
<1>3. key.out \in Sized(2 * HashLen)
    BY <1>1, <1>2, InterleaveType
<1> HIDE DEF key
<1>4. key.out \in Seq(Byte)
    BY <1>3 DEF Sized
<1>5. m1 \in Sized(HashLen)
    <2> DEFINE hN == Hash(ToBytes(N))
               hg == Hash(ToBytes(g))
               hu == Hash(u)
               x == XorBytes(hN, hg)
    <2>1. ToBytes(N) \in Seq(Byte) /\ ToBytes(g) \in Seq(Byte)
        BY ToBytesType, SrpAssumption
    <2>2. hN \in Seq(Byte) /\ hg \in Seq(Byte) /\ hu \in Seq(Byte)
        BY <2>1, HashBytes
    <2> HIDE DEF hN, hg, hu
    <2>3. x \in Seq(Byte)
        BY <2>2, XorBytesBytes
    <2> HIDE DEF x
    <2>4. x \o hu \in Seq(Byte)
        BY <2>2, <2>3, ConcatSize
    <2>5. x \o hu \o salt \in Seq(Byte)
        BY <2>4, ConcatSize
    <2>6. x \o hu \o salt \o srpA \in Seq(Byte)
        BY <2>5, ConcatSize
    <2>7. x \o hu \o salt \o srpA \o srpB \in Seq(Byte)
        BY <2>6, ConcatSize
    <2>8. x \o hu \o salt \o srpA \o srpB \o key.out \in Seq(Byte)
        BY <1>4, <2>7, ConcatSize
    <2>9. Hash(x \o hu \o salt \o srpA \o srpB \o key.out) \in Sized(HashLen)
        BY <2>8 DEF HashGivesBytes
    <2> QED
        BY <2>9 DEF CalculateM1, x, hN, hg, hu
<1> HIDE DEF m1
<1>6. m1 \in Seq(Byte)
    BY <1>5 DEF Sized
<1>7. srpA \o m1 \in Seq(Byte)
    BY <1>6, ConcatSize
<1>8. srpA \o m1 \o key.out \in Seq(Byte)
    BY <1>4, <1>7, ConcatSize
<1>9. m2 \in Sized(HashLen)
    BY <1>8 DEF HashGivesBytes
<1> HIDE DEF m2
<1> QED
    BY <1>2, <1>3, <1>5, <1>9 DEF ProofsSet

(* A is a string of bytes. *)
LEMMA CalculateAType ==
    ASSUME NEW a \in Seq(Byte), CalculateA(a).ok
    PROVE  CalculateA(a).out \in Seq(Byte)
<1>1. CalculateA(a).out = ToBytes(PowMod(g, ToNumber(a)))
    BY DEF CalculateA, Failed
<1>2. g \in Nat /\ ToNumber(a) \in Nat
    BY SrpAssumption, ToNumberNat
<1>3. PowMod(g, ToNumber(a)) \in Nat
    BY <1>2, PowModNat
<1> QED
    BY <1>1, <1>3, ToBytesType

(* A product of numbers is one. *)
LEMMA ProductNat == \A x, y \in Nat : x * y \in Nat /\ x * y \in Int
BY SMT

(* What the challenge gives the client. *)
LEMMA ClientChallengeType ==
    ASSUME HashGivesBytes, NEW salt \in Seq(Byte), NEW a \in Seq(Byte), NEW srpA \in Seq(Byte), NEW srpB \in Seq(Byte),
           NEW u \in Seq(Byte), NEW w \in Seq(Byte), ClientChallenge(salt, a, srpA, srpB, u, w).ok
    PROVE  ClientChallenge(salt, a, srpA, srpB, u, w) \in ProofsSet
<1> DEFINE cu == ClientU(srpA, srpB)
           x == PrivateX(u, w, salt)
           nB == ToNumber(srpB)
           na == ToNumber(a)
           p == PowMod(g, x)
           base == (nB - ((k * p) % N)) % N
           exponent == (na + ((cu * x) % N)) % N
           s == PowMod(base, exponent)
<1>1. ClientChallenge(salt, a, srpA, srpB, u, w) = Proofs(u, salt, srpA, srpB, s)
    BY Zenon DEF ClientChallenge, Failed
<1>2. cu \in Nat /\ x \in Nat /\ nB \in Nat /\ na \in Nat /\ k \in Nat /\ g \in Nat
    BY UNat, PrivateXNat, ToNumberNat, MultiplierNat, SrpAssumption
<1> HIDE DEF cu, x, nB, na
<1>3. p \in Nat
    BY <1>2, PowModNat
<1> HIDE DEF p
<1>4. k * p \in Int /\ cu * x \in Int
    BY <1>2, <1>3, ProductNat
<1>5. (k * p) % N \in Nat /\ (cu * x) % N \in Nat
    BY <1>4, ModNat
<1>6. nB - ((k * p) % N) \in Int /\ na + ((cu * x) % N) \in Int
    <2> DEFINE y == (k * p) % N
               z == (cu * x) % N
    <2>1. y \in Nat /\ z \in Nat
        BY <1>5
    <2> HIDE DEF y, z
    <2>2. nB - y \in Int /\ na + z \in Int
        BY <1>2, <2>1
    <2> QED
        BY <2>2 DEF y, z
<1>7. base \in Nat /\ exponent \in Nat
    BY <1>6, ModNat
<1> HIDE DEF base, exponent
<1>8. s \in Nat
    BY <1>7, PowModNat
<1> HIDE DEF s
<1> QED
    BY <1>1, <1>8, ProofsType

(* What the challenge gives the server. *)
LEMMA ServerChallengeType ==
    ASSUME HashGivesBytes, NEW u \in Seq(Byte), NEW salt \in Seq(Byte), NEW v \in Seq(Byte), NEW srpA \in Seq(Byte),
           NEW b \in Seq(Byte), ServerChallenge(u, salt, v, srpA, b).ok
    PROVE  ServerChallenge(u, salt, v, srpA, b) \in ProofsSet
<1> DEFINE nA == ToNumber(srpA)
           nv == ToNumber(v)
           nb == ToNumber(b)
           p == PowMod(g, nb)
           t == (((k * nv) % N) + p) % N
           srpB == ToBytes(t)
           su == ServerU(srpA, srpB)
           q == PowMod(nv, su)
           base == ((nA % N) * q) % N
           s == PowMod(base, nb)
<1>1. ServerChallenge(u, salt, v, srpA, b) = Proofs(u, salt, srpA, srpB, s)
    BY Zenon DEF ServerChallenge, Failed
<1>2. nA \in Nat /\ nv \in Nat /\ nb \in Nat /\ k \in Nat /\ g \in Nat
    BY ToNumberNat, MultiplierNat, SrpAssumption
<1> HIDE DEF nA, nv, nb
<1>3. p \in Nat
    BY <1>2, PowModNat
<1> HIDE DEF p
<1>4. t \in Nat
    <2> DEFINE y == (k * nv) % N
    <2>1. k * nv \in Int
        BY <1>2, ProductNat
    <2>2. y \in Nat
        BY <2>1, ModNat
    <2> HIDE DEF y
    <2>3. y + p \in Int
        BY <1>3, <2>2
    <2>4. (y + p) % N \in Nat
        BY <2>3, ModNat
    <2> QED
        BY <2>4 DEF y
<1> HIDE DEF t
<1>5. srpB \in Seq(Byte)
    BY <1>4, ToBytesType
<1> HIDE DEF srpB
<1>6. su \in Nat
    BY <1>5, UNat
<1> HIDE DEF su
<1>7. q \in Nat
    BY <1>2, <1>6, PowModNat
<1> HIDE DEF q
<1>8. base \in Nat
    <2> DEFINE y == nA % N
    <2>1. nA \in Int
        BY <1>2
    <2>2. y \in Nat
        BY <2>1, ModNat
    <2> HIDE DEF y
    <2>3. y * q \in Int
        BY <1>7, <2>2, ProductNat
    <2>4. (y * q) % N \in Nat
        BY <2>3, ModNat
    <2> QED
        BY <2>4 DEF y
<1> HIDE DEF base
<1>9. s \in Nat
    BY <1>2, <1>8, PowModNat
<1> HIDE DEF s
<1> QED
    BY <1>1, <1>5, <1>9, ProofsType

(* What is assumed of keys, digests and packets. *)
LEMMA DatagramFacts ==
    /\ KeyLen \in Nat /\ IVLen \in Nat /\ HashBlock \in Nat /\ MaxPacket \in Nat /\ MinSessionKey \in Nat
    /\ HashLen \in Nat \ {0} /\ DigestLen \in Nat \ {0} /\ DigestLen <= HashLen /\ MinSessionKey <= 2 * HashLen
BY DatagramAssumption, SrpAssumption

(* The blocks that cover n bytes. *)
LEMMA EnoughRounds ==
    ASSUME NEW d \in Nat \ {0}, NEW n \in Nat
    PROVE  (n + d - 1) \div d \in Nat /\ ((n + d - 1) \div d) * d \in Nat /\ n <= ((n + d - 1) \div d) * d
<1> DEFINE m == n + d - 1
           q == m \div d
           r == m % d
<1>1. m \in Nat
    OBVIOUS
<1> HIDE DEF m
<1>2. q \in Nat /\ r \in Nat /\ r < d /\ m = d * q + r
    BY <1>1, SMT
<1> HIDE DEF q, r
<1>3. d * q = q * d /\ q * d \in Nat
    BY <1>2, SMT
<1> DEFINE z == q * d
<1>4. z \in Nat /\ m = z + r
    BY <1>2, <1>3
<1> HIDE DEF z
<1>5. n <= z
    BY <1>2, <1>4 DEF m
<1> QED
    BY <1>2, <1>4, <1>5 DEF m, q, z

(* A derived key has the length that was asked for. *)
LEMMA DeriveBytesType ==
    ASSUME HashGivesBytes, NEW length \in Nat, NEW use \in 1..6, NEW s \in Seq(Byte)
    PROVE  DeriveBytes(length, use, s) \in Seq(Byte) /\ Len(DeriveBytes(length, use, s)) = length
<1> DEFINE S == Sized(HashLen)
           x == Hash(Derivation(use))
           p == [i \in Nat |-> IF i = 0 THEN 0 ELSE i - 1]
           F == [t \in Nat \X S |-> Hash(t[2])]
           IsHashed(f) == f = [i \in Nat |-> IF i = 0 THEN x ELSE Hash(f[i - 1])]
           c == CHOOSE f : IsHashed(f)
           rounds == (length + HashLen - 1) \div HashLen
           blocks == [i \in 1..rounds |-> Hash(s \o c[i - 1])]
<1>1. x \in S
    <2>1. use \in Byte
        BY DEF Byte
    <2>2. Derivation(use) \in Seq(Byte)
        BY <2>1, OneByte DEF Derivation
    <2> QED
        BY <2>2 DEF HashGivesBytes
<1>2. p \in [Nat -> Nat] /\ \A i \in Nat \ {0} : p[i] < i
    BY SMT
<1>3. \A b \in S : b \in Seq(Byte) /\ Len(b) = HashLen /\ Hash(b) \in S
    BY DEF HashGivesBytes, Sized
<1> HIDE DEF S, x
<1>4. \E f \in [Nat -> S] : Recursion(f, x, p, F)
    <2>1. F \in [Nat \X S -> S]
        BY <1>3
    <2> HIDE DEF F, p
    <2> QED
        BY <1>1, <1>2, <2>1, RecursionExists
<1>5. PICK f \in [Nat -> S] : Recursion(f, x, p, F)
    BY <1>4
<1>6. ASSUME NEW i \in Nat
      PROVE  f[i] = IF i = 0 THEN x ELSE Hash(f[i - 1])
    <2>1. CASE i = 0
        BY <1>5, <2>1 DEF Recursion
    <2>2. CASE i # 0
        <3>1. i - 1 \in Nat /\ p[i] = i - 1
            BY <2>2
        <3>2. f[i] = F[<<i, f[p[i]]>>]
            <4> HIDE DEF F, p
            <4> QED
                BY <1>5, <2>2 DEF Recursion
        <3> DEFINE h == f[i - 1]
        <3>3. h \in S
            BY <3>1
        <3> HIDE DEF h
        <3>4. F[<<i, h>>] = Hash(h)
            BY <3>3
        <3> HIDE DEF F, p
        <3>5. f[i] = F[<<i, h>>]
            BY <3>1, <3>2 DEF h
        <3> QED
            BY <2>2, <3>4, <3>5 DEF h
    <2> QED
        BY <2>1, <2>2
<1>7. IsHashed(f)
    BY <1>6
<1>8. IsHashed(c)
    <2> HIDE DEF IsHashed
    <2> QED
        BY <1>7
<1>9. DeriveBytes(length, use, s) = Take(FlattenSeq(blocks), length)
    BY DEF DeriveBytes, x
<1> HIDE DEF c
<1>10. \A i \in Nat : c[i] = IF i = 0 THEN x ELSE Hash(c[i - 1])
    BY <1>8
<1> HIDE DEF IsHashed
<1> DEFINE T == {i \in Nat : c[i] \notin S}
<1>11. ASSUME T # {}
       PROVE  FALSE
    <2>1. T \subseteq Nat
        OBVIOUS
    <2> HIDE DEF T
    <2>2. PICK i \in T : \A j \in T : i <= j
        BY <1>11, <2>1, NatLeast
    <2>3. i \in Nat /\ c[i] \notin S
        BY <2>2 DEF T
    <2>4. i # 0
        BY <1>1, <1>10, <2>3
    <2>5. i - 1 \in Nat /\ ~ (i <= i - 1)
        BY <2>3, <2>4
    <2>6. c[i - 1] \in S
        BY <2>2, <2>5 DEF T
    <2> QED
        BY <1>3, <1>10, <2>3, <2>4, <2>6
<1>12. \A i \in Nat : c[i] \in S
    BY <1>11
<1> DEFINE size == HashLen
<1>13. rounds \in Nat /\ rounds * size \in Nat /\ length <= rounds * size /\ size \in Nat \ {0}
    BY DatagramFacts, EnoughRounds
<1> HIDE DEF rounds
<1>14. ASSUME NEW i \in 1..rounds
       PROVE  Hash(s \o c[i - 1]) \in Seq(Byte) /\ Len(Hash(s \o c[i - 1])) = size
    <2> DEFINE d == c[i - 1]
    <2>1. i - 1 \in Nat
        BY <1>13
    <2>2. d \in Seq(Byte)
        BY <1>3, <1>12, <2>1
    <2> HIDE DEF d
    <2>3. s \o d \in Seq(Byte)
        BY <2>2, ConcatSize
    <2>4. Hash(s \o d) \in Seq(Byte) /\ Len(Hash(s \o d)) = HashLen
        BY <2>3, HashBytes
    <2> QED
        BY <2>4 DEF d
<1>15. blocks \in Seq(Seq(Byte)) /\ Len(blocks) = rounds /\ \A i \in 1..Len(blocks) : Len(blocks[i]) = size
    <2>1. blocks \in Seq(Seq(Byte)) /\ Len(blocks) = rounds
        BY <1>13, <1>14
    <2>2. \A i \in 1..rounds : Len(blocks[i]) = size
        BY <1>14
    <2> QED
        BY <2>1, <2>2
<1> HIDE DEF blocks, size
<1> DEFINE flat == FlattenSeq(blocks)
<1>16. flat \in Seq(Byte) /\ Len(flat) = rounds * size
    BY <1>13, <1>15, FlattenUniform
<1> HIDE DEF flat
<1>17. length \in 0..Len(flat)
    BY <1>13, <1>16
<1>18. Take(flat, length) \in Seq(Byte) /\ Len(Take(flat, length)) = length
    BY <1>16, <1>17, BytesTakeDrop
<1> QED
    BY <1>9, <1>18 DEF flat

(* What the encryption of one direction takes of a session key. *)
SideSet == [enc : Seq(Byte), iv : Sized(IVLen), mac : Seq(Byte)]

(* The keys of both directions have their sizes. *)
LEMMA KeysType ==
    ASSUME HashGivesBytes, NEW key \in Sized(2 * HashLen)
    PROVE  Keys[key].client \in SideSet /\ Keys[key].server \in SideSet
<1> DEFINE side(first) == [enc |-> DeriveBytes(KeyLen, first, key), iv |-> DeriveBytes(IVLen, first + 1, key),
                           mac |-> DeriveBytes(HashLen, first + 2, key)]
<1>1. key \in Seq(Byte) /\ ~ (Len(key) < MinSessionKey)
    BY DatagramFacts DEF Sized
<1>2. Keys[key] = [ok |-> TRUE, client |-> side(1), server |-> side(4)]
    BY <1>1 DEF Keys
<1>3. ASSUME NEW first \in {1, 4}
      PROVE  side(first) \in SideSet
    <2> DEFINE f == first + 1
               h == first + 2
    <2>1. first \in 1..6 /\ f \in 1..6 /\ h \in 1..6
        OBVIOUS
    <2> HIDE DEF f, h
    <2>2. /\ DeriveBytes(KeyLen, first, key) \in Seq(Byte)
          /\ DeriveBytes(IVLen, f, key) \in Seq(Byte) /\ Len(DeriveBytes(IVLen, f, key)) = IVLen
          /\ DeriveBytes(HashLen, h, key) \in Seq(Byte)
        BY <1>1, <2>1, DatagramFacts, DeriveBytesType
    <2> QED
        BY <2>2 DEF SideSet, Sized, f, h
<1> HIDE DEF side
<1> QED
    BY <1>2, <1>3

(* A MAC has its size. *)
LEMMA DigestBytes ==
    ASSUME HashGivesBytes, NEW ctx \in SideSet, NEW data \in Seq(Byte), NEW seq \in Nat
    PROVE  Digest(ctx, data, seq) \in Seq(Byte) /\ Len(Digest(ctx, data, seq)) = DigestLen
<1> DEFINE d == data \o EncodeUint(seq, 8)
           pad(byte) == KeyPad(ctx.mac, byte)
           inner == Hash(pad(54) \o d)
           outer == Hash(pad(92) \o inner)
<1>1. seq \in Int /\ 8 \in Nat
    OBVIOUS
<1>2. EncodeUint(seq, 8) \in Seq(Byte)
    BY <1>1, EncodeUintBytes
<1>3. d \in Seq(Byte)
    BY <1>2, ConcatSize
<1> HIDE DEF d
<1>4. ASSUME NEW byte
      PROVE  pad(byte) \in Seq(Byte)
    <2> DEFINE full == Resize(ctx.mac, HashBlock)
               bytes == [i \in 1..HashBlock |-> byte]
    <2>1. full \in Seq(Byte)
        BY DatagramFacts, ResizeBytes DEF SideSet
    <2> HIDE DEF full, bytes
    <2>2. XorBytes(full, bytes) \in Seq(Byte)
        BY <2>1, XorBytesBytes
    <2> QED
        BY <2>2 DEF KeyPad, full, bytes
<1> HIDE DEF pad
<1>5. pad(54) \o d \in Seq(Byte)
    BY <1>3, <1>4, ConcatSize
<1>6. inner \in Seq(Byte)
    BY <1>5, HashBytes
<1> HIDE DEF inner
<1>7. pad(92) \o inner \in Seq(Byte)
    BY <1>4, <1>6, ConcatSize
<1>8. outer \in Seq(Byte) /\ Len(outer) = HashLen
    BY <1>7, HashBytes
<1> HIDE DEF outer
<1>9. DigestLen \in 0..Len(outer)
    BY <1>8, DatagramFacts
<1>10. Take(outer, DigestLen) \in Seq(Byte) /\ Len(Take(outer, DigestLen)) = DigestLen
    BY <1>8, <1>9, BytesTakeDrop
<1> QED
    BY <1>10 DEF Digest, Hmac, outer, inner, pad, d

(* Encryption keeps the length. *)
LEMMA AesEncryptType ==
    ASSUME NEW ctx \in SideSet, NEW data \in Seq(Byte), NEW seq \in Nat, NEW pos
    PROVE  \/ AesEncrypt(ctx, data, seq, pos) = Failed
           \/ \E out \in Seq(Byte), end \in Nat :
                 /\ Len(out) = Len(data) /\ Len(data) \in 1..MaxPacket
                 /\ AesEncrypt(ctx, data, seq, pos) = [ok |-> TRUE, out |-> out, pos |-> end]
<1>1. CASE Len(data) \notin 1..MaxPacket
    BY <1>1, Zenon DEF AesEncrypt
<1>2. CASE Len(data) \in 1..MaxPacket
    <2> DEFINE iv == CounterBlock(ctx.iv, seq)
               cx == [iv |-> iv, pos |-> StartPos(pos)]
               cipher == [block \in Seq(Byte) |-> Cipher(ctx.enc, block)]
               r == aes_ctr_crypt(cipher, CustomInc, data, cx)
               size == Len(iv)
               end == Len(data)
    <2>1. AesEncrypt(ctx, data, seq, pos) = [ok |-> TRUE, out |-> r.out, pos |-> r.pos]
        BY <1>2, Zenon DEF AesEncrypt
    <2>2. size \in Nat \ {0}
        <3> DEFINE n == 8
                   m == 2
                   one == 1
        <3>1. n \in Nat /\ m \in Nat /\ seq \in Int /\ one \in Int
            OBVIOUS
        <3>2. ctx.iv \in Seq(Byte)
            BY DEF SideSet, Sized
        <3> HIDE DEF n, m, one
        <3>3. EncodeUint(seq, n) \in Seq(Byte) /\ EncodeUint(one, m) \in Seq(Byte) /\ Len(EncodeUint(one, m)) = m
            BY <3>1, EncodeUintBytes
        <3>4. ctx.iv \o EncodeUint(seq, n) \in Seq(Byte)
            BY <3>2, <3>3, ConcatSize
        <3> DEFINE h == ctx.iv \o EncodeUint(seq, n)
        <3>5. h \o EncodeUint(one, m) \in Seq(Byte) /\ Len(h \o EncodeUint(one, m)) = Len(h) + Len(EncodeUint(one, m))
              /\ Len(h) \in Nat
            BY <3>3, <3>4, ConcatSize
        <3>6. iv = h \o EncodeUint(one, m)
            BY DEF CounterBlock, n, m, one
        <3> HIDE DEF h, iv
        <3>7. m \in Nat \ {0}
            BY DEF m
        <3> QED
            BY <3>3, <3>5, <3>6, <3>7
    <2> HIDE DEF iv, cipher
    <2>3. cx.iv = iv /\ cx.pos = 0
        BY DEF StartPos
    <2> HIDE DEF cx
    <2>4. /\ \E z : r.out = XorBytes(data, z)
          /\ r.pos = (cx.pos + end) - (IF cx.pos > 0 /\ cx.pos + end <= size THEN 0 ELSE (cx.pos + end) \div size) * size
        BY <2>3 DEF aes_ctr_crypt
    <2> HIDE DEF r
    <2>5. PICK z : r.out = XorBytes(data, z)
        BY <2>4
    <2>6. r.out \in Seq(Byte) /\ Len(r.out) = Len(data)
        BY <2>5, XorBytesBytes
    <2>7. r.pos \in Nat
        <3>1. end \in Nat
            BY LenProperties
        <3> HIDE DEF end, size
        <3>2. 0 + end = end /\ ~ (0 > 0)
            BY <3>1
        <3>3. r.pos = end - (end \div size) * size
            BY <2>3, <2>4, <3>2
        <3>4. end - (end \div size) * size \in Nat
            BY <2>2, <3>1, SMT
        <3> QED
            BY <3>3, <3>4
    <2> QED
        BY <1>2, <2>1, <2>6, <2>7, Zenon
<1> QED
    BY <1>1, <1>2

(* A datagram is at most a packet and its MAC. *)
LEMMA EncryptType ==
    ASSUME HashGivesBytes, NEW ctx \in SideSet, NEW plain \in Seq(Byte), NEW seq \in Nat, NEW pos,
           EncryptAndAuthenticate(ctx, plain, seq, pos).ok
    PROVE  /\ EncryptAndAuthenticate(ctx, plain, seq, pos).out \in Seq(Byte)
           /\ Len(EncryptAndAuthenticate(ctx, plain, seq, pos).out) <= MaxPacket + DigestLen
           /\ EncryptAndAuthenticate(ctx, plain, seq, pos).pos \in Nat
<1> DEFINE r == AesEncrypt(ctx, plain, seq, pos)
           e == EncryptAndAuthenticate(ctx, plain, seq, pos)
<1>1. r.ok /\ e = [r EXCEPT !.out = r.out \o Digest(ctx, r.out, seq)]
    <2>1. e = IF r.ok THEN [r EXCEPT !.out = r.out \o Digest(ctx, r.out, seq)] ELSE Failed
        BY DEF EncryptAndAuthenticate
    <2> HIDE DEF r
    <2> QED
        BY <2>1 DEF Failed
<1> HIDE DEF e
<1>2. r # Failed
    BY <1>1 DEF Failed
<1>9. \/ r = Failed
      \/ \E out \in Seq(Byte), end \in Nat :
            Len(out) = Len(plain) /\ Len(plain) \in 1..MaxPacket /\ r = [ok |-> TRUE, out |-> out, pos |-> end]
    <2>1. ctx \in SideSet /\ plain \in Seq(Byte) /\ seq \in Nat
        OBVIOUS
    <2> QED
        BY ONLY <2>1, AesEncryptType
<1> HIDE DEF r
<1>3. PICK out \in Seq(Byte), end \in Nat :
          Len(out) = Len(plain) /\ Len(plain) \in 1..MaxPacket /\ r = [ok |-> TRUE, out |-> out, pos |-> end]
    BY ONLY <1>2, <1>9, Zenon
<1> DEFINE d == Digest(ctx, out, seq)
<1>4. d \in Seq(Byte) /\ Len(d) = DigestLen
    BY DigestBytes
<1>5. e.out = out \o d /\ e.pos \in Nat
    BY <1>1, <1>3
<1> HIDE DEF d
<1>6. out \o d \in Seq(Byte) /\ Len(out \o d) = Len(out) + Len(d)
    BY <1>4, ConcatSize
<1> DEFINE n == Len(plain)
<1>7. n \in 1..MaxPacket /\ MaxPacket \in Nat /\ DigestLen \in Nat
    BY <1>3, DatagramFacts
<1>8. Len(out \o d) = n + DigestLen
    BY <1>3, <1>4, <1>6
<1> HIDE DEF n
<1> QED
    BY <1>5, <1>6, <1>7, <1>8 DEF e

(* What is decrypted is a string of bytes, and the position a number. *)
LEMMA DecryptType ==
    ASSUME NEW ctx \in SideSet, NEW data \in Seq(Byte), NEW seq \in Nat, NEW pos,
           DecryptAndVerifyMac(ctx, data, seq, pos).ok
    PROVE  /\ DecryptAndVerifyMac(ctx, data, seq, pos).out \in Seq(Byte)
           /\ DecryptAndVerifyMac(ctx, data, seq, pos).pos \in Nat
<1> DEFINE cut == Len(data) - DigestLen
           b == Take(data, cut)
           r == AesEncrypt(ctx, b, seq, pos)
<1>1. ~ (cut <= 0) /\ DecryptAndVerifyMac(ctx, data, seq, pos) = r
    <2>1. DecryptAndVerifyMac(ctx, data, seq, pos) = IF cut <= 0 THEN Failed
             ELSE IF Digest(ctx, b, seq) # Drop(data, cut) THEN Failed ELSE r
        BY Zenon DEF DecryptAndVerifyMac
    <2> HIDE DEF r, cut, b
    <2> QED
        BY <2>1 DEF Failed
<1>2. cut \in 0..Len(data)
    BY <1>1, DatagramFacts, LenProperties
<1> HIDE DEF cut
<1>3. b \in Seq(Byte)
    BY <1>2, BytesTakeDrop
<1> HIDE DEF b
<1>4. r # Failed
    BY <1>1 DEF Failed
<1>5. PICK out \in Seq(Byte), end \in Nat : r = [ok |-> TRUE, out |-> out, pos |-> end]
    <2>1. ctx \in SideSet /\ seq \in Nat
        OBVIOUS
    <2> QED
        BY ONLY <1>3, <1>4, <2>1, AesEncryptType
<1> HIDE DEF r
<1> QED
    BY <1>1, <1>5

(* Hexadecimal text is parsed to bytes. *)
LEMMA HexType ==
    ASSUME NEW s \in Seq(0..NotADigit), HexToBytes(s).ok
    PROVE  HexToBytes(s).out \in Seq(Byte)
<1> DEFINE D == 0..NotADigit
           even == IF Len(s) % 2 = 1 THEN <<0>> \o s ELSE s
           half == Len(even) \div 2
           out == [i \in 1..half |-> even[2 * i - 1] * 16 + even[2 * i]]
<1>1. NotADigit \notin Range(s) /\ HexToBytes(s).out = out
    <2>1. HexToBytes(s) = IF NotADigit \in Range(s) THEN Failed ELSE [ok |-> TRUE, out |-> out]
        BY Zenon DEF HexToBytes
    <2> HIDE DEF out
    <2> QED
        BY <2>1 DEF Failed
<1>2. even \in Seq(0..15)
    <2>1. s \in Seq(0..15)
        <3> DEFINE n == Len(s)
        <3>1. n \in Nat /\ s \in [1..n -> 0..NotADigit]
            BY LenProperties
        <3>2. \A i \in 1..n : s[i] # NotADigit
            BY <1>1, <3>1 DEF Range
        <3> HIDE DEF n
        <3>3. s \in [1..n -> 0..15]
            BY <3>1, <3>2 DEF NotADigit
        <3> QED
            BY <3>1, <3>3
    <2>2. <<0>> \o s \in Seq(0..15)
        BY <2>1
    <2> QED
        BY <2>1, <2>2
<1> HIDE DEF even
<1>3. half \in Nat /\ \A i \in 1..half : 2 * i - 1 \in 1..Len(even) /\ 2 * i \in 1..Len(even)
    <2> DEFINE m == Len(even)
    <2>1. m \in Nat
        BY <1>2, LenProperties
    <2> HIDE DEF m
    <2>2. m \div 2 \in Nat /\ \A i \in 1..(m \div 2) : 2 * i - 1 \in 1..m /\ 2 * i \in 1..m
        BY <2>1, SMT
    <2> QED
        BY <2>1, <2>2 DEF m
<1> HIDE DEF half
<1>4. ASSUME NEW i \in 1..half
      PROVE  even[2 * i - 1] * 16 + even[2 * i] \in Byte
    <2> DEFINE x == even[2 * i - 1]
               y == even[2 * i]
    <2>1. x \in 0..15 /\ y \in 0..15
        BY <1>2, <1>3, ElementOfSeq
    <2> HIDE DEF x, y
    <2>2. x * 16 + y \in Byte
        BY <2>1 DEF Byte
    <2> QED
        BY <2>2 DEF x, y
<1>5. out \in Seq(Byte)
    BY <1>3, <1>4
<1> QED
    BY <1>1, <1>5

(* The address of the server that main has parsed. *)
LEMMA ServerAddressType == ServerAddress \in Sized(AddressSize)
<1> DEFINE n == 2 * AddressSize - Len(ServerText)
           s == Zeros(n) \o ServerText
           r == HexToBytes(s)
<1>1. ServerText \in Seq(0..NotADigit) /\ ExpandedAddress(ServerText).ok
    BY WireAssumption DEF WireConstants
<1>2. ExpandedAddress(ServerText) = IF Len(ServerText) > 2 * AddressSize THEN Failed ELSE StringToAddress(s)
    BY DEF ExpandedAddress
<1>3. StringToAddress(s) = IF r.ok /\ Len(r.out) = AddressSize THEN r ELSE Failed
    BY DEF StringToAddress
<1>4. r.ok /\ Len(r.out) = AddressSize /\ ServerAddress = r.out /\ ~ (Len(ServerText) > 2 * AddressSize)
    <2> HIDE DEF s, r
    <2> QED
        BY <1>1, <1>2, <1>3 DEF Failed, ServerAddress
<1>5. n \in Nat
    BY <1>1, <1>4, Sizes, LenProperties
<1> HIDE DEF n
<1>6. Zeros(n) \in Seq(0..NotADigit)
    BY <1>5 DEF Zeros, NotADigit
<1>7. s \in Seq(0..NotADigit)
    BY <1>1, <1>6, ConcatProperties
<1> HIDE DEF s
<1>8. r.out \in Seq(Byte)
    BY <1>4, <1>7, HexType
<1> QED
    BY <1>4, <1>8 DEF Sized

(* What PasswordLoader has found. *)
LEMMA DbType ==
    ASSUME NEW n \in DOMAIN Db
    PROVE  n \in Seq(Byte) /\ n # <<>> /\ Db[n].salt \in Seq(Byte) /\ Db[n].verificator \in Seq(Byte)
<1> DEFINE bad == {i \in DOMAIN File : ~Skipped(File[i]) /\ ~GoodLine(File[i])}
           read == {i \in DOMAIN File : ~Skipped(File[i]) /\ \A j \in bad : i < j}
           names == {File[i][1] : i \in read}
           places(x) == {i \in read : File[i][1] = x}
           line(x) == File[Min(places(x))]
           db == [x \in names |-> [salt |-> HexToBytes(line(x)[2]).out, verificator |-> HexToBytes(line(x)[3]).out]]
<1>1. Db = db
    BY Zenon DEF Db, LoadFromFile
<1>2. n \in names /\ Db[n].salt = HexToBytes(line(n)[2]).out /\ Db[n].verificator = HexToBytes(line(n)[3]).out
    <2> HIDE DEF names, line
    <2> QED
        BY <1>1
<1>3. /\ File \in Seq(Seq(Seq(Byte) \ {<<>>}))
      /\ \A i \in DOMAIN File :
           Skipped(File[i]) \/ \A j \in {2, 3} \cap DOMAIN File[i] : File[i][j] \in Seq(0..NotADigit)
    BY WireAssumption DEF WireConstants
<1>4. /\ DOMAIN File \subseteq Nat
      /\ \A i \in DOMAIN File : File[i] \in Seq(Seq(Byte) \ {<<>>})
    BY <1>3, ElementOfSeq, LenProperties
<1>5. ASSUME NEW i \in read
      PROVE  i \in Nat /\ i \in DOMAIN File /\ ~ Skipped(File[i]) /\ GoodLine(File[i])
    <2>1. i \in Nat /\ i \in DOMAIN File /\ ~ Skipped(File[i]) /\ \A j \in bad : i < j
        BY <1>4
    <2>2. i \notin bad
        <3> HIDE DEF bad
        <3> QED
            BY <2>1
    <2> QED
        BY <2>1, <2>2
<1> HIDE DEF bad, read
<1> DEFINE m == Min(places(n))
<1>6. m \in read /\ File[m][1] = n
    <2>1. places(n) \subseteq Nat /\ places(n) # {}
        BY <1>2, <1>5
    <2> DEFINE P == places(n)
    <2> HIDE DEF P
    <2>2. P \subseteq Nat /\ P # {}
        BY <2>1 DEF P
    <2>3. \E x \in P : \A y \in P : x <= y
        BY <2>2, NatLeast
    <2>4. Min(P) \in P
        BY <2>3, MinIn
    <2> QED
        BY <2>4 DEF P
<1>7. Db[n].salt = HexToBytes(File[m][2]).out /\ Db[n].verificator = HexToBytes(File[m][3]).out
    BY <1>2
<1> HIDE DEF m, places, line, names
<1>8. m \in DOMAIN File /\ ~ Skipped(File[m]) /\ GoodLine(File[m]) /\ File[m] \in Seq(Seq(Byte) \ {<<>>})
    BY <1>4, <1>5, <1>6
<1>9. Len(File[m]) >= 3 /\ HexToBytes(File[m][2]).ok /\ HexToBytes(File[m][3]).ok
    BY <1>8 DEF GoodLine
<1>10. DOMAIN File[m] = 1..Len(File[m]) /\ Len(File[m]) \in Nat
    BY <1>8, LenProperties
<1>11. 1 \in 1..Len(File[m]) /\ 2 \in DOMAIN File[m] /\ 3 \in DOMAIN File[m]
    BY <1>9, <1>10
<1>12. File[m][1] \in Seq(Byte) \ {<<>>}
    BY <1>8, <1>11, ElementOfSeq
<1>13. File[m][2] \in Seq(0..NotADigit) /\ File[m][3] \in Seq(0..NotADigit)
    BY <1>3, <1>8, <1>11
<1>14. HexToBytes(File[m][2]).out \in Seq(Byte) /\ HexToBytes(File[m][3]).out \in Seq(Byte)
    BY <1>9, <1>13, HexType
<1> QED
    BY <1>6, <1>7, <1>12, <1>14

(* The responses of the node fit into a frame. *)
RpcFits(b) == b \in Seq(Byte) /\ 2 + Len(b) <= MaxNumber

(* A response of at most four bytes fits. *)
LEMMA ShortFits ==
    ASSUME NEW b \in Seq(Byte), Len(b) <= 4
    PROVE  RpcFits(b)
<1>1. Len(b) \in Nat /\ 16777215 <= MaxNumber /\ MaxNumber \in Nat
    BY Limits, LenProperties, SMT
<1> QED
    BY <1>1 DEF RpcFits

(* The short responses fit. *)
LEMMA SmallResponses ==
    /\ RpcFits(<<>>) /\ RpcFits(WaitNothing) /\ RpcFits(PortResponse(FreePort))
    /\ RpcFits(WaitRequest(1)) /\ Len(WaitRequest(1)) = 4
<1> DEFINE two == 2
           four == 4
           t == waitTimeout
           one == 1
<1>1. two \in Nat /\ four \in Nat /\ t \in Int /\ one \in Int /\ FreePort \in Int
    BY WireFacts DEF waitTimeout
<1>2. two <= 4 /\ four <= 4
    OBVIOUS
<1> HIDE DEF two, four, t, one
<1>3. /\ EncodeUint(FreePort, two) \in Seq(Byte) /\ Len(EncodeUint(FreePort, two)) = two
      /\ EncodeUint(t, four) \in Seq(Byte) /\ Len(EncodeUint(t, four)) = four
      /\ EncodeUint(one, four) \in Seq(Byte) /\ Len(EncodeUint(one, four)) = four
    BY <1>1, EncodeUintBytes
<1>4. RpcFits(EncodeUint(FreePort, two)) /\ RpcFits(EncodeUint(t, four)) /\ RpcFits(EncodeUint(one, four))
    BY <1>2, <1>3, ShortFits
<1>5. RpcFits(<<>>)
    <2> DEFINE none == <<>>
    <2>1. none \in Seq(Byte) /\ Len(none) <= 4
        BY NoBytes
    <2> HIDE DEF none
    <2>2. RpcFits(none)
        BY <2>1, ShortFits
    <2> QED
        BY <2>2 DEF none
<1> QED
    BY <1>3, <1>4, <1>5 DEF WaitNothing, PortResponse, WaitRequest, two, four, t, one

(* The response with the addresses fits. *)
LEMMA AddressesFit == RpcFits(AddressesResponse(NodeAddresses))
<1> DEFINE s == NodeAddresses
           size == AddressSize
           flat == FlattenSeq(s)
<1>1. s \in Seq([1..size -> Byte]) /\ size \in Nat \ {0}
    BY WireAssumption, Sizes DEF WireConstants
<1>2. \A i \in 1..Len(s) : s[i] \in [1..size -> Byte]
    BY <1>1, ElementOfSeq
<1>3. \A i \in 1..Len(s) : s[i] \in Seq(Byte) /\ Len(s[i]) = size
    BY <1>1, <1>2, StringsAreSeqs DEF Strings
<1>4. s \in Seq(Seq(Byte))
    BY <1>1, <1>3
<1> HIDE DEF size, s
<1>5. flat \in Seq(Byte) /\ Len(flat) = Len(s) * size
    BY <1>1, <1>3, <1>4, FlattenUniform
<1>6. Len(s) * size + 2 <= MaxNumber /\ MaxNumber \in Nat
    BY WireLimits DEF s, size
<1> HIDE DEF flat
<1> DEFINE z == Len(s) * size
<1>7. Len(flat) = z /\ z + 2 <= MaxNumber
    BY <1>5, <1>6
<1>8. Len(flat) \in Nat
    BY <1>5, LenProperties
<1> HIDE DEF z
<1>9. 2 + Len(flat) <= MaxNumber
    BY <1>6, <1>7, <1>8
<1> QED
    BY <1>5, <1>9 DEF RpcFits, AddressesResponse, flat, s

(* A capsule in the queue of the port. *)
Fitting(c) == c \in CapsuleSet /\ HeaderSize + Len(c.data) + 6 <= MaxNumber

(* The response with a capsule fits. *)
LEMMA WaitFoundFits ==
    ASSUME NEW c, Fitting(c)
    PROVE  RpcFits(WaitFound(c))
<1> DEFINE h == EncodeUint(waitSuccess, 4)
           p == PackCapsule(c)
<1>1. waitSuccess \in Int /\ 4 \in Nat
    BY DEF waitSuccess
<1>2. h \in Seq(Byte) /\ Len(h) = 4
    BY <1>1, EncodeUintBytes
<1>3. /\ c.dst \in Sized(AddressSize) /\ c.src \in Sized(AddressSize) /\ c.hop \in Nat /\ c.dx \in BOOLEAN
      /\ c.ds \in BOOLEAN /\ c.appId \in Sized(HashSize) /\ c.data \in Seq(Byte)
    BY DEF Fitting, CapsuleSet
<1>4. p \in Seq(Byte) /\ Len(p) = HeaderSize + Len(c.data) /\ Len(c.data) \in Nat
    BY <1>3, PackBytes
<1> HIDE DEF h, p
<1>5. h \o p \in Seq(Byte) /\ Len(h \o p) = Len(h) + Len(p)
    BY <1>2, <1>4, ConcatSize
<1>6. 2 + Len(h \o p) <= MaxNumber
    BY <1>2, <1>4, <1>5, Sizes, WireLimits DEF Fitting
<1> QED
    BY <1>5, <1>6 DEF RpcFits, WaitFound, h, p

(* The flags DX and DS in figures. *)
LEMMA FlagBits ==
    /\ 3 \in Byte /\ 3 % 2 = 1 /\ (3 \div 2) % 2 = 1
    /\ 1 \in Byte /\ 1 % 2 = 1 /\ (1 \div 2) % 2 # 1
    /\ 2 \in Byte /\ 2 % 2 # 1 /\ (2 \div 2) % 2 = 1
    /\ 0 \in Byte /\ 0 % 2 # 1 /\ (0 \div 2) % 2 # 1
BY SMT DEF Byte

Flags(x, y) == (IF x THEN 1 ELSE 0) + (IF y THEN 2 ELSE 0)

(* Both flags are read as they were set. *)
LEMMA FlagsRead ==
    ASSUME NEW x \in BOOLEAN, NEW y \in BOOLEAN
    PROVE  Flags(x, y) \in Byte /\ (Flags(x, y) % 2 = 1) = x /\ ((Flags(x, y) \div 2) % 2 = 1) = y
<1>1. CASE x /\ y
    <2>1. Flags(x, y) = 3
        BY <1>1 DEF Flags
    <2> QED
        BY <1>1, <2>1, FlagBits, Zenon
<1>2. CASE x /\ ~ y
    <2>1. Flags(x, y) = 1
        BY <1>2 DEF Flags
    <2> QED
        BY <1>2, <2>1, FlagBits, Zenon
<1>3. CASE ~ x /\ y
    <2>1. Flags(x, y) = 2
        BY <1>3 DEF Flags
    <2> QED
        BY <1>3, <2>1, FlagBits, Zenon
<1>4. CASE ~ x /\ ~ y
    <2>1. Flags(x, y) = 0
        BY <1>4 DEF Flags
    <2> QED
        BY <1>4, <2>1, FlagBits, Zenon
<1> QED
    BY <1>1, <1>2, <1>3, <1>4

(* A part between two others is found behind the first. *)
LEMMA MiddlePart ==
    ASSUME NEW p \in Seq(Byte), NEW y \in Seq(Byte), NEW z \in Seq(Byte),
           NEW m, NEW n, m = Len(p) + 1, n = Len(p) + Len(y)
    PROVE  SubSeq((p \o y) \o z, m, n) = y
<1>1. /\ p \o y \in Seq(Byte) /\ y \o z \in Seq(Byte) /\ (p \o y) \o z = p \o (y \o z)
      /\ Len(p) \in Nat /\ Len(y) \in Nat /\ Len(z) \in Nat /\ Len(p \o y) = Len(p) + Len(y)
      /\ Len(y \o z) = Len(y) + Len(z)
    BY ConcatSize, BytesAssociative, SMTT(30)
<1> DEFINE one == 1
           w == Len(y)
           t == y \o z
<1>3. one \in Nat \ {0} /\ w \in Int /\ w <= Len(t) /\ t \in Seq(Byte)
    BY <1>1
<1> HIDE DEF one, w, t
<1>4. SubSeq(p \o t, Len(p) + one, Len(p) + w) = SubSeq(t, one, w)
    BY <1>3, SubOfConcat
<1>5. SubSeq(t, one, w) = y
    <2>1. Take(y \o z, Len(y)) = y
        BY TakeDropConcat
    <2> QED
        BY <2>1, Zenon DEF Take, one, w, t
<1> QED
    <2>1. (p \o y) \o z = p \o t /\ m = Len(p) + one /\ n = Len(p) + w
        BY <1>1 DEF one, w, t
    <2> QED
        BY ONLY <1>4, <1>5, <2>1, Zenon

(* The same for a text of six parts. *)
Joined(p, y, z, q, t, c) ==
    /\ q = p \o y /\ t = y \o z /\ c = q \o z => c = p \o t /\ t \in Seq(Byte)
    /\ q = p \o y => q \in Seq(Byte) /\ Len(q) = Len(p) + Len(y)
    /\ q = p \o y /\ c = q \o z => \A m, n \in Nat : m = Len(p) + 1 /\ n = Len(p) + Len(y) => SubSeq(c, m, n) = y

(* What is put together and what is cut out of it, for three parts. *)
LEMMA Joins ==
    ASSUME NEW p \in Seq(Byte), NEW y \in Seq(Byte), NEW z \in Seq(Byte), NEW q, NEW t, NEW c
    PROVE  Joined(p, y, z, q, t, c)
<1>1. /\ p \o y \in Seq(Byte) /\ y \o z \in Seq(Byte) /\ (p \o y) \o z = p \o (y \o z)
      /\ Len(p \o y) = Len(p) + Len(y)
      /\ \A m, n \in Nat : m = Len(p) + 1 /\ n = Len(p) + Len(y) => SubSeq((p \o y) \o z, m, n) = y
    <2>1. /\ p \o y \in Seq(Byte) /\ y \o z \in Seq(Byte) /\ (p \o y) \o z = p \o (y \o z)
          /\ Len(p \o y) = Len(p) + Len(y)
        BY ConcatSize, BytesAssociative
    <2>2. ASSUME NEW m \in Nat, NEW n \in Nat, m = Len(p) + 1, n = Len(p) + Len(y)
          PROVE  SubSeq((p \o y) \o z, m, n) = y
        BY <2>2, MiddlePart
    <2>3. \A m, n \in Nat : m = Len(p) + 1 /\ n = Len(p) + Len(y) => SubSeq((p \o y) \o z, m, n) = y
        BY ONLY <2>2, Zenon
    <2> QED
        BY ONLY <2>1, <2>3, Zenon
<1> QED
    BY ONLY <1>1, Zenon DEF Joined

SixIn(b, p1, p2, p3, p4, p5, p6, n1, n2, n3, n4, n5) ==
    /\ b \in Seq(Byte) /\ Len(b) = n5 + Len(p6)
    /\ SubSeq(b, 1, n1) = p1 /\ SubSeq(b, n1 + 1, n2) = p2 /\ SubSeq(b, n2 + 1, n3) = p3
    /\ SubSeq(b, n3 + 1, n4) = p4 /\ SubSeq(b, n4 + 1, n5) = p5 /\ Drop(b, n5) = p6

(* Each of the six parts is cut out where it was put. *)
LEMMA SixParts ==
    ASSUME NEW p1, NEW p2, NEW p3, NEW p4, NEW p5, NEW p6, NEW b, b = p1 \o p2 \o p3 \o p4 \o p5 \o p6,
           p1 \in Seq(Byte) /\ p2 \in Seq(Byte) /\ p3 \in Seq(Byte) /\ p4 \in Seq(Byte) /\ p5 \in Seq(Byte)
             /\ p6 \in Seq(Byte),
           NEW n1, NEW n2, NEW n3, NEW n4, NEW n5,
           n1 \in Nat /\ n2 \in Nat /\ n3 \in Nat /\ n4 \in Nat /\ n5 \in Nat,
           n1 = Len(p1) /\ n2 = n1 + Len(p2) /\ n3 = n2 + Len(p3) /\ n4 = n3 + Len(p4) /\ n5 = n4 + Len(p5)
    PROVE  SixIn(b, p1, p2, p3, p4, p5, p6, n1, n2, n3, n4, n5)
<1>1. p1 \in Seq(Byte)
    OBVIOUS
<1>2. p2 \in Seq(Byte)
    OBVIOUS
<1>3. p3 \in Seq(Byte)
    OBVIOUS
<1>4. p4 \in Seq(Byte)
    OBVIOUS
<1>5. p5 \in Seq(Byte)
    OBVIOUS
<1>6. p6 \in Seq(Byte)
    OBVIOUS
<1>7. \A p, y, z, q, t, c : p \in Seq(Byte) /\ y \in Seq(Byte) /\ z \in Seq(Byte) => Joined(p, y, z, q, t, c)
    BY ONLY Joins, Zenon
<1>8. \E q2, q3, q4, q5, t2, t3, t4, t5 :
         /\ q2 = p1 \o p2 /\ q3 = q2 \o p3 /\ q4 = q3 \o p4 /\ q5 = q4 \o p5
         /\ t5 = p5 \o p6 /\ t4 = p4 \o t5 /\ t3 = p3 \o t4 /\ t2 = p2 \o t3
    BY Zenon
<1>9. PICK q2, q3, q4, q5, t2, t3, t4, t5 :
         /\ q2 = p1 \o p2 /\ q3 = q2 \o p3 /\ q4 = q3 \o p4 /\ q5 = q4 \o p5
         /\ t5 = p5 \o p6 /\ t4 = p4 \o t5 /\ t3 = p3 \o t4 /\ t2 = p2 \o t3
    BY ONLY <1>8, Zenon
<1>10. q2 \in Seq(Byte) /\ Len(q2) = Len(p1) + Len(p2)
    <2>1. Joined(p1, p2, p3, q2, t2, b)
        BY ONLY <1>1, <1>2, <1>3, <1>7
    <2> QED
        BY ONLY <1>9, <2>1, Zenon DEF Joined
<1>11. q3 \in Seq(Byte) /\ Len(q3) = Len(q2) + Len(p3)
    <2>1. Joined(q2, p3, p4, q3, t3, b)
        BY ONLY <1>10, <1>3, <1>4, <1>7
    <2> QED
        BY ONLY <1>9, <2>1, Zenon DEF Joined
<1>12. q4 \in Seq(Byte) /\ Len(q4) = Len(q3) + Len(p4)
    <2>1. Joined(q3, p4, p5, q4, t4, b)
        BY ONLY <1>11, <1>4, <1>5, <1>7
    <2> QED
        BY ONLY <1>9, <2>1, Zenon DEF Joined
<1>13. q5 \in Seq(Byte) /\ Len(q5) = Len(q4) + Len(p5) /\ b = q4 \o t5 /\ t5 \in Seq(Byte)
       /\ \A m, n \in Nat : m = Len(q4) + 1 /\ n = Len(q4) + Len(p5) => SubSeq(b, m, n) = p5
    <2>1. Joined(q4, p5, p6, q5, t5, b)
        BY ONLY <1>12, <1>5, <1>6, <1>7
    <2>2. b = q5 \o p6
        BY <1>9, Zenon
    <2> QED
        BY ONLY <1>9, <2>1, <2>2, Zenon DEF Joined
<1>14. b = q3 \o t4 /\ t4 \in Seq(Byte)
       /\ \A m, n \in Nat : m = Len(q3) + 1 /\ n = Len(q3) + Len(p4) => SubSeq(b, m, n) = p4
    <2>1. Joined(q3, p4, t5, q4, t4, b)
        BY ONLY <1>11, <1>4, <1>13, <1>7
    <2> QED
        BY ONLY <1>9, <1>13, <2>1, Zenon DEF Joined
<1>15. b = q2 \o t3 /\ t3 \in Seq(Byte)
       /\ \A m, n \in Nat : m = Len(q2) + 1 /\ n = Len(q2) + Len(p3) => SubSeq(b, m, n) = p3
    <2>1. Joined(q2, p3, t4, q3, t3, b)
        BY ONLY <1>10, <1>3, <1>14, <1>7
    <2> QED
        BY ONLY <1>9, <1>14, <2>1, Zenon DEF Joined
<1>16. b = p1 \o t2 /\ t2 \in Seq(Byte)
       /\ \A m, n \in Nat : m = Len(p1) + 1 /\ n = Len(p1) + Len(p2) => SubSeq(b, m, n) = p2
    <2>1. Joined(p1, p2, t3, q2, t2, b)
        BY ONLY <1>1, <1>2, <1>15, <1>7
    <2> QED
        BY ONLY <1>9, <1>15, <2>1, Zenon DEF Joined
<1>17. b = q5 \o p6
    BY <1>9, Zenon
<1>18. Take(b, Len(p1)) = p1 /\ Drop(b, Len(q5)) = p6 /\ b \in Seq(Byte) /\ Len(b) = Len(q5) + Len(p6)
    <2>1. Take(p1 \o t2, Len(p1)) = p1
        BY ONLY <1>1, <1>16, TakeDropConcat
    <2>2. Drop(q5 \o p6, Len(q5)) = p6 /\ q5 \o p6 \in Seq(Byte) /\ Len(q5 \o p6) = Len(q5) + Len(p6)
        BY ONLY <1>6, <1>13, TakeDropConcat, ConcatSize
    <2> QED
        BY ONLY <1>16, <1>17, <2>1, <2>2, Zenon
<1>19. n1 \in Nat /\ n2 \in Nat /\ n3 \in Nat /\ n4 \in Nat /\ n5 \in Nat
       /\ n1 = Len(p1) /\ n2 = n1 + Len(p2) /\ n3 = n2 + Len(p3) /\ n4 = n3 + Len(p4) /\ n5 = n4 + Len(p5)
    OBVIOUS
<1>20. Len(q2) = n2 /\ Len(q3) = n3 /\ Len(q4) = n4 /\ Len(q5) = n5
    BY ONLY <1>10, <1>11, <1>12, <1>13, <1>19, Zenon
<1>21. n1 + 1 \in Nat /\ n2 + 1 \in Nat /\ n3 + 1 \in Nat /\ n4 + 1 \in Nat
    BY ONLY <1>19
<1>22. SubSeq(b, n1 + 1, n2) = p2
    BY ONLY <1>16, <1>19, <1>21, Zenon
<1>23. SubSeq(b, n2 + 1, n3) = p3
    BY ONLY <1>15, <1>19, <1>20, <1>21, Zenon
<1>24. SubSeq(b, n3 + 1, n4) = p4
    BY ONLY <1>14, <1>19, <1>20, <1>21, Zenon
<1>25. SubSeq(b, n4 + 1, n5) = p5
    BY ONLY <1>13, <1>19, <1>20, <1>21, Zenon
<1>26. SubSeq(b, 1, n1) = p1
    BY ONLY <1>18, <1>19, Zenon DEF Take
<1> QED
    BY ONLY <1>18, <1>20, <1>22, <1>23, <1>24, <1>25, <1>26, Zenon DEF SixIn

(* What UnpackCapsule takes from where. *)
LEMMA UnpackIs ==
    ASSUME NEW b, ~ (Len(b) < HeaderSize), NEW v, v = b[2 * AddressSize + 3]
    PROVE  UnpackCapsule(b) =
             [ok |-> TRUE, dst |-> SubSeq(b, 1, AddressSize), src |-> SubSeq(b, AddressSize + 1, 2 * AddressSize),
              hop |-> DecodeUint(b, 2 * AddressSize, 2), dx |-> v % 2 = 1, ds |-> (v \div 2) % 2 = 1,
              appId |-> SubSeq(b, 2 * AddressSize + 4, HeaderSize), data |-> Drop(b, HeaderSize)]
<1> DEFINE w == b[2 * AddressSize + 3]
<1>1. UnpackCapsule(b) =
             [ok |-> TRUE, dst |-> SubSeq(b, 1, AddressSize), src |-> SubSeq(b, AddressSize + 1, 2 * AddressSize),
              hop |-> DecodeUint(b, 2 * AddressSize, 2), dx |-> w % 2 = 1, ds |-> (w \div 2) % 2 = 1,
              appId |-> SubSeq(b, 2 * AddressSize + 4, HeaderSize), data |-> Drop(b, HeaderSize)]
    BY Zenon DEF UnpackCapsule, Take
<1> QED
    BY ONLY <1>1, v = w, Zenon

(* What PackCapsule puts together. *)
LEMMA PackIs ==
    ASSUME NEW c
    PROVE  PackCapsule(c) = c.dst \o c.src \o EncodeUint(c.hop, 2) \o <<Flags(c.dx, c.ds)>> \o c.appId \o c.data
<1>1. Flags(c.dx, c.ds) = (IF c.dx THEN 1 ELSE 0) + (IF c.ds THEN 2 ELSE 0)
    BY Zenon DEF Flags
<1> HIDE DEF Flags
<1> QED
    BY <1>1, Zenon DEF PackCapsule

(***************************************************************************)
(* What a capsule is unpacked to is what was packed (ccapsule.cpp).        *)
(***************************************************************************)
LEMMA CapsuleFields ==
    ASSUME NEW c \in CapsuleSet
    PROVE  c = [ok |-> TRUE, dst |-> c.dst, src |-> c.src, hop |-> c.hop, dx |-> c.dx, ds |-> c.ds, appId |-> c.appId,
                data |-> c.data]
BY Zenon DEF CapsuleSet

(***************************************************************************)
(* A capsule that CCapsule::pack writes is read by unpack as it was: both  *)
(* addresses, the hop count, the flags, the application and the data are   *)
(* found at the same places (CCapsule::pack and unpack,                    *)
(* ccapsule.cpp:74,79); the hop count has two bytes.                       *)
(***************************************************************************)
THEOREM CapsuleRoundTrip ==
    ASSUME NEW c \in CapsuleSet, c.hop < 65536
    PROVE  UnpackCapsule(PackCapsule(c)) = c
<1> DEFINE s == AddressSize
           z == HashSize
           x == c.dx
           y == c.ds
           flag == Flags(x, y)
           hop == c.hop
           two == 2
           h == EncodeUint(hop, two)
           f == <<flag>>
           b == PackCapsule(c)
           d == UnpackCapsule(b)
           n2 == 2 * s
           n3 == n2 + 2
           n4 == n3 + 1
           n5 == n4 + z
<1>1. /\ c.dst \in Seq(Byte) /\ Len(c.dst) = s /\ c.src \in Seq(Byte) /\ Len(c.src) = s
      /\ hop \in Nat /\ c.appId \in Seq(Byte) /\ Len(c.appId) = z /\ c.data \in Seq(Byte)
      /\ x \in BOOLEAN /\ y \in BOOLEAN
    BY DEF CapsuleSet, Sized
<1>2. s \in Nat \ {0} /\ z \in Nat \ {0} /\ HeaderSize = n5 /\ 2 * s + 3 = n4 /\ 2 * s + 4 = n4 + 1
      /\ n2 \in Nat /\ n3 \in Nat /\ n4 \in Nat \ {0} /\ n5 \in Nat /\ n3 + 1 = n4 /\ n4 <= n5 /\ n3 <= n5
      /\ n2 = s + s
    BY Sizes DEF HeaderSize
<1>3. b = c.dst \o c.src \o h \o f \o c.appId \o c.data
    BY ONLY PackIs, Zenon
<1>5. FitsIn(hop, two) /\ hop \in Int /\ two \in Nat
    <2>1. 65536 <= MaxNumber /\ MaxNumber \in Nat
        BY Limits, SMT
    <2> QED
        BY <1>1, <2>1 DEF FitsIn
<1>6. two = 2 /\ n3 = n2 + two
    OBVIOUS
<1> HIDE DEF n2, n3, n4, n5, s, z, b, x, y, hop, two
<1>7. flag \in Byte /\ (flag % 2 = 1) = x /\ ((flag \div 2) % 2 = 1) = y
    BY <1>1, FlagsRead
<1> HIDE DEF flag
<1>8. h \in Seq(Byte) /\ Len(h) = two /\ Value(h) = hop
    BY <1>5, EncodeUintBytes, ValueOfUint
<1>9. f \in Seq(Byte) /\ Len(f) = 1 /\ f[1] = flag
    BY <1>7, OneByte
<1> HIDE DEF h, f
<1>10. /\ b \in Seq(Byte) /\ Len(b) = n5 + Len(c.data)
       /\ SubSeq(b, 1, s) = c.dst /\ SubSeq(b, s + 1, n2) = c.src /\ SubSeq(b, n2 + 1, n3) = h
       /\ SubSeq(b, n3 + 1, n4) = f /\ SubSeq(b, n4 + 1, n5) = c.appId /\ Drop(b, n5) = c.data
    <2>1. s = Len(c.dst) /\ n2 = s + Len(c.src) /\ n3 = n2 + Len(h) /\ n4 = n3 + Len(f) /\ n5 = n4 + Len(c.appId)
        BY <1>1, <1>2, <1>6, <1>8, <1>9 DEF n4, n5
    <2>2. n2 \in Nat /\ n3 \in Nat /\ n4 \in Nat /\ n5 \in Nat /\ s \in Nat
        BY <1>2
    <2>3. SixIn(b, c.dst, c.src, h, f, c.appId, c.data, s, n2, n3, n4, n5)
        BY ONLY <1>1, <1>3, <1>8, <1>9, <2>1, <2>2, SixParts, Zenon
    <2> QED
        BY ONLY <2>3, Zenon DEF SixIn
<1>11. Len(c.data) \in Nat
    BY <1>1, LenProperties
<1>12. n3 <= Len(b) /\ n4 <= Len(b) /\ ~ (Len(b) < HeaderSize)
    BY ONLY <1>2, <1>10, <1>11
<1>13. DecodeUint(b, n2, 2) = hop
    <2> DEFINE m == n2 + 1
    <2>1. m \in Nat /\ m = n2 + 1
        BY <1>2
    <2> HIDE DEF m
    <2>2. DecodeUint(b, n2, two) = Value(SubSeq(b, m, n3))
        BY <1>2, <1>5, <1>6, <1>10, <1>12, <2>1, DecodeIs
    <2> QED
        BY ONLY <1>6, <1>8, <1>10, <2>1, <2>2, Zenon
<1>14. b[n4] = flag
    <2>1. n4 \in Int
        BY <1>2
    <2>2. \A i \in 1..(n4 - n4 + 1) : SubSeq(b, n4, n4)[i] = b[n4 + i - 1]
        BY <1>2, <1>10, <1>12, <2>1, BytesSub
    <2>3. 1 \in 1..(n4 - n4 + 1) /\ n4 + 1 - 1 = n4
        BY <2>1
    <2>4. SubSeq(b, n4, n4)[1] = b[n4]
        BY ONLY <2>2, <2>3, Zenon
    <2>5. SubSeq(b, n4, n4) = f
        BY ONLY <1>2, <1>10, Zenon
    <2> QED
        BY ONLY <1>9, <2>4, <2>5, Zenon
<1>15. d = [ok |-> TRUE, dst |-> c.dst, src |-> c.src, hop |-> hop, dx |-> x, ds |-> y, appId |-> c.appId, data |-> c.data]
    <2> DEFINE v == b[2 * s + 3]
    <2>1. v = flag
        BY ONLY <1>2, <1>14, Zenon
    <2> HIDE DEF v
    <2>2. d = [ok |-> TRUE, dst |-> SubSeq(b, 1, s), src |-> SubSeq(b, s + 1, 2 * s),
               hop |-> DecodeUint(b, 2 * s, 2), dx |-> v % 2 = 1, ds |-> (v \div 2) % 2 = 1,
               appId |-> SubSeq(b, 2 * s + 4, HeaderSize), data |-> Drop(b, HeaderSize)]
        <3>1. ~ (Len(b) < HeaderSize) /\ v = b[2 * AddressSize + 3]
            BY ONLY <1>12, Zenon DEF s, v
        <3> QED
            BY ONLY <3>1, UnpackIs, Zenon DEF s
    <2>3. SubSeq(b, 2 * s + 4, HeaderSize) = c.appId /\ Drop(b, HeaderSize) = c.data
        BY ONLY <1>2, <1>10, Zenon
    <2>4. SubSeq(b, s + 1, 2 * s) = c.src /\ DecodeUint(b, 2 * s, 2) = hop
        BY ONLY <1>10, <1>13, Zenon DEF n2
    <2> HIDE DEF d
    <2> QED
        BY ONLY <1>7, <1>10, <2>1, <2>2, <2>3, <2>4, Zenon
<1> HIDE DEF d
<1>16. c = [ok |-> TRUE, dst |-> c.dst, src |-> c.src, hop |-> c.hop, dx |-> c.dx, ds |-> c.ds, appId |-> c.appId,
            data |-> c.data]
    <2>1. c \in CapsuleSet
        OBVIOUS
    <2> QED
        BY ONLY <2>1, CapsuleFields, Zenon
<1>19. d = c
    BY ONLY <1>15, <1>16, Zenon DEF hop, x, y
<1> QED
    BY <1>19 DEF d, b

(* The program always gets a capsule out of the response that the node made of one. *)
LEMMA WaitFoundResult ==
    ASSUME NEW c \in CapsuleSet
    PROVE  WaitResult(WaitFound(c)) \in CapsuleSet
<1> DEFINE n == waitSuccess
           w == 4
           h == EncodeUint(n, w)
           p == PackCapsule(c)
           b == h \o p
<1>1. FitsIn(n, w) /\ n \in Int /\ w \in Nat
    <2>1. 16777215 <= MaxNumber /\ MaxNumber \in Nat
        BY Limits, SMT
    <2> QED
        BY <2>1 DEF FitsIn, waitSuccess
<1>2. w = 4
    OBVIOUS
<1> HIDE DEF n, w
<1>3. h \in Seq(Byte) /\ Len(h) = w
    BY <1>1, EncodeUintBytes
<1>4. /\ c.dst \in Sized(AddressSize) /\ c.src \in Sized(AddressSize) /\ c.hop \in Nat /\ c.dx \in BOOLEAN
      /\ c.ds \in BOOLEAN /\ c.appId \in Sized(HashSize) /\ c.data \in Seq(Byte)
    BY DEF CapsuleSet
<1>5. p \in Seq(Byte) /\ Len(p) = HeaderSize + Len(c.data) /\ Len(c.data) \in Nat
    BY <1>4, PackBytes
<1> HIDE DEF p
<1>6. DecodeUint(b, 0, w) = n
    BY <1>1, <1>5, DecodeEncode
<1> HIDE DEF h
<1>7. Len(b) = Len(h) + Len(p) /\ Len(p) \in Nat /\ Drop(b, Len(h)) = p
    BY <1>3, <1>5, ConcatSize, TakeDropConcat
<1>8. ~ (Len(b) < 4) /\ Drop(b, 4) = p /\ DecodeUint(b, 0, 4) = waitSuccess /\ b = WaitFound(c)
    <2>1. ~ (Len(b) < 4)
        BY <1>2, <1>3, <1>7
    <2>2. Drop(b, 4) = p
        BY <1>2, <1>3, <1>7, Zenon
    <2>3. DecodeUint(b, 0, 4) = waitSuccess
        BY <1>2, <1>6, Zenon DEF n
    <2>4. b = WaitFound(c)
        BY <1>2, Zenon DEF WaitFound, h, p, n
    <2> QED
        BY <2>1, <2>2, <2>3, <2>4
<1> HIDE DEF b
<1>9. WaitResult(WaitFound(c)) = UnpackCapsule(p)
    BY <1>8 DEF WaitResult
<1>10. UnpackCapsule(p) # Failed
    <2>1. ~ (Len(p) < HeaderSize)
        BY <1>5, Sizes
    <2>2. UnpackCapsule(p).ok
        <3>1. \E x1, x2, x3, x4, x5, x6, x7 : UnpackCapsule(p) =
                  [ok |-> TRUE, dst |-> x1, src |-> x2, hop |-> x3, dx |-> x4, ds |-> x5, appId |-> x6, data |-> x7]
            BY <2>1, Zenon DEF UnpackCapsule
        <3> QED
            BY <3>1
    <2> QED
        BY <2>2 DEF Failed
<1> QED
    BY <1>5, <1>9, <1>10, UnpackType

(* A bit is 0 or 1. *)
LEMMA BitIs == ASSUME NEW x \in Nat, NEW w \in Nat \ {0} PROVE Bit(x, w) \in {0, 1}
<1>1. x \div w \in Int
    OBVIOUS
<1>2. \A q \in Int : q % 2 \in {0, 1}
    BY SMT
<1> QED
    BY <1>1, <1>2 DEF Bit

(* The eight bits of a number below 256. *)
LEMMA BitsOfSum ==
    ASSUME NEW c1 \in {0, 1}, NEW c2 \in {0, 1}, NEW c4 \in {0, 1}, NEW c8 \in {0, 1},
           NEW d1 \in {0, 1}, NEW d2 \in {0, 1}, NEW d4 \in {0, 1}, NEW d8 \in {0, 1},
           NEW y \in Nat, y = c1 + 2 * c2 + 4 * c4 + 8 * c8 + 16 * d1 + 32 * d2 + 64 * d4 + 128 * d8
    PROVE  /\ Bit(y, 1) = c1 /\ Bit(y, 2) = c2 /\ Bit(y, 4) = c4 /\ Bit(y, 8) = c8
           /\ Bit(y, 16) = d1 /\ Bit(y, 32) = d2 /\ Bit(y, 64) = d4 /\ Bit(y, 128) = d8
<1>1. Bit(y, 1) = c1
    BY SMT DEF Bit
<1>2. Bit(y, 2) = c2
    BY SMT DEF Bit
<1>4. Bit(y, 4) = c4
    BY SMT DEF Bit
<1>8. Bit(y, 8) = c8
    BY SMT DEF Bit
<1>16. Bit(y, 16) = d1
    BY SMT DEF Bit
<1>32. Bit(y, 32) = d2
    BY SMT DEF Bit
<1>64. Bit(y, 64) = d4
    BY SMT DEF Bit
<1>128. Bit(y, 128) = d8
    BY SMT DEF Bit
<1> QED
    BY <1>1, <1>2, <1>4, <1>8, <1>16, <1>32, <1>64, <1>128

(* A byte is made of its bits. *)
LEMMA SumOfBits ==
    ASSUME NEW y \in Byte
    PROVE  y = Bit(y, 1) + 2 * Bit(y, 2) + 4 * Bit(y, 4) + 8 * Bit(y, 8)
                 + 16 * Bit(y, 16) + 32 * Bit(y, 32) + 64 * Bit(y, 64) + 128 * Bit(y, 128)
BY SMT DEF Bit, Byte

(* XOR works on each bit. *)
LEMMA XorBits ==
    ASSUME NEW a \in Byte, NEW b \in Byte, NEW w \in {1, 2, 4, 8, 16, 32, 64, 128}
    PROVE  Bit(XorByte(a, b), w) = IF Bit(a, w) = Bit(b, w) THEN 0 ELSE 1
<1> DEFINE c(v) == IF Bit(a, v) = Bit(b, v) THEN 0 ELSE 1
           bit(v) == IF Bit(a, v) = Bit(b, v) THEN 0 ELSE v
           y == XorByte(a, b)
<1>1. \A v : c(v) \in {0, 1}
    OBVIOUS
<1>2. \A v \in Nat : bit(v) = v * c(v)
    OBVIOUS
<1>3. y = bit(1) + bit(2) + bit(4) + bit(8) + bit(16) + bit(32) + bit(64) + bit(128)
    BY Zenon DEF XorByte
<1>4. y \in Nat
    BY XorByteByte, Limits
<1> HIDE DEF c, bit, y
<1>5. y = c(1) + 2 * c(2) + 4 * c(4) + 8 * c(8) + 16 * c(16) + 32 * c(32) + 64 * c(64) + 128 * c(128)
    <2>1. /\ bit(1) = 1 * c(1) /\ bit(2) = 2 * c(2) /\ bit(4) = 4 * c(4) /\ bit(8) = 8 * c(8)
          /\ bit(16) = 16 * c(16) /\ bit(32) = 32 * c(32) /\ bit(64) = 64 * c(64) /\ bit(128) = 128 * c(128)
        BY <1>2
    <2> QED
        BY <1>1, <1>3, <2>1
<1> DEFINE c1 == c(1)
           c2 == c(2)
           c4 == c(4)
           c8 == c(8)
           d1 == c(16)
           d2 == c(32)
           d4 == c(64)
           d8 == c(128)
<1>6. /\ c1 \in {0, 1} /\ c2 \in {0, 1} /\ c4 \in {0, 1} /\ c8 \in {0, 1}
      /\ d1 \in {0, 1} /\ d2 \in {0, 1} /\ d4 \in {0, 1} /\ d8 \in {0, 1}
      /\ y = c1 + 2 * c2 + 4 * c4 + 8 * c8 + 16 * d1 + 32 * d2 + 64 * d4 + 128 * d8
    BY <1>1, <1>5
<1> HIDE DEF c1, c2, c4, c8, d1, d2, d4, d8
<1>7. /\ Bit(y, 1) = c1 /\ Bit(y, 2) = c2 /\ Bit(y, 4) = c4 /\ Bit(y, 8) = c8
      /\ Bit(y, 16) = d1 /\ Bit(y, 32) = d2 /\ Bit(y, 64) = d4 /\ Bit(y, 128) = d8
    BY <1>4, <1>6, BitsOfSum
<1>8. Bit(y, w) = c(w)
    BY <1>7 DEF c1, c2, c4, c8, d1, d2, d4, d8
<1> QED
    BY <1>8 DEF c, y

(* The mask is taken off again by putting it on again. *)
LEMMA XorTwice ==
    ASSUME NEW a \in Byte, NEW b \in Byte
    PROVE  XorByte(XorByte(a, b), b) = a
<1> DEFINE y == XorByte(a, b)
           z == XorByte(y, b)
           Weights == {1, 2, 4, 8, 16, 32, 64, 128}
<1>1. y \in Byte /\ z \in Byte
    BY XorByteByte
<1>2. ASSUME NEW w \in Weights
      PROVE  Bit(z, w) = Bit(a, w)
    <2>1. Bit(y, w) = IF Bit(a, w) = Bit(b, w) THEN 0 ELSE 1
        BY XorBits
    <2>2. Bit(z, w) = IF Bit(y, w) = Bit(b, w) THEN 0 ELSE 1
        <3> HIDE DEF y
        <3> QED
            BY <1>1, XorBits
    <2>3. Bit(a, w) \in {0, 1} /\ Bit(b, w) \in {0, 1}
        BY BitIs, Limits
    <2> HIDE DEF y, z
    <2> QED
        BY <2>1, <2>2, <2>3
<1> HIDE DEF y, z
<1>3. /\ Bit(z, 1) = Bit(a, 1) /\ Bit(z, 2) = Bit(a, 2) /\ Bit(z, 4) = Bit(a, 4) /\ Bit(z, 8) = Bit(a, 8)
      /\ Bit(z, 16) = Bit(a, 16) /\ Bit(z, 32) = Bit(a, 32) /\ Bit(z, 64) = Bit(a, 64) /\ Bit(z, 128) = Bit(a, 128)
    BY <1>2
<1>4. z = Bit(z, 1) + 2 * Bit(z, 2) + 4 * Bit(z, 4) + 8 * Bit(z, 8)
            + 16 * Bit(z, 16) + 32 * Bit(z, 32) + 64 * Bit(z, 64) + 128 * Bit(z, 128)
    BY <1>1, SumOfBits
<1>5. a = Bit(a, 1) + 2 * Bit(a, 2) + 4 * Bit(a, 4) + 8 * Bit(a, 8)
            + 16 * Bit(a, 16) + 32 * Bit(a, 32) + 64 * Bit(a, 64) + 128 * Bit(a, 128)
    BY SumOfBits
<1>6. z = a
    BY <1>3, <1>4, <1>5, Zenon
<1> QED
    BY <1>6 DEF y, z

(* A mask on a string comes off again. *)
LEMMA XorBytesTwice ==
    ASSUME NEW a \in Seq(Byte), NEW b \in Seq(Byte), Len(a) <= Len(b)
    PROVE  XorBytes(XorBytes(a, b), b) = a
<1> DEFINE n == Len(a)
           y == XorBytes(a, b)
<1>1. n \in Nat /\ Len(b) \in Nat /\ \A i \in 1..n : a[i] \in Byte /\ b[i] \in Byte
    BY LenProperties, ElementOfSeq
<1>2. y \in Seq(Byte) /\ Len(y) = n
    BY XorBytesBytes
<1>3. y = [i \in 1..n |-> XorByte(a[i], b[i])]
    BY DEF XorBytes
<1>4. XorBytes(y, b) = [i \in 1..n |-> XorByte(y[i], b[i])]
    <2> HIDE DEF y
    <2> QED
        BY <1>2 DEF XorBytes
<1> HIDE DEF n, y
<1>5. \A i \in 1..n : XorByte(y[i], b[i]) = a[i]
    BY <1>1, <1>3, XorTwice
<1>6. a = [i \in 1..n |-> a[i]]
    BY DEF n
<1> QED
    BY <1>4, <1>5, <1>6, Zenon DEF y

(* The third of them. *)
CipherGivesBlocks == \A key, block \in Seq(Byte) : Cipher(key, block) \in Sized(BlockLen)

(* The counter block has the size of a block. *)
LEMMA CounterBlockBytes ==
    ASSUME NEW iv \in Sized(IVLen), NEW seq \in Nat
    PROVE  CounterBlock(iv, seq) \in Sized(BlockLen) /\ BlockLen \in Nat /\ BlockLen >= 2
<1> DEFINE n == 8
           m == 2
           one == 1
           h == iv \o EncodeUint(seq, n)
<1>1. n \in Nat /\ m \in Nat /\ seq \in Int /\ one \in Int /\ IVLen \in Nat
    BY DatagramFacts
<1>2. iv \in Seq(Byte) /\ Len(iv) = IVLen
    BY DEF Sized
<1>3. BlockLen = IVLen + n + m /\ n = 8 /\ m = 2 /\ CounterBlock(iv, seq) = h \o EncodeUint(one, m)
    BY DEF BlockLen, CounterBlock
<1> HIDE DEF n, m, one
<1>4. EncodeUint(seq, n) \in Seq(Byte) /\ Len(EncodeUint(seq, n)) = n
      /\ EncodeUint(one, m) \in Seq(Byte) /\ Len(EncodeUint(one, m)) = m
    BY <1>1, EncodeUintBytes
<1>5. h \in Seq(Byte) /\ Len(h) = Len(iv) + Len(EncodeUint(seq, n))
    BY <1>2, <1>4, ConcatSize
<1> HIDE DEF h
<1>6. h \o EncodeUint(one, m) \in Seq(Byte) /\ Len(h \o EncodeUint(one, m)) = Len(h) + Len(EncodeUint(one, m))
    BY <1>4, <1>5, ConcatSize
<1> DEFINE size == Len(h \o EncodeUint(one, m))
<1>7. size = BlockLen /\ BlockLen \in Nat /\ BlockLen >= 2
    <2>1. size = (IVLen + n) + m
        BY <1>2, <1>4, <1>5, <1>6, Zenon
    <2> HIDE DEF size
    <2> QED
        BY ONLY <1>1, <1>3, <2>1
<1> QED
    BY <1>3, <1>6, <1>7 DEF Sized

(* So has the next one. *)
LEMMA IncBytes ==
    ASSUME NEW b \in Sized(BlockLen), BlockLen \in Nat, BlockLen >= 2
    PROVE  CustomInc[b] \in Sized(BlockLen)
<1> DEFINE n == BlockLen - 2
           x == b[BlockLen]
           y == b[BlockLen - 1]
<1>1. b \in Seq(Byte) /\ Len(b) = BlockLen
    BY DEF Sized
<1>2. x \in Byte /\ y \in Byte /\ n \in 0..Len(b) /\ BlockLen = n + 2
    BY <1>1, ElementOfSeq
<1>3. CustomInc[b] = Take(b, n) \o <<x, y>>
    BY <1>1 DEF CustomInc
<1> HIDE DEF n, x, y
<1>4. Take(b, n) \in Seq(Byte) /\ Len(Take(b, n)) = n
    BY <1>1, <1>2, BytesTakeDrop
<1>5. <<x, y>> \in Seq(Byte) /\ Len(<<x, y>>) = 2
    BY <1>2, TwoBytes
<1> DEFINE t == Take(b, n)
           u == <<x, y>>
<1>6. t \in Seq(Byte) /\ u \in Seq(Byte) /\ Len(t) = n /\ Len(u) = 2
    BY <1>4, <1>5
<1> HIDE DEF t, u
<1>7. t \o u \in Seq(Byte) /\ Len(t \o u) = Len(t) + Len(u)
    BY <1>6, ConcatSize
<1>8. Len(t \o u) = BlockLen
    BY <1>2, <1>6, <1>7
<1> QED
    BY <1>3, <1>7, <1>8, Zenon DEF Sized, t, u

(* What begins with x and goes on with G stays where G does. *)
LEMMA Iterated ==
    ASSUME NEW S, NEW x \in S, NEW G, \A b \in S : G[b] \in S,
           NEW c, c = CHOOSE f : f = [i \in Nat |-> IF i = 0 THEN x ELSE G[f[i - 1]]]
    PROVE  \A i \in Nat : c[i] \in S
<1> DEFINE p == [i \in Nat |-> IF i = 0 THEN 0 ELSE i - 1]
           F == [t \in Nat \X S |-> G[t[2]]]
           Is(f) == f = [i \in Nat |-> IF i = 0 THEN x ELSE G[f[i - 1]]]
<1>1. p \in [Nat -> Nat] /\ \A i \in Nat \ {0} : p[i] < i
    BY SMT
<1>2. F \in [Nat \X S -> S]
    OBVIOUS
<1>3. \E f \in [Nat -> S] : Recursion(f, x, p, F)
    <2> HIDE DEF F, p
    <2> QED
        BY <1>1, <1>2, RecursionExists
<1>4. PICK f \in [Nat -> S] : Recursion(f, x, p, F)
    BY <1>3
<1>5. ASSUME NEW i \in Nat
      PROVE  f[i] = IF i = 0 THEN x ELSE G[f[i - 1]]
    <2>1. CASE i = 0
        BY <1>4, <2>1 DEF Recursion
    <2>2. CASE i # 0
        <3>1. i - 1 \in Nat /\ p[i] = i - 1
            BY <2>2
        <3>2. f[i] = F[<<i, f[p[i]]>>]
            <4> HIDE DEF F, p
            <4> QED
                BY <1>4, <2>2 DEF Recursion
        <3> DEFINE h == f[i - 1]
        <3>3. h \in S
            BY <3>1
        <3> HIDE DEF h
        <3>4. F[<<i, h>>] = G[h]
            BY <3>3
        <3> HIDE DEF F, p
        <3>5. f[i] = F[<<i, h>>]
            BY <3>1, <3>2 DEF h
        <3> QED
            BY <2>2, <3>4, <3>5 DEF h
    <2> QED
        BY <2>1, <2>2
<1>6. Is(f)
    BY <1>5
<1>7. Is(c)
    BY <1>6
<1>8. \A i \in Nat : c[i] = IF i = 0 THEN x ELSE G[c[i - 1]]
    BY <1>7
<1> HIDE DEF Is
<1> DEFINE T == {i \in Nat : c[i] \notin S}
<1>9. ASSUME T # {}
      PROVE  FALSE
    <2>1. T \subseteq Nat
        OBVIOUS
    <2> HIDE DEF T
    <2>2. PICK i \in T : \A j \in T : i <= j
        BY <1>9, <2>1, NatLeast
    <2>3. i \in Nat /\ c[i] \notin S
        BY <2>2 DEF T
    <2>4. i # 0
        BY <1>8, <2>3
    <2>5. i - 1 \in Nat /\ ~ (i <= i - 1)
        BY <2>3, <2>4
    <2>6. c[i - 1] \in S
        BY <2>2, <2>5 DEF T
    <2> QED
        BY <1>8, <2>3, <2>4, <2>6
<1> QED
    BY <1>9

(* The counter mode puts a mask on the data that depends only on how long they are. *)
LEMMA Masked ==
    ASSUME CipherGivesBlocks, NEW key \in Seq(Byte), NEW iv \in Sized(BlockLen), BlockLen \in Nat, BlockLen >= 2,
           NEW n \in Nat
    PROVE  \E z \in Seq(Byte) :
              /\ n <= Len(z)
              /\ \A d : Len(d) = n =>
                    aes_ctr_crypt([block \in Seq(Byte) |-> Cipher(key, block)], CustomInc, d, [iv |-> iv, pos |-> 0]).out
                        = XorBytes(d, z)
<1> DEFINE S == Sized(BlockLen)
           cipher == [block \in Seq(Byte) |-> Cipher(key, block)]
           c == CHOOSE f : f = [i \in Nat |-> IF i = 0 THEN iv ELSE CustomInc[f[i - 1]]]
           size == Len(iv)
           rounds == (n + size - 1) \div size
           blocks == [i \in 1..rounds |-> cipher[c[i - 1]]]
           flat == FlattenSeq(blocks)
<1>1. \A i \in Nat : c[i] \in S
    <2>1. iv \in S /\ \A b \in S : CustomInc[b] \in S
        BY IncBytes
    <2> HIDE DEF S
    <2> QED
        BY <2>1, Iterated, ZenonT(30)
<1>2. ASSUME NEW d, Len(d) = n
      PROVE  aes_ctr_crypt(cipher, CustomInc, d, [iv |-> iv, pos |-> 0]).out = XorBytes(d, Drop(flat, 0))
    <2> DEFINE cx == [iv |-> iv, pos |-> 0]
               end == cx.pos + Len(d)
               r == (end + size - 1) \div size
    <2>1. aes_ctr_crypt(cipher, CustomInc, d, cx).out
             = XorBytes(d, Drop(FlattenSeq([i \in 1..r |-> cipher[c[i - 1]]]), 0))
        <3>1. cx.iv = iv /\ cx.pos = 0
            OBVIOUS
        <3> HIDE DEF cipher
        <3> QED
            BY <3>1 DEF aes_ctr_crypt
    <2>2. r = rounds
        BY <1>2
    <2> QED
        BY <2>1, <2>2
<1> HIDE DEF c
<1>3. size \in Nat \ {0} /\ size = BlockLen
    BY DEF Sized
<1>4. rounds \in Nat /\ rounds * size \in Nat /\ n <= rounds * size
    <2> HIDE DEF size
    <2> QED
        BY <1>3, EnoughRounds
<1> HIDE DEF rounds
<1>5. ASSUME NEW i \in 1..rounds
      PROVE  cipher[c[i - 1]] \in Seq(Byte) /\ Len(cipher[c[i - 1]]) = size
    <2>1. i - 1 \in Nat
        BY <1>4
    <2>2. c[i - 1] \in Seq(Byte)
        BY <1>1, <2>1 DEF Sized
    <2>3. Cipher(key, c[i - 1]) \in Sized(BlockLen)
        BY <2>2 DEF CipherGivesBlocks
    <2>4. cipher[c[i - 1]] = Cipher(key, c[i - 1])
        BY <2>2
    <2> QED
        BY <1>3, <2>3, <2>4 DEF Sized
<1> HIDE DEF cipher, size
<1>6. blocks \in Seq(Seq(Byte)) /\ Len(blocks) = rounds /\ \A i \in 1..Len(blocks) : Len(blocks[i]) = size
    <2>1. blocks \in Seq(Seq(Byte)) /\ Len(blocks) = rounds
        BY <1>4, <1>5
    <2>2. \A i \in 1..rounds : Len(blocks[i]) = size
        BY <1>5
    <2> QED
        BY <2>1, <2>2
<1> HIDE DEF blocks
<1>7. flat \in Seq(Byte) /\ Len(flat) = rounds * size
    BY <1>3, <1>6, FlattenUniform
<1> HIDE DEF flat
<1> DEFINE none == 0
<1>8. none \in 0..Len(flat)
    BY <1>4, <1>7
<1> HIDE DEF none
<1>9. Drop(flat, none) \in Seq(Byte) /\ Len(Drop(flat, none)) = Len(flat) - none
    BY <1>7, <1>8, BytesTakeDrop
<1> DEFINE z == Drop(flat, none)
<1>10. z \in Seq(Byte) /\ n <= Len(z)
    BY <1>4, <1>7, <1>9 DEF none
<1>11. \A d : Len(d) = n => aes_ctr_crypt(cipher, CustomInc, d, [iv |-> iv, pos |-> 0]).out = XorBytes(d, z)
    BY <1>2 DEF none
<1> HIDE DEF z
<1> QED
    BY <1>10, <1>11 DEF cipher

ThereAndBack(ctx, data, seq, pos, pos2) ==
    \E out \in Seq(Byte) : \E end, end2 :
        /\ Len(out) = Len(data)
        /\ AesEncrypt(ctx, data, seq, pos) = [ok |-> TRUE, out |-> out, pos |-> end]
        /\ AesEncrypt(ctx, out, seq, pos2) = [ok |-> TRUE, out |-> data, pos |-> end2]

(* Decryption is encryption once more, wherever in a block the last datagram ended. *)
LEMMA AesTwice ==
    ASSUME CipherGivesBlocks, NEW ctx \in SideSet, NEW data \in Seq(Byte), Len(data) \in 1..MaxPacket,
           NEW seq \in Nat, NEW pos, NEW pos2
    PROVE  ThereAndBack(ctx, data, seq, pos, pos2)
<1> DEFINE iv == CounterBlock(ctx.iv, seq)
           cipher == [block \in Seq(Byte) |-> Cipher(ctx.enc, block)]
           crypt(d) == aes_ctr_crypt(cipher, CustomInc, d, [iv |-> iv, pos |-> 0])
           n == Len(data)
<1>1. ctx.enc \in Seq(Byte) /\ ctx.iv \in Sized(IVLen)
    BY DEF SideSet
<1>2. iv \in Sized(BlockLen) /\ BlockLen \in Nat /\ BlockLen >= 2
    BY <1>1, CounterBlockBytes
<1>3. n \in Nat
    BY LenProperties
<1> HIDE DEF iv
<1>4. \E z \in Seq(Byte) : n <= Len(z) /\ \A d : Len(d) = n => crypt(d).out = XorBytes(d, z)
    <2> DEFINE key == ctx.enc
               m == n
    <2>1. key \in Seq(Byte) /\ m \in Nat
        BY <1>1, <1>3
    <2> HIDE DEF key, m
    <2>2. \E z \in Seq(Byte) :
              /\ m <= Len(z)
              /\ \A d : Len(d) = m =>
                    aes_ctr_crypt([block \in Seq(Byte) |-> Cipher(key, block)], CustomInc, d, [iv |-> iv, pos |-> 0]).out
                        = XorBytes(d, z)
        BY <1>2, <2>1, Masked
    <2> QED
        BY <2>2, Zenon DEF key, m
<1>5. PICK z \in Seq(Byte) : n <= Len(z) /\ \A d : Len(d) = n => crypt(d).out = XorBytes(d, z)
    BY <1>4
<1>6. ASSUME NEW d, Len(d) = n, NEW p
      PROVE  AesEncrypt(ctx, d, seq, p) = [ok |-> TRUE, out |-> crypt(d).out, pos |-> crypt(d).pos]
    <2>1. ~ (Len(d) \notin 1..MaxPacket)
        BY <1>6
    <2> QED
        BY <2>1, Zenon DEF AesEncrypt, StartPos, iv
<1> HIDE DEF crypt, n
<1> DEFINE out == XorBytes(data, z)
<1>7. out \in Seq(Byte) /\ Len(out) = n /\ Len(data) = n
    BY XorBytesBytes DEF n
<1>8. XorBytes(out, z) = data
    BY <1>5, <1>7, XorBytesTwice
<1> HIDE DEF out
<1>9. crypt(data).out = out /\ crypt(out).out = data
    BY <1>5, <1>7, <1>8, Zenon DEF out
<1>10. AesEncrypt(ctx, data, seq, pos) = [ok |-> TRUE, out |-> out, pos |-> crypt(data).pos]
    BY <1>6, <1>7, <1>9, Zenon
<1>11. AesEncrypt(ctx, out, seq, pos2) = [ok |-> TRUE, out |-> data, pos |-> crypt(out).pos]
    BY <1>6, <1>7, <1>9, Zenon
<1> QED
    BY <1>7, <1>10, <1>11, Zenon DEF ThereAndBack, n

(***************************************************************************)
(* What DatagramEncryptor makes of a packet DatagramDecryptor returns,     *)
(* whole, its MAC verified, wherever in a block both ends have stopped     *)
(* before: every datagram starts anew (datagramencryptor.cpp,              *)
(* datagramdecryptor.cpp, aes_modes.c).                                    *)
(***************************************************************************)
THEOREM DatagramReturns ==
    ASSUME HashGivesBytes, CipherGivesBlocks, NEW ctx \in SideSet, NEW plain \in Seq(Byte),
           Len(plain) \in 1..MaxPacket, NEW seq \in Nat, NEW pos, NEW pos2
    PROVE  LET e == EncryptAndAuthenticate(ctx, plain, seq, pos)
               d == DecryptAndVerifyMac(ctx, e.out, seq, pos2)
           IN  e.ok /\ d.ok /\ d.out = plain
<1> DEFINE e == EncryptAndAuthenticate(ctx, plain, seq, pos)
           d == DecryptAndVerifyMac(ctx, e.out, seq, pos2)
           r == AesEncrypt(ctx, plain, seq, pos)
<1>9. ThereAndBack(ctx, plain, seq, pos, pos2)
    BY AesTwice
<1>1. PICK out \in Seq(Byte) : \E end, end2 :
              /\ Len(out) = Len(plain)
              /\ AesEncrypt(ctx, plain, seq, pos) = [ok |-> TRUE, out |-> out, pos |-> end]
              /\ AesEncrypt(ctx, out, seq, pos2) = [ok |-> TRUE, out |-> plain, pos |-> end2]
    BY <1>9, Zenon DEF ThereAndBack
<1>0. PICK end, end2 :
              /\ AesEncrypt(ctx, plain, seq, pos) = [ok |-> TRUE, out |-> out, pos |-> end]
              /\ AesEncrypt(ctx, out, seq, pos2) = [ok |-> TRUE, out |-> plain, pos |-> end2]
    BY <1>1
<1> DEFINE t == Digest(ctx, out, seq)
<1>2. t \in Seq(Byte) /\ Len(t) = DigestLen
    BY DigestBytes
<1>3. e = [ok |-> TRUE, out |-> out \o t, pos |-> end]
    <2>1. e = IF r.ok THEN [r EXCEPT !.out = r.out \o Digest(ctx, r.out, seq)] ELSE Failed
        BY DEF EncryptAndAuthenticate
    <2> HIDE DEF r, e
    <2>2. r = [ok |-> TRUE, out |-> out, pos |-> end]
        BY <1>0 DEF r
    <2> QED
        BY <2>1, <2>2
<1> HIDE DEF e, t
<1>4. e.ok /\ e.out = out \o t
    BY <1>3
<1> DEFINE b == out \o t
           cut == Len(b) - DigestLen
<1>5. Take(b, Len(out)) = out /\ Drop(b, Len(out)) = t
    BY <1>2, TakeDropConcat
<1>6. cut = Len(out) /\ ~ (cut <= 0)
    <2> DEFINE n == Len(out)
    <2>1. n \in Nat /\ n # 0 /\ DigestLen \in Nat
        BY <1>1, DatagramFacts
    <2>2. Len(b) = n + DigestLen
        BY <1>2, ConcatSize
    <2> HIDE DEF n, b
    <2> QED
        BY <2>1, <2>2 DEF n
<1>7. d = AesEncrypt(ctx, out, seq, pos2)
    <2>1. DecryptAndVerifyMac(ctx, b, seq, pos2) = IF cut <= 0 THEN Failed
             ELSE IF Digest(ctx, Take(b, cut), seq) # Drop(b, cut) THEN Failed
             ELSE AesEncrypt(ctx, Take(b, cut), seq, pos2)
        BY Zenon DEF DecryptAndVerifyMac
    <2>2. Take(b, cut) = out /\ Drop(b, cut) = Digest(ctx, out, seq)
        BY <1>5, <1>6, Zenon DEF t
    <2> HIDE DEF b, cut
    <2>3. DecryptAndVerifyMac(ctx, b, seq, pos2) = AesEncrypt(ctx, out, seq, pos2)
        BY <1>6, <2>1, <2>2, Zenon
    <2> QED
        BY <1>4, <2>3, Zenon DEF b
<1> HIDE DEF d
<1>8. d = [ok |-> TRUE, out |-> plain, pos |-> end2]
    BY <1>0, <1>7, Zenon
<1> QED
    BY <1>4, <1>8 DEF e, d

(* Division with a remainder has one result. *)
LEMMA RemainderIs ==
    ASSUME NEW n \in Nat \ {0}, NEW q \in Int, NEW r \in Nat, r < n
    PROVE  (n * q + r) % n = r
<1> DEFINE x == n * q + r
           z == n * q
           p == x \div n
           s == x % n
           y == n * p
           d == q - p
           m == n * d
<1>1. x \in Int /\ z \in Int /\ x = z + r
    BY SMT
<1> HIDE DEF z, x
<1>2. p \in Int /\ s \in Nat /\ s < n /\ x = y + s
    BY <1>1, SMT
<1>3. d \in Int /\ y \in Int
    BY <1>2, SMT
<1> HIDE DEF p, s
<1>4. m = z - y /\ m \in Int
    BY <1>2, SMT DEF z
<1> HIDE DEF y
<1>5. d >= 1 => m >= n
    BY <1>3, SMT
<1>6. d <= -1 => m <= -n
    BY <1>3, SMT
<1>7. d = 0 => m = 0
    BY SMT
<1> HIDE DEF m, d
<1>8. s = r
    BY <1>1, <1>2, <1>3, <1>4, <1>5, <1>6, <1>7
<1> QED
    BY <1>8 DEF s, x, z

(* Multiples of n do not count. *)
LEMMA RemainderKept ==
    ASSUME NEW n \in Nat \ {0}, NEW q \in Int, NEW x \in Int
    PROVE  (n * q + x) % n = x % n
<1> DEFINE p == x \div n
           r == x % n
           t == q + p
<1>1. p \in Int /\ r \in Nat /\ r < n /\ x = n * p + r
    BY SMT
<1> HIDE DEF p, r
<1>2. n * q + x = n * t + r /\ t \in Int
    BY <1>1, SMT
<1> HIDE DEF t
<1>3. (n * t + r) % n = r
    BY <1>1, <1>2, RemainderIs
<1> QED
    BY <1>2, <1>3 DEF r

(* Multiplication in the group. *)
Mul(x, y) == (x * y) % N

(* Products are below N. *)
LEMMA MulNat ==
    ASSUME NEW x \in Int, NEW y \in Int
    PROVE  Mul(x, y) \in Nat /\ Mul(x, y) < N
<1>1. x * y \in Int /\ N \in Nat \ {0}
    BY SrpAssumption
<1> DEFINE z == x * y
<1> HIDE DEF z
<1>2. z % N \in Nat /\ z % N < N
    BY <1>1, SMT DEF z
<1> QED
    BY <1>2 DEF Mul, z

(* Multiplication is commutative. *)
LEMMA MulSwap ==
    ASSUME NEW x \in Int, NEW y \in Int
    PROVE  Mul(x, y) = Mul(y, x)
<1>1. x * y = y * x
    BY SMT
<1> QED
    BY <1>1 DEF Mul

(* What is below N is its own remainder. *)
LEMMA ModSmall ==
    ASSUME NEW x \in Nat, x < N
    PROVE  x % N = x
BY SrpAssumption, SMT

(* A factor may be reduced first. *)
LEMMA MulRest ==
    ASSUME NEW x \in Int, NEW y \in Int
    PROVE  Mul(x % N, y) = Mul(x, y)
<1> DEFINE q == x \div N
           r == x % N
           t == q * y
           w == r * y
<1>1. N \in Nat \ {0}
    BY SrpAssumption
<1>2. q \in Int /\ r \in Int /\ x = N * q + r
    BY <1>1, SMT
<1> HIDE DEF q, r
<1>3. t \in Int /\ w \in Int
    BY <1>2, SMT
<1>4. x * y = N * t + w
    BY <1>1, <1>2, SMT
<1> HIDE DEF t, w
<1>5. (N * t + w) % N = w % N
    BY <1>1, <1>3, RemainderKept
<1> QED
    BY <1>4, <1>5 DEF Mul, r, w

(* Multiplication is associative. *)
LEMMA MulMul ==
    ASSUME NEW x \in Int, NEW y \in Int, NEW z \in Int
    PROVE  Mul(Mul(x, y), z) = Mul(x, Mul(y, z))
<1> DEFINE p == x * y
           q == y * z
<1>1. p \in Int /\ q \in Int /\ p * z = x * q
    BY SMT
<1> HIDE DEF p, q
<1>2. Mul(p % N, z) = Mul(p, z) /\ Mul(q % N, x) = Mul(q, x)
    BY <1>1, MulRest
<1>3. Mul(p, z) = Mul(x, q)
    BY <1>1 DEF Mul
<1>4. Mul(x, q) = Mul(q, x)
    BY <1>1, MulSwap
<1>5. q % N \in Int
    BY <1>1, ModNat
<1>6. Mul(q % N, x) = Mul(x, q % N)
    BY <1>5, MulSwap
<1>7. Mul(x, y) = p % N /\ Mul(y, z) = q % N
    BY DEF Mul, p, q
<1> QED
    BY <1>2, <1>3, <1>4, <1>6, <1>7

(* 1 changes nothing. *)
LEMMA MulOne ==
    ASSUME NEW x \in Int
    PROVE  Mul(x, 1) = x % N /\ Mul(x, 1 % N) = x % N
<1>1. x * 1 = x
    OBVIOUS
<1> DEFINE one == 1
<1>2. one \in Int /\ x * one = x
    BY <1>1
<1> HIDE DEF one
<1>3. Mul(x, one) = x % N
    BY <1>2 DEF Mul
<1>4. Mul(one % N, x) = Mul(one, x) /\ one % N \in Int
    BY <1>2, MulRest, ModNat
<1>5. Mul(one % N, x) = Mul(x, one % N) /\ Mul(one, x) = Mul(x, one)
    BY <1>2, <1>4, MulSwap
<1> QED
    BY <1>3, <1>4, <1>5 DEF one

(* The induction over numbers, for a set. *)
LEMMA Steps ==
    ASSUME NEW S, 0 \in S, \A n \in Nat : n \in S => n + 1 \in S
    PROVE  \A n \in Nat : n \in S
<1> DEFINE T == {n \in Nat : n \notin S}
<1>1. ASSUME T # {}
      PROVE  FALSE
    <2>1. T \subseteq Nat
        OBVIOUS
    <2> HIDE DEF T
    <2>2. PICK n \in T : \A m \in T : n <= m
        BY <1>1, <2>1, NatLeast
    <2>3. n \in Nat /\ n \notin S
        BY <2>2 DEF T
    <2>4. n - 1 \in Nat /\ ~ (n <= n - 1) /\ (n - 1) + 1 = n
        BY <2>3
    <2>5. n - 1 \in S
        BY <2>2, <2>4 DEF T
    <2> QED
        BY <2>3, <2>4, <2>5
<1> QED
    BY <1>1

(* So may the other factor. *)
LEMMA MulRestBehind ==
    ASSUME NEW x \in Int, NEW y \in Int
    PROVE  Mul(x, y % N) = Mul(x, y)
<1>1. y % N \in Int
    BY ModNat
<1>2. Mul(x, y % N) = Mul(y % N, x) /\ Mul(x, y) = Mul(y, x)
    BY <1>1, MulSwap
<1> QED
    BY <1>2, MulRest

(* The factors of two products change places. *)
LEMMA MulPairs ==
    ASSUME NEW p \in Int, NEW q \in Int, NEW r \in Int, NEW s \in Int
    PROVE  Mul(Mul(p, q), Mul(r, s)) = Mul(Mul(p, r), Mul(q, s))
<1>1. Mul(r, s) \in Int /\ Mul(q, s) \in Int /\ Mul(q, r) \in Int /\ Mul(r, q) \in Int
    BY MulNat
<1>2. Mul(Mul(p, q), Mul(r, s)) = Mul(p, Mul(q, Mul(r, s)))
    BY <1>1, MulMul
<1>3. Mul(q, Mul(r, s)) = Mul(Mul(q, r), s)
    BY MulMul
<1>4. Mul(q, r) = Mul(r, q)
    BY MulSwap
<1>5. Mul(Mul(r, q), s) = Mul(r, Mul(q, s))
    BY MulMul
<1>6. Mul(p, Mul(r, Mul(q, s))) = Mul(Mul(p, r), Mul(q, s))
    BY <1>1, MulMul
<1> QED
    BY <1>2, <1>3, <1>4, <1>5, <1>6, Zenon

-----------------------------------------------------------------------------
(* Powers. *)

(* A power is below N. *)
LEMMA PowReduced ==
    ASSUME NEW b \in Nat, NEW e \in Nat
    PROVE  PowMod(b, e) \in Nat /\ PowMod(b, e) % N = PowMod(b, e)
<1> DEFINE p == PowMod(b, e)
<1>1. p \in Nat
    BY PowModNat
<1>2. p < N
    <2>1. CASE e = 0
        <3>1. p = 1 % N
            BY <2>1, PowModIs
        <3> HIDE DEF p
        <3> QED
            BY <3>1, SrpAssumption, SMT
    <2>2. CASE e # 0
        <3> DEFINE h == PowMod(b, e \div 2)
                   t == (h * h) % N
                   c == IF e % 2 = 1 THEN b % N ELSE 1
        <3>1. e \div 2 \in Nat
            BY SMT
        <3>2. h \in Nat
            BY <3>1, PowModNat
        <3>3. p = PowStep(b, e, h)
            BY <2>2, PowModIs
        <3> HIDE DEF h
        <3>4. h * h \in Int
            BY <3>2
        <3>5. t \in Int /\ c \in Int
            BY <3>4, ModNat
        <3>6. p = Mul(t, c)
            BY <3>3 DEF PowStep, Mul
        <3> HIDE DEF t, c, p
        <3> QED
            BY <3>5, <3>6, MulNat
    <2> QED
        BY <2>1, <2>2
<1> HIDE DEF p
<1>3. p % N = p
    BY <1>1, <1>2, ModSmall
<1> QED
    BY <1>1, <1>3 DEF p

(* The power 0. *)
LEMMA PowNone ==
    ASSUME NEW b \in Nat
    PROVE  PowMod(b, 0) = 1 % N
BY PowModIs

(* An odd exponent: the square of the half, and the base once more. *)
LEMMA PowOdd ==
    ASSUME NEW b \in Nat, NEW e \in Nat, e % 2 = 1
    PROVE  LET h == PowMod(b, e \div 2) IN PowMod(b, e) = Mul(Mul(h, h), b)
<1> DEFINE h == PowMod(b, e \div 2)
<1>1. e # 0 /\ e \div 2 \in Nat
    BY SMT
<1>2. h \in Nat
    BY <1>1, PowModNat
<1>3. PowMod(b, e) = PowStep(b, e, h)
    BY <1>1, PowModIs
<1> HIDE DEF h
<1>4. PowMod(b, e) = Mul(Mul(h, h), b % N)
    BY <1>3 DEF PowStep, Mul
<1>5. Mul(h, h) \in Int
    BY <1>2, MulNat
<1>6. Mul(Mul(h, h), b % N) = Mul(Mul(h, h), b)
    BY <1>5, MulRestBehind
<1> QED
    BY <1>4, <1>6 DEF h

(* An even exponent: the square of the half. *)
LEMMA PowEven ==
    ASSUME NEW b \in Nat, NEW e \in Nat, e % 2 = 0
    PROVE  LET h == PowMod(b, e \div 2) IN PowMod(b, e) = Mul(h, h)
<1> DEFINE h == PowMod(b, e \div 2)
<1>1. e \div 2 \in Nat
    BY SMT
<1>2. h \in Nat
    BY <1>1, PowModNat
<1>3. CASE e = 0
    <2>1. e \div 2 = 0
        BY <1>3, SMT
    <2>2. h = 1 % N /\ PowMod(b, e) = 1 % N
        BY <1>3, <2>1, PowNone
    <2>3. h % N = h
        BY <1>1, PowReduced
    <2> HIDE DEF h
    <2>4. Mul(h, 1 % N) = h % N
        BY <1>2, MulOne
    <2> QED
        BY <2>2, <2>3, <2>4 DEF h
<1>4. CASE e # 0
    <2>1. PowMod(b, e) = PowStep(b, e, h)
        BY <1>4, PowModIs
    <2> HIDE DEF h
    <2>2. PowMod(b, e) = Mul(Mul(h, h), 1)
        BY <2>1 DEF PowStep, Mul
    <2>3. Mul(h, h) \in Nat /\ Mul(h, h) < N
        BY <1>2, MulNat
    <2>4. Mul(h, h) % N = Mul(h, h)
        BY <2>3, ModSmall
    <2> QED
        BY <2>2, <2>3, <2>4, MulOne DEF h
<1> QED
    BY <1>3, <1>4

(* Squaring and multiplying comes to multiplying once more for each step of the exponent. *)
LEMMA PowNext ==
    ASSUME NEW b \in Nat, NEW e \in Nat
    PROVE  PowMod(b, e + 1) = Mul(PowMod(b, e), b)
<1> DEFINE T == {n \in Nat : PowMod(b, n + 1) # Mul(PowMod(b, n), b)}
<1>1. ASSUME T # {}
      PROVE  FALSE
    <2>1. T \subseteq Nat
        OBVIOUS
    <2> HIDE DEF T
    <2>2. PICK n \in T : \A m \in T : n <= m
        BY <1>1, <2>1, NatLeast
    <2>3. n \in Nat /\ PowMod(b, n + 1) # Mul(PowMod(b, n), b)
        BY <2>2 DEF T
    <2> DEFINE m == n \div 2
               n2 == n + 1
               m2 == m + 1
               h == PowMod(b, m)
    <2>4. n % 2 \in {0, 1} /\ m \in Nat /\ n2 \in Nat
        BY <2>3, SMT
    <2>5. h \in Nat
        BY <2>4, PowModNat
    <2>6. CASE n % 2 = 0
        <3>1. n2 % 2 = 1 /\ n2 \div 2 = m
            BY <2>3, <2>6, SMT
        <3>2. PowMod(b, n) = Mul(h, h)
            BY <2>3, <2>6, PowEven
        <3> HIDE DEF n2, m
        <3>3. PowMod(b, n2) = Mul(Mul(h, h), b)
            BY <2>4, <3>1, PowOdd
        <3> QED
            BY <2>3, <3>2, <3>3 DEF n2
    <2>7. CASE n % 2 = 1
        <3>1. n2 % 2 = 0 /\ n2 \div 2 = m2 /\ ~ (n <= m)
            BY <2>3, <2>7, SMT
        <3>2. PowMod(b, n) = Mul(Mul(h, h), b)
            BY <2>3, <2>7, PowOdd
        <3>3. PowMod(b, m2) = Mul(h, b)
            <4>1. m \notin T
                BY <2>2, <3>1
            <4> QED
                BY <2>4, <4>1 DEF T
        <3> HIDE DEF n2, m, m2
        <3>4. PowMod(b, n2) = Mul(Mul(h, b), Mul(h, b))
            BY <2>4, <3>1, <3>3, PowEven
        <3> HIDE DEF h
        <3>5. Mul(Mul(h, b), Mul(h, b)) = Mul(Mul(h, h), Mul(b, b))
            BY <2>5, MulPairs
        <3>6. Mul(h, h) \in Int
            BY <2>5, MulNat
        <3>7. Mul(Mul(h, h), Mul(b, b)) = Mul(Mul(Mul(h, h), b), b)
            BY <3>6, MulMul
        <3> QED
            BY <2>3, <3>2, <3>4, <3>5, <3>7 DEF n2
    <2> QED
        BY <2>4, <2>6, <2>7
<1> QED
    BY <1>1

(* The power of a sum. *)
LEMMA PowSum ==
    ASSUME NEW b \in Nat, NEW m \in Nat, NEW n \in Nat
    PROVE  PowMod(b, m + n) = Mul(PowMod(b, m), PowMod(b, n))
<1> DEFINE S == {i \in Nat : PowMod(b, m + i) = Mul(PowMod(b, m), PowMod(b, i))}
           p == PowMod(b, m)
<1>1. p \in Nat /\ p % N = p
    BY PowReduced
<1>2. 0 \in S
    <2>1. m + 0 = m
        OBVIOUS
    <2>2. PowMod(b, 0) = 1 % N
        BY PowNone
    <2> HIDE DEF p
    <2>3. Mul(p, 1 % N) = p
        BY <1>1, MulOne
    <2>4. PowMod(b, m + 0) = Mul(PowMod(b, m), PowMod(b, 0))
        BY <2>1, <2>2, <2>3, Zenon DEF p
    <2> QED
        BY <2>4
<1>3. ASSUME NEW i \in Nat, i \in S
      PROVE  i + 1 \in S
    <2> DEFINE j == i + 1
               t == m + i
               q == PowMod(b, i)
    <2>1. j \in Nat /\ t \in Nat /\ m + j = t + 1
        OBVIOUS
    <2>2. PowMod(b, t) = Mul(p, q)
        BY <1>3
    <2>3. PowMod(b, j) = Mul(q, b)
        BY PowNext
    <2>4. q \in Nat
        BY PowModNat
    <2> HIDE DEF t
    <2>5. PowMod(b, t + 1) = Mul(PowMod(b, t), b)
        BY <2>1, PowNext
    <2> HIDE DEF j, p, q
    <2>6. Mul(Mul(p, q), b) = Mul(p, Mul(q, b))
        BY <1>1, <2>4, MulMul
    <2>7. PowMod(b, m + j) = Mul(p, PowMod(b, j))
        BY <2>1, <2>2, <2>3, <2>5, <2>6, Zenon
    <2> QED
        BY <2>1, <2>7 DEF p, j
<1> HIDE DEF S
<1>4. n \in S
    BY <1>2, <1>3, Steps
<1> QED
    BY <1>4 DEF S

(* A power of a power. *)
LEMMA PowPow ==
    ASSUME NEW b \in Nat, NEW m \in Nat, NEW n \in Nat
    PROVE  PowMod(PowMod(b, m), n) = PowMod(b, m * n)
<1> DEFINE p == PowMod(b, m)
           S == {i \in Nat : PowMod(p, i) = PowMod(b, m * i)}
<1>1. p \in Nat
    BY PowModNat
<1> HIDE DEF p
<1>2. 0 \in S
    <2>1. m * 0 = 0
        OBVIOUS
    <2>2. PowMod(p, 0) = PowMod(b, 0)
        BY <1>1, PowNone
    <2> QED
        BY <2>1, <2>2
<1>3. ASSUME NEW i \in Nat, i \in S
      PROVE  i + 1 \in S
    <2> DEFINE j == i + 1
               t == m * i
    <2>1. j \in Nat /\ t \in Nat /\ m * j = t + m
        BY SMT
    <2>2. PowMod(p, i) = PowMod(b, t)
        BY <1>3
    <2>3. PowMod(p, j) = Mul(PowMod(p, i), p)
        BY <1>1, PowNext
    <2> HIDE DEF j, t
    <2>4. PowMod(b, t + m) = Mul(PowMod(b, t), PowMod(b, m))
        BY <2>1, PowSum
    <2>5. PowMod(p, j) = PowMod(b, m * j)
        BY <2>1, <2>2, <2>3, <2>4, Zenon DEF p
    <2> QED
        BY <2>1, <2>5 DEF j
<1> HIDE DEF S
<1>4. n \in S
    BY <1>2, <1>3, Steps
<1> QED
    BY <1>4 DEF S, p

(* ToNumber reads what ToBytes writes. *)
LEMMA NumberReturns ==
    ASSUME NEW n \in 0..MaxNumber
    PROVE  ToNumber(ToBytes(n)) = n
<1> DEFINE size == IF n = 0 THEN 0 ELSE IF n < 256 THEN 1 ELSE IF n < 65536 THEN 2 ELSE 3
           b == EncodeUint(n, size)
<1>1. n \in Nat /\ n <= 16777215 /\ size \in 0..3 /\ n \in Int
    BY Limits, SMT
<1>2. ToNumber(ToBytes(n)) = Value(b)
    <2>1. ToBytes(n) = b
        BY SMT DEF ToBytes
    <2> HIDE DEF b
    <2> QED
        BY <2>1, Zenon DEF ToNumber
<1>3. b \in Seq(Byte) /\ Len(b) = size
    BY <1>1, EncodeUintBytes
<1>4. CASE size \in {2, 3}
    <2>1. FitsIn(n, size)
        BY <1>1, <1>4 DEF FitsIn
    <2> HIDE DEF size
    <2> QED
        BY <1>2, <2>1, ValueOfUint
<1>5. CASE size \in {0, 1}
    <2> DEFINE digit(i) == IF i <= Len(b) THEN b[Len(b) - i + 1] * Weight[i] ELSE 0
    <2>1. \A i \in 1..(Len(b) - 3) : b[i] = 0
        BY <1>3, <1>5
    <2>2. digit(2) = 0 /\ digit(3) = 0
        BY <1>3, <1>5
    <2>3. digit(1) = n
        <3>1. CASE size = 0
            <4>1. n = 0
                BY <1>1, <3>1
            <4>2. Len(b) = 0
                BY <1>3, <3>1
            <4> HIDE DEF b
            <4> QED
                BY <4>1, <4>2
        <3>2. CASE size = 1
            <4>1. n < 256
                BY <1>1, <3>2
            <4>2. Len(b) = 1
                <5> HIDE DEF b, size
                <5> QED
                    BY <1>3, <3>2
            <4> DEFINE one == 1
            <4>3. EncodeUint(n, one)[one] = (n \div 1) % 256
                BY Limits, SMT DEF EncodeUint
            <4>4. (n \div 1) % 256 = n
                BY <1>1, <4>1, SMT
            <4>5. b[1] = n
                BY <3>2, <4>3, <4>4
            <4>6. Weight[1] = 1 /\ n * 1 = n
                BY <1>1, Limits, SMT
            <4> HIDE DEF b
            <4> QED
                BY <4>2, <4>5, <4>6
        <3> QED
            BY <1>5, <3>1, <3>2
    <2> HIDE DEF digit, b
    <2>4. digit(1) + digit(2) + digit(3) = n
        BY <1>1, <2>2, <2>3
    <2> QED
        BY <1>2, <2>1, <2>4 DEF Value, digit
<1> QED
    BY <1>1, <1>4, <1>5

ClientSecret(B, m, v, a, u, x) == PowMod((B - ((m * v) % N)) % N, (a + ((u * x) % N)) % N)
ServerSecret(A, v, u, b) == PowMod(((A % N) * PowMod(v, u)) % N, b)
SecretsMeet(A, B, m, v, a, b, u, x) == ClientSecret(B, m, v, a, u, x) = ServerSecret(A, v, u, b)

(***************************************************************************)
(* The arithmetic of the login: with x the client's private number, v its  *)
(* power, m the multiplier, both ends come to the same secret.             *)
(***************************************************************************)
LEMMA SecretsAgree ==
    ASSUME NEW x \in Nat, NEW u \in Nat, NEW a \in Nat, NEW b \in Nat, NEW m \in Nat, a + u * x < N,
           NEW v, v = PowMod(g, x), NEW A, A = PowMod(g, a), NEW B, B = (((m * v) % N) + PowMod(g, b)) % N
    PROVE  SecretsMeet(A, B, m, v, a, b, u, x)
<1> DEFINE t == (m * v) % N
           p == PowMod(g, b)
           y == u * x
           e == a + y
<1>1. N \in Nat \ {0} /\ g \in Nat
    BY SrpAssumption
<1>2. v \in Nat /\ A \in Nat /\ A % N = A
    BY <1>1, PowReduced
<1>3. p \in Nat /\ p % N = p
    BY <1>1, PowReduced
<1>4. t \in Nat
    <2>1. m * v \in Int
        BY <1>2, ProductNat
    <2> QED
        BY <2>1, ModNat
<1>5. y \in Nat
    BY ProductNat
<1>6. y % N = y /\ e % N = e /\ e \in Nat
    <2> HIDE DEF y
    <2>1. e \in Nat /\ y < N /\ e < N
        BY <1>1, <1>5 DEF y
    <2> HIDE DEF e
    <2> QED
        BY <1>5, <2>1, ModSmall
<1> HIDE DEF t, p, y
<1>7. (B - t) % N = p
    <2> DEFINE s == t + p
               q == s \div N
               r == 0 - q
    <2>1. s \in Int /\ B = s % N
        BY <1>3, <1>4 DEF t, p
    <2> HIDE DEF s
    <2>2. q \in Int /\ s = N * q + B /\ B \in Int
        BY <1>1, <2>1, SMT
    <2> HIDE DEF q
    <2>3. r \in Int /\ N * r = - (N * q) /\ N * q \in Int
        BY <1>1, <2>2, SMT
    <2> DEFINE c == N * r
               d == N * q
    <2>4. c = -d /\ d \in Int /\ s = d + B
        BY <2>2, <2>3
    <2>5. s = t + p
        BY DEF s
    <2>6. B \in Int /\ t \in Int /\ p \in Int /\ N \in Nat \ {0} /\ r \in Int
        BY <1>1, <1>3, <1>4, <2>2, <2>3
    <2> HIDE DEF c, d, s, r
    <2>7. B - t = c + p
        BY ONLY <2>4, <2>5, <2>6
    <2>8. (N * r + p) % N = p % N
        BY <2>6, RemainderKept, Zenon
    <2> QED
        BY <1>3, <2>7, <2>8, Zenon DEF c
<1>8. PowMod((B - t) % N, (a + (y % N)) % N) = PowMod(p, e)
    BY <1>6, <1>7, Zenon
<1>9. PowMod(p, e) = PowMod(g, b * e)
    BY <1>1, <1>6, PowPow DEF p
<1>10. PowMod(v, u) = PowMod(g, x * u)
    BY <1>1, PowPow
<1>11. x * u = y
    BY SMT DEF y
<1>12. ((A % N) * PowMod(v, u)) % N = PowMod(g, e)
    <2>1. PowMod(g, e) = Mul(PowMod(g, a), PowMod(g, y))
        BY <1>1, <1>5, PowSum
    <2> QED
        BY <1>2, <1>10, <1>11, <2>1, Zenon DEF Mul
<1>13. PowMod(PowMod(g, e), b) = PowMod(g, e * b)
    BY <1>1, <1>6, PowPow
<1>14. e * b = b * e
    BY <1>6, SMT
<1> QED
    BY <1>8, <1>9, <1>12, <1>13, <1>14, Zenon DEF t, y, SecretsMeet, ClientSecret, ServerSecret

(* Without zeros to put anywhere both ends hash the same bytes. *)
LEMMA LongAgrees ==
    ASSUME NEW srpA \in Seq(Byte), NEW srpB \in Seq(Byte), LenN <= Len(srpA)
    PROVE  ClientU(srpA, srpB) = ServerU(srpA, srpB)
<1> DEFINE n == LenN - Len(srpA)
           z == Zeros(n)
<1>1. n \in Int /\ n <= 0
    BY ToBytesType, SrpAssumption, LenProperties DEF LenN
<1> HIDE DEF n
<1>2. z \in Seq(Byte) /\ Len(z) = 0
    <2>1. Zeros(n) \in Seq(Byte) /\ Len(Zeros(n)) = IF n >= 0 THEN n ELSE 0
        BY <1>1, ZerosBytes
    <2> HIDE DEF z
    <2> QED
        BY <1>1, <2>1 DEF z
<1> HIDE DEF z
<1>3. z = <<>>
    BY <1>2, EmptySeq
<1>4. srpA \o z = srpA /\ z \o srpA = srpA
    BY <1>3, ConcatEmptySeq
<1> QED
    BY <1>4, Zenon DEF ClientU, ServerU, Pad, n, z

(***************************************************************************)
(* Who types the password of an account gets in: both ends come to the     *)
(* same key and the same proofs, and each accepts the other's              *)
(* (osslmathimpl.cpp:100,239).  Two hypotheses are about the code: A is    *)
(* not shorter than N, since the ends put the zeros of a short one in      *)
(* different places, and a + u x is less than N, since the client reduces  *)
(* the exponent modulo N.  The third is about the model, whose numbers     *)
(* have three bytes.                                                       *)
(***************************************************************************)
THEOREM LoginAgrees ==
    ASSUME HashGivesBytes, N <= MaxNumber,
           NEW name \in Seq(Byte), NEW password \in Seq(Byte), NEW salt \in Seq(Byte),
           NEW a \in Seq(Byte), NEW b \in Seq(Byte),
           NEW v, v = CalculateVerificator(name, password, salt).out,
           NEW srpA, srpA = CalculateA(a).out, LenN <= Len(srpA),
           NEW s, s = ServerChallenge(name, salt, v, srpA, b), s.ok,
           NEW c, c = ClientChallenge(salt, a, srpA, s.srpB, name, password), c.ok,
           ToNumber(a) + ClientU(srpA, s.srpB) * PrivateX(name, password, salt) < N
    PROVE  c = s /\ Authenticates(s, c.m1) /\ ConfirmsKey(c, s.m2)
<1> DEFINE na == ToNumber(a)
           nb == ToNumber(b)
           x == PrivateX(name, password, salt)
           nv == PowMod(g, x)
           nA == PowMod(g, na)
           nB == (((k * nv) % N) + PowMod(g, nb)) % N
           srpB == ToBytes(nB)
           u == ClientU(srpA, srpB)
<1>1. <<>> \notin {salt, a, name, password} /\ CheckNg
    BY DEF ClientChallenge, Failed
<1>2. v = ToBytes(nv) /\ srpA = ToBytes(nA)
    <2>1. CalculateVerificator(name, password, salt) = [ok |-> TRUE, out |-> ToBytes(nv)]
        BY <1>1, Zenon DEF CalculateVerificator
    <2>2. CalculateA(a) = [ok |-> TRUE, out |-> ToBytes(nA)]
        BY <1>1, Zenon DEF CalculateA
    <2> HIDE DEF nv, nA
    <2> QED
        BY <2>1, <2>2
<1>3. na \in Nat /\ nb \in Nat /\ x \in Nat /\ k \in Nat /\ g \in Nat /\ N \in Nat \ {0}
    BY PrivateXNat, ToNumberNat, MultiplierNat, SrpAssumption
<1> HIDE DEF na, nb, x
<1>4. nv \in Nat /\ nv % N = nv /\ nA \in Nat /\ nA % N = nA /\ PowMod(g, nb) \in Nat
    BY <1>3, PowReduced
<1> HIDE DEF nv, nA
<1>5. nB \in Nat /\ nB % N = nB
    <2> DEFINE t == (k * nv) % N
               p == PowMod(g, nb)
    <2>1. t \in Nat
        <3>1. k * nv \in Int
            BY <1>3, <1>4, ProductNat
        <3> QED
            BY <3>1, ModNat
    <2>2. p \in Nat
        BY <1>4
    <2> HIDE DEF t, p
    <2>3. (t + p) % N \in Nat /\ (t + p) % N < N
        BY <1>3, <2>1, <2>2, SMT
    <2>4. ((t + p) % N) % N = (t + p) % N
        BY <2>3, ModSmall
    <2> QED
        BY <2>3, <2>4 DEF t, p
<1> HIDE DEF nB
<1>6. ToNumber(v) = nv /\ ToNumber(srpA) = nA /\ ToNumber(srpB) = nB
    <2>1. ASSUME NEW n \in Nat, n % N = n
          PROVE  ToNumber(ToBytes(n)) = n
        <3>1. n < N
            BY <1>3, <2>1, SMT
        <3>2. n \in 0..MaxNumber
            BY <1>3, <3>1, Limits
        <3> QED
            BY <3>2, NumberReturns
    <2> QED
        BY <1>2, <1>4, <1>5, <2>1
<1>7. srpA \in Seq(Byte) /\ srpB \in Seq(Byte)
    BY <1>2, <1>4, <1>5, ToBytesType
<1>8. s = Proofs(name, salt, srpA, srpB, PowMod(((nA % N) * PowMod(nv, ServerU(srpA, srpB))) % N, nb))
    BY <1>6, Zenon DEF ServerChallenge, Failed, nB, srpB, nb
<1> HIDE DEF srpB
<1>9. s.srpB = srpB
    BY <1>8 DEF Proofs, Failed
<1>10. c = Proofs(name, salt, srpA, srpB, PowMod((nB - ((k * nv) % N)) % N, (na + ((u * x) % N)) % N))
    BY <1>6, <1>9, Zenon DEF ClientChallenge, Failed, na, x, nv
<1>11. u \in Nat /\ u = ServerU(srpA, srpB)
    BY <1>7, UNat, LongAgrees
<1>12. na + u * x < N
    BY <1>9 DEF na, x
<1> HIDE DEF u
<1>13. PowMod((nB - ((k * nv) % N)) % N, (na + ((u * x) % N)) % N) = PowMod(((nA % N) * PowMod(nv, u)) % N, nb)
    <2>1. nv = PowMod(g, x) /\ nA = PowMod(g, na) /\ nB = (((k * nv) % N) + PowMod(g, nb)) % N
        BY DEF nv, nA, nB
    <2> DEFINE m == k
    <2>2. m \in Nat /\ nB = (((m * nv) % N) + PowMod(g, nb)) % N
        BY <1>3, <2>1
    <2> HIDE DEF m
    <2>3. SecretsMeet(nA, nB, m, nv, na, nb, u, x)
        BY <1>3, <1>11, <1>12, <2>1, <2>2, SecretsAgree, Zenon
    <2> QED
        BY <2>3, Zenon DEF m, SecretsMeet, ClientSecret, ServerSecret
<1>14. c = s
    BY <1>8, <1>10, <1>11, <1>13, Zenon
<1>15. s \in ProofsSet
    <2> DEFINE secret == PowMod(((nA % N) * PowMod(nv, u)) % N, nb)
    <2>1. secret \in Nat
        <3>1. ((nA % N) * PowMod(nv, u)) % N \in Nat
            <4>1. nA % N \in Nat /\ PowMod(nv, u) \in Nat
                BY <1>4, <1>11, PowModNat
            <4>2. (nA % N) * PowMod(nv, u) \in Int
                BY <4>1, ProductNat
            <4> QED
                BY <4>2, ModNat
        <3> QED
            BY <1>3, <3>1, PowModNat
    <2>2. s = Proofs(name, salt, srpA, srpB, secret)
        BY <1>8, <1>11, Zenon
    <2> HIDE DEF secret
    <2> QED
        BY <1>7, <2>1, <2>2, ProofsType
<1>16. s.m1 # <<>> /\ s.m2 # <<>>
    BY <1>15, SrpAssumption, EmptySeq DEF ProofsSet, Sized
<1> QED
    BY <1>14, <1>16 DEF Authenticates, ConfirmsKey

(* b is x behind a head of n bytes. *)
HeadedBy(b, h, n, x) ==
    /\ b \in Seq(Byte) /\ Len(x) \in Nat /\ Len(b) = n + Len(x)
    /\ Take(b, n) = h /\ Drop(b, n) = x
    /\ \A i \in 1..n : b[i] = h[i]

(* The head is read, and what is behind it. *)
LEMMA Headed ==
    ASSUME NEW h \in Seq(Byte), NEW x \in Seq(Byte), NEW n \in Nat, n = Len(h)
    PROVE  HeadedBy(h \o x, h, n, x)
<1> DEFINE b == h \o x
<1>1. b \in Seq(Byte) /\ Len(b) = n + Len(x) /\ Len(x) \in Nat
    BY ConcatSize
<1>2. Take(b, n) = h /\ Drop(b, n) = x
    BY TakeDropConcat
<1>3. \A i \in 1..n : b[i] = h[i]
    BY BytesConcat
<1> QED
    BY <1>1, <1>2, <1>3, Zenon DEF HeadedBy

MessageTypes == {mA, mB, mC, mD, mP, mQ, mR}

(* A message begins with its type. *)
Begun(b, type, x) == b \in Seq(Byte) /\ StartsWith(b, type) /\ Len(x) \in Nat /\ Len(b) = 2 + Len(x) /\ Drop(b, 2) = x

(* The type of a message is read, and what is behind it. *)
LEMMA BegunWith ==
    ASSUME NEW type \in MessageTypes, NEW x \in Seq(Byte)
    PROVE  Begun(Start(type) \o x, type, x)
<1> DEFINE h == Start(type)
           n == 2
           b == h \o x
<1>1. h \in Seq(Byte) /\ Len(h) = n /\ n \in Nat
    BY StartBytes DEF MessageTypes
<1> HIDE DEF h, n
<1>2. HeadedBy(b, h, n, x)
    BY <1>1, Headed
<1> HIDE DEF b
<1>3. b \in Seq(Byte) /\ Len(x) \in Nat /\ Len(b) = n + Len(x) /\ Take(b, n) = h /\ Drop(b, n) = x
    BY <1>2, Zenon DEF HeadedBy
<1>4. n = 2 /\ h = Start(type)
    BY DEF n, h
<1>5. Len(b) >= 2
    BY ONLY <1>3, <1>4
<1>6. StartsWith(b, type)
    BY <1>3, <1>4, <1>5, Zenon DEF StartsWith
<1>7. Begun(b, type, x)
    BY <1>3, <1>4, <1>6, Zenon DEF Begun
<1> QED
    BY <1>7 DEF b, h

(* Behind its type comes a byte that says which kind of message it is. *)
Tagged(b, type, e, x) ==
    /\ b \in Seq(Byte) /\ StartsWith(b, type) /\ Len(x) \in Nat /\ Len(b) = 3 + Len(x)
    /\ b[3] = e /\ Drop(b, 3) = x

(* The kind of the message is read, and what is behind it. *)
LEMMA TaggedWith ==
    ASSUME NEW type \in MessageTypes, NEW e \in Byte, NEW x \in Seq(Byte)
    PROVE  Tagged(Start(type) \o <<e>> \o x, type, e, x)
<1> DEFINE s == Start(type)
           y == <<e>>
           h == s \o y
           n == 3
           b == h \o x
           z == y \o x
<1>1. s \in Seq(Byte) /\ Len(s) = 2 /\ y \in Seq(Byte) /\ Len(y) = 1 /\ y[1] = e
    BY StartBytes, OneByte DEF MessageTypes
<1> HIDE DEF s, y
<1>2. h \in Seq(Byte) /\ Len(h) = n /\ n \in Nat /\ h[n] = e
    <2>1. h \in Seq(Byte) /\ Len(h) = Len(s) + Len(y)
          /\ \A i \in 1..(Len(s) + Len(y)) : h[i] = IF i <= Len(s) THEN s[i] ELSE y[i - Len(s)]
        BY <1>1, BytesConcat
    <2> HIDE DEF h
    <2> QED
        BY <1>1, <2>1
<1>3. b = s \o z /\ z \in Seq(Byte) /\ Len(z) = Len(y) + Len(x)
    BY <1>1, BytesAssociative, ConcatSize, ZenonT(30)
<1> HIDE DEF h, n, z
<1>4. HeadedBy(b, h, n, x)
    BY <1>2, Headed
<1>5. Begun(s \o z, type, z)
    BY <1>3, BegunWith DEF s
<1> HIDE DEF b
<1>6. b \in Seq(Byte) /\ StartsWith(b, type)
    BY <1>3, <1>5, Zenon DEF Begun
<1>7. Len(x) \in Nat /\ Len(b) = n + Len(x) /\ Drop(b, n) = x /\ \A i \in 1..n : b[i] = h[i]
    BY <1>4, Zenon DEF HeadedBy
<1>8. b[n] = e
    <2>1. n \in 1..n
        BY DEF n
    <2> QED
        BY <1>2, <1>7, <2>1, Zenon
<1>9. Tagged(b, type, e, x)
    BY <1>6, <1>7, <1>8, Zenon DEF Tagged, n
<1> QED
    BY <1>9 DEF b, h, s, y

-----------------------------------------------------------------------------
(* What is written is what is read. *)

(* Message B. *)
LEMMA BReturns ==
    ASSUME NEW m1 \in Seq(Byte), ConstructB(m1).ok
    PROVE  ParseB(ConstructB(m1).out) = [ok |-> TRUE, m1 |-> m1]
<1> DEFINE b == Start(mB) \o m1
<1>1. Len(m1) \in MinM1..MaxM1 /\ ConstructB(m1).out = b
    BY DEF ConstructB, Message, Failed
<1>2. Begun(b, mB, m1)
    BY BegunWith, Zenon DEF MessageTypes
<1> HIDE DEF b
<1>3. StartsWith(b, mB) /\ Len(m1) \in Nat /\ Len(b) = 2 + Len(m1) /\ Drop(b, 2) = m1
    BY <1>2, Zenon DEF Begun
<1>4. Len(b) - 2 = Len(m1)
    BY <1>3
<1> QED
    BY <1>1, <1>3, <1>4, Zenon DEF ParseB

(* Message C. *)
LEMMA CReturns ==
    ASSUME NEW request \in Seq(Byte)
    PROVE  ParseC(ConstructC(request)) = [ok |-> TRUE, request |-> request]
<1>1. Begun(ConstructC(request), mC, request)
    BY BegunWith, Zenon DEF MessageTypes, ConstructC
<1> QED
    BY <1>1, Zenon DEF Begun, ParseC

(* Message R, with its error code. *)
LEMMA RReturns ==
    ASSUME NEW response \in Seq(Byte), NEW error \in Byte
    PROVE  ParseR(ConstructR(response, error)) = [ok |-> TRUE, error |-> error, response |-> response]
<1> DEFINE b == ConstructR(response, error)
<1>1. Tagged(b, mR, error, response)
    BY TaggedWith, Zenon DEF MessageTypes, ConstructR
<1> HIDE DEF b
<1>2. StartsWith(b, mR) /\ b[3] = error /\ Drop(b, 3) = response /\ Len(response) \in Nat /\ Len(b) = 3 + Len(response)
    BY <1>1, Zenon DEF Tagged
<1>3. ~ (Len(b) < 3)
    BY <1>2
<1> QED
    BY <1>2, <1>3, Zenon DEF ParseR, b

(* Message Q. *)
LEMMA QReturns ==
    ASSUME NEW m2 \in Seq(Byte), ConstructQSuccess(m2).ok
    PROVE  ParseQ(ConstructQSuccess(m2).out) = [ok |-> TRUE, error |-> 0, m2 |-> m2]
<1> DEFINE b == Start(mQ) \o <<0>> \o m2
<1>1. Len(m2) \in MinM2..MaxM2 /\ ConstructQSuccess(m2).out = b
    BY DEF ConstructQSuccess, Message, Failed
<1>2. 0 \in Byte
    BY SmallBytes
<1>3. Tagged(b, mQ, 0, m2)
    BY <1>2, TaggedWith, Zenon DEF MessageTypes
<1> HIDE DEF b
<1>4. StartsWith(b, mQ) /\ b[3] = 0 /\ Drop(b, 3) = m2 /\ Len(m2) \in Nat /\ Len(b) = 3 + Len(m2)
    BY <1>3, Zenon DEF Tagged
<1>5. ~ (Len(b) < 3) /\ ~ (Len(b) < 3 + MinM2)
    BY <1>1, <1>4, Sizes
<1> QED
    BY <1>1, <1>4, <1>5, Zenon DEF ParseQ

(* A refusal says why. *)
LEMMA FailReturns ==
    ASSUME NEW error \in Byte \ {0}
    PROVE  /\ ParseP(ConstructFail(mP, error).out) = [ok |-> TRUE, error |-> error, salt |-> <<>>, srpB |-> <<>>]
           /\ ParseQ(ConstructFail(mQ, error).out) = [ok |-> TRUE, error |-> error, m2 |-> <<>>]
<1>1. ASSUME NEW type \in {mP, mQ}
      PROVE  /\ StartsWith(ConstructFail(type, error).out, type) /\ ~ (Len(ConstructFail(type, error).out) < 3)
             /\ ConstructFail(type, error).out[3] = error
    <2> DEFINE b == Start(type) \o <<error>>
               none == <<>>
    <2>1. b \in Seq(Byte)
        <3>1. Start(type) \in Seq(Byte) /\ <<error>> \in Seq(Byte)
            BY StartBytes, OneByte
        <3> QED
            BY <3>1, ConcatSize
    <2>2. b \o none = b
        BY <2>1, ConcatEmptySeq
    <2>3. none \in Seq(Byte) /\ Len(none) = 0
        BY NoBytes
    <2> HIDE DEF none
    <2>4. Tagged(b \o none, type, error, none)
        BY <2>3, TaggedWith, Zenon DEF MessageTypes
    <2> HIDE DEF b
    <2>5. StartsWith(b, type) /\ b[3] = error /\ Len(b) = 3 + Len(none)
        BY <2>2, <2>4, Zenon DEF Tagged
    <2>6. ~ (Len(b) < 3)
        BY <2>3, <2>5
    <2>7. ConstructFail(type, error).out = b
        BY DEF ConstructFail, Message, b
    <2> QED
        BY <2>5, <2>6, <2>7, Zenon
<1>2. error # 0
    OBVIOUS
<1>3. ParseP(ConstructFail(mP, error).out) = [ok |-> TRUE, error |-> error, salt |-> <<>>, srpB |-> <<>>]
    BY <1>1, <1>2, Zenon DEF ParseP
<1>4. ParseQ(ConstructFail(mQ, error).out) = [ok |-> TRUE, error |-> error, m2 |-> <<>>]
    BY <1>1, <1>2, Zenon DEF ParseQ
<1> QED
    BY <1>3, <1>4

(* The packet of the stop-and-wait exchange; the number of one has eight bytes. *)
LEMMA PacketReturns ==
    ASSUME NEW seq \in 0..MaxNumber, NEW payload \in Seq(Byte)
    PROVE  ParsePacket(Packet(seq, payload)) = [ok |-> TRUE, seq |-> seq, payload |-> payload]
<1> DEFINE s == <<SOF>>
           w == 8
           e == EncodeUint(seq, w)
           h == s \o e
           n == 9
           b == h \o payload
           one == 1
<1>1. s \in Seq(Byte) /\ Len(s) = one /\ s[1] = SOF
    BY SmallBytes, OneByte DEF SOF
<1>2. e \in Seq(Byte) /\ Len(e) = w /\ FitsIn(seq, w)
    <2>1. seq \in Int /\ w \in Nat /\ w >= 3
        BY Limits
    <2> HIDE DEF w
    <2> QED
        BY <2>1, EncodeUintBytes DEF FitsIn
<1>3. Packet(seq, payload) = b
    BY DEF Packet
<1> HIDE DEF s
<1>4. e \o payload \in Seq(Byte) /\ b = s \o (e \o payload)
    BY <1>1, <1>2, BytesAssociative, ConcatSize
<1>5. h \in Seq(Byte) /\ Len(h) = n /\ n \in Nat /\ h[1] = SOF
    <2>1. h \in Seq(Byte) /\ Len(h) = Len(s) + Len(e)
          /\ \A i \in 1..(Len(s) + Len(e)) : h[i] = IF i <= Len(s) THEN s[i] ELSE e[i - Len(s)]
        BY <1>1, <1>2, BytesConcat
    <2> HIDE DEF h, e
    <2>2. Len(s) = 1 /\ Len(e) = 8
        BY <1>1, <1>2
    <2> QED
        BY <1>1, <2>1, <2>2
<1>6. DecodeUint(e \o payload, 0, w) = seq
    <2> HIDE DEF w
    <2> QED
        BY <1>2, DecodeEncode
<1>7. DecodeUint(b, 1, 8) = seq
    <2> DEFINE c == e \o payload
               zero == 0
    <2>1. c \in Seq(Byte) /\ zero \in Nat /\ w \in Nat
        BY <1>4
    <2> HIDE DEF c, zero, w
    <2>2. DecodeUint(s \o c, Len(s) + zero, w) = DecodeUint(c, zero, w)
        BY <1>1, <2>1, DecodeConcat
    <2>3. Len(s) + zero = 1
        BY <1>1 DEF zero
    <2>4. b = s \o c
        BY <1>4 DEF c
    <2> HIDE DEF b
    <2> QED
        BY <1>6, <2>2, <2>3, <2>4, Zenon DEF zero, w, c
<1> HIDE DEF h, n, e
<1>8. HeadedBy(b, h, n, payload)
    BY <1>5, Headed
<1> HIDE DEF b
<1>9. Len(payload) \in Nat /\ Len(b) = n + Len(payload) /\ Drop(b, n) = payload /\ \A i \in 1..n : b[i] = h[i]
    BY <1>8, Zenon DEF HeadedBy
<1>10. b[1] = SOF /\ ~ (Len(b) < 9) /\ n = 9
    <2>1. n = 9 /\ 1 \in 1..n
        BY DEF n
    <2> QED
        BY <1>5, <1>9, <2>1
<1> QED
    BY <1>3, <1>7, <1>9, <1>10, Zenon DEF ParsePacket

(* Message P: a byte for the length of the salt, then the salt and B. *)
LEMMA PReturns ==
    ASSUME NEW salt \in Seq(Byte), NEW srpB \in Seq(Byte), ConstructPSuccess(salt, srpB).ok
    PROVE  ParseP(ConstructPSuccess(salt, srpB).out) = [ok |-> TRUE, error |-> 0, salt |-> salt, srpB |-> srpB]
<1> DEFINE n == Len(salt)
           s == Start(mP)
           y == <<0, n>>
           h == s \o y
           t == h \o salt
           b == t \o srpB
           m == 4 + n
           four == 4
<1>1. n \in MinSalt..MaxSalt /\ Len(srpB) \in MinB..MaxB /\ ConstructPSuccess(salt, srpB).out = b
    BY Zenon DEF ConstructPSuccess, Message, Failed
<1>2. n \in Nat /\ n \in Byte
    <2> HIDE DEF n
    <2>1. n \in Nat /\ n <= 255
        BY <1>1, Sizes
    <2> QED
        BY <2>1, Limits
<1>3. 0 \in Byte
    BY SmallBytes
<1>4. s \in Seq(Byte) /\ Len(s) = 2 /\ y \in Seq(Byte) /\ Len(y) = 2 /\ y[1] = 0 /\ y[2] = n
    <2>1. s \in Seq(Byte) /\ Len(s) = 2
        BY StartBytes
    <2> HIDE DEF n
    <2>2. y \in Seq(Byte) /\ Len(y) = 2
        BY <1>2, <1>3, TwoBytes
    <2> QED
        BY <2>1, <2>2
<1> HIDE DEF s, y
<1>5. /\ h \in Seq(Byte) /\ Len(h) = four /\ h[3] = 0 /\ h[4] = n
    <2>1. h \in Seq(Byte) /\ Len(h) = Len(s) + Len(y)
          /\ \A i \in 1..(Len(s) + Len(y)) : h[i] = IF i <= Len(s) THEN s[i] ELSE y[i - Len(s)]
        BY <1>4, BytesConcat
    <2> HIDE DEF h, n
    <2> QED
        BY <1>4, <2>1
<1>6. h \o salt \o srpB = s \o (y \o (salt \o srpB))
    <2>1. salt \o srpB \in Seq(Byte)
        BY ConcatSize
    <2> DEFINE z == salt \o srpB
    <2>2. (h \o salt) \o srpB = h \o z
        BY <1>5, BytesAssociative
    <2>3. z \in Seq(Byte)
        BY <2>1
    <2> HIDE DEF z
    <2>4. (s \o y) \o z = s \o (y \o z)
        BY <1>4, <2>3, BytesAssociative, ZenonT(30)
    <2> QED
        BY <2>2, <2>4, Zenon DEF z, h
<1> DEFINE x == y \o (salt \o srpB)
<1>7. x \in Seq(Byte)
    <2>1. salt \o srpB \in Seq(Byte)
        BY ConcatSize
    <2> QED
        BY <1>4, <2>1, ConcatSize
<1> HIDE DEF h, x
<1>8. StartsWith(b, mP)
    <2>1. Begun(Start(mP) \o x, mP, x)
        BY <1>7, BegunWith, Zenon DEF MessageTypes
    <2>2. b = Start(mP) \o x
        BY <1>6 DEF x, s
    <2> HIDE DEF b
    <2> QED
        BY <2>1, <2>2, Zenon DEF Begun
<1>9. HeadedBy(t, h, four, salt)
    BY <1>5, Headed
<1>10. t \in Seq(Byte) /\ Len(t) = m /\ m \in Nat /\ t[3] = 0 /\ t[4] = n
    <2> HIDE DEF t, n
    <2>1. t \in Seq(Byte) /\ Len(t) = four + Len(salt) /\ \A i \in 1..four : t[i] = h[i]
        BY <1>9, Zenon DEF HeadedBy
    <2> QED
        BY <1>2, <1>5, <2>1 DEF n
<1> HIDE DEF t, m
<1>11. HeadedBy(b, t, m, srpB)
    BY <1>10, Headed
<1>12. SubSeq(b, 5, m) = salt
    <2> DEFINE one == 1
               from == four + one
               to == four + n
    <2>1. one \in Nat \ {0} /\ n \in Int /\ n <= Len(salt) /\ four = Len(h)
        BY <1>2, <1>5
    <2>2. from \in Nat \ {0} /\ to \in Int /\ to <= Len(t) /\ from = 5 /\ to = m
        BY <1>2, <1>10 DEF m
    <2> HIDE DEF from, to
    <2>3. SubSeq(b, from, to) = SubSeq(t, from, to)
        BY <1>10, <2>2, SubOfConcat
    <2> HIDE DEF one, n, four
    <2>4. SubSeq(h \o salt, Len(h) + one, Len(h) + n) = SubSeq(salt, one, n)
        BY <1>5, <2>1, SubOfConcat, SMTT(30)
    <2>5. SubSeq(t, from, to) = SubSeq(salt, one, n)
        BY <2>1, <2>4, Zenon DEF t, from, to
    <2>6. SubSeq(salt, 1, Len(salt)) = salt
        BY SubSeqFull
    <2> QED
        BY <2>2, <2>3, <2>5, <2>6, Zenon DEF one, n
<1> HIDE DEF b, n
<1>13. Len(srpB) \in Nat /\ Len(b) = m + Len(srpB) /\ Drop(b, m) = srpB /\ \A i \in 1..m : b[i] = t[i]
    BY <1>11, Zenon DEF HeadedBy
<1>14. b[3] = 0 /\ b[4] = n /\ m = 4 + n
    <2>1. 3 \in 1..m /\ 4 \in 1..m
        BY <1>2 DEF m
    <2> QED
        BY <1>10, <1>13, <2>1 DEF m
<1>15. ~ (Len(b) < 3) /\ ~ (Len(b) < 4 + MinSalt + MinB)
    BY <1>1, <1>2, <1>13, <1>14, Sizes
<1> QED
    BY <1>1, <1>8, <1>12, <1>13, <1>14, <1>15, Zenon DEF ParseP

(* The name ends at the first 0; a name with a 0 in it would be cut there. *)
LEMMA AReturns ==
    ASSUME NEW name \in Seq(Byte), NEW srpA \in Seq(Byte), 0 \notin Range(name), ConstructA(name, srpA).ok
    PROVE  ParseA(ConstructA(name, srpA).out) = [ok |-> TRUE, user |-> name, srpA |-> srpA]
<1> DEFINE n == Len(name)
           s == Start(mA)
           e == <<0>>
           h == s \o name
           t == h \o e
           b == t \o srpA
           m == 2 + n
           z == 3 + n
           two == 2
           one == 1
           x == name \o (e \o srpA)
<1>1. n \in MinUser..MaxUser /\ Len(srpA) \in MinA..MaxA /\ ConstructA(name, srpA).out = b
    BY Zenon DEF ConstructA, Message, Failed
<1>2. n \in Nat /\ \A i \in 1..n : name[i] # 0
    <2>1. n \in Nat /\ DOMAIN name = 1..n
        BY LenProperties
    <2> QED
        BY <2>1 DEF Range
<1>3. s \in Seq(Byte) /\ Len(s) = two /\ e \in Seq(Byte) /\ Len(e) = one /\ e[1] = 0
    BY StartBytes, OneByte, SmallBytes
<1> HIDE DEF s, e
<1>4. b = s \o x /\ x \in Seq(Byte)
    <2> DEFINE y == e \o srpA
    <2>1. y \in Seq(Byte)
        BY <1>3, ConcatSize
    <2>2. h \in Seq(Byte)
        BY <1>3, ConcatSize
    <2>3. (s \o name) \o y = s \o (name \o y)
        <3> HIDE DEF y
        <3> QED
            BY <1>3, <2>1, BytesAssociative, SMTT(30)
    <2>4. (h \o e) \o srpA = h \o y
        <3> HIDE DEF h
        <3> QED
            BY <1>3, <2>2, BytesAssociative
    <2>5. name \o y \in Seq(Byte)
        <3> HIDE DEF y
        <3> QED
            BY <2>1, ConcatSize
    <2> QED
        BY <2>3, <2>4, <2>5, Zenon
<1> HIDE DEF x
<1>5. StartsWith(b, mA)
    <2>1. Begun(Start(mA) \o x, mA, x)
        BY <1>4, BegunWith, Zenon DEF MessageTypes
    <2> HIDE DEF b
    <2> QED
        BY <1>4, <2>1, Zenon DEF Begun, s
<1>6. h \in Seq(Byte) /\ Len(h) = m /\ m \in Nat /\ \A i \in 1..n : h[2 + i] = name[i]
    <2>1. h \in Seq(Byte) /\ Len(h) = Len(s) + Len(name)
          /\ \A i \in 1..(Len(s) + Len(name)) : h[i] = IF i <= Len(s) THEN s[i] ELSE name[i - Len(s)]
        BY <1>3, BytesConcat
    <2> HIDE DEF h
    <2>2. Len(s) = 2 /\ Len(h) = 2 + n
        BY <1>3, <2>1
    <2>3. ASSUME NEW i \in 1..n
          PROVE  h[2 + i] = name[i]
        <3> DEFINE j == 2 + i
        <3>1. j \in 1..(Len(s) + Len(name)) /\ ~ (j <= Len(s)) /\ j - Len(s) = i
            BY <1>2, <2>2
        <3> HIDE DEF j
        <3>2. h[j] = name[i]
            BY <2>1, <3>1
        <3> QED
            BY <3>2 DEF j
    <2> QED
        BY <1>2, <2>1, <2>2, <2>3 DEF m
<1> HIDE DEF h, m
<1>7. /\ t \in Seq(Byte) /\ Len(t) = z /\ z \in Nat /\ t[z] = 0
      /\ \A i \in 1..m : t[i] = h[i]
    <2>0. h \in Seq(Byte) /\ e \in Seq(Byte)
        BY <1>3, <1>6
    <2>1. t \in Seq(Byte) /\ Len(t) = Len(h) + Len(e)
          /\ \A i \in 1..(Len(h) + Len(e)) : t[i] = IF i <= Len(h) THEN h[i] ELSE e[i - Len(h)]
        BY <2>0, BytesConcat
    <2> HIDE DEF t, n
    <2>2. Len(e) = 1 /\ z = m + 1
        BY <1>2, <1>3 DEF m
    <2> HIDE DEF z
    <2>3. z \in 1..(Len(h) + Len(e)) /\ ~ (z <= Len(h)) /\ z - Len(h) = 1
        BY <1>6, <2>2
    <2>4. t[z] = 0
        BY <1>3, <2>1, <2>3
    <2>5. \A i \in 1..m : t[i] = h[i]
        BY <1>6, <2>1, <2>2
    <2> QED
        BY <1>6, <2>1, <2>2, <2>4, <2>5
<1> HIDE DEF t
<1>8. HeadedBy(b, t, z, srpA)
    <2> HIDE DEF z
    <2> QED
        BY <1>7, Headed
<1>9. b \in Seq(Byte) /\ Len(srpA) \in Nat /\ Len(b) = z + Len(srpA) /\ Drop(b, z) = srpA /\ \A i \in 1..z : b[i] = t[i]
    <2> HIDE DEF z, b
    <2> QED
        BY <1>8, Zenon DEF HeadedBy
<1>10. b[z] = 0 /\ \A i \in 1..n : b[2 + i] = name[i]
    <2> HIDE DEF b
    <2>1. z \in 1..z
        BY <1>2
    <2>2. ASSUME NEW i \in 1..n
          PROVE  b[2 + i] = name[i]
        <3> DEFINE j == 2 + i
        <3>1. j \in 1..z /\ j \in 1..m
            BY <1>2 DEF m
        <3>2. h[j] = name[i]
            BY <1>6
        <3> HIDE DEF j, z
        <3>3. b[j] = name[i]
            BY <1>7, <1>9, <3>1, <3>2
        <3> QED
            BY <3>3 DEF j
    <2> HIDE DEF z
    <2> QED
        BY <1>7, <1>9, <2>1, <2>2
<1> DEFINE Zs == {i \in 3..Len(b) : b[i] = 0}
<1>11. z \in Zs /\ \A i \in Zs : z <= i
    <2> HIDE DEF b
    <2>1. z \in 3..Len(b)
        BY <1>2, <1>9
    <2>2. ASSUME NEW i \in 3..Len(b), i < z
          PROVE  b[i] # 0
        <3> DEFINE j == i - 2
        <3>1. j \in 1..n /\ i = 2 + j
            BY <1>2, <2>2
        <3> HIDE DEF j
        <3>2. b[i] = name[j]
            BY <1>10, <3>1
        <3> QED
            BY <1>2, <3>1, <3>2
    <2>3. \A i \in Zs : i \in Int /\ (i < z \/ z <= i)
        BY <1>2
    <2> QED
        BY <1>10, <2>1, <2>2, <2>3
<1> HIDE DEF b, Zs
<1>12. Min(Zs) = z
    <2>1. Min(Zs) \in Zs /\ \A y \in Zs : Min(Zs) <= y
        BY <1>11, MinIn
    <2>2. Min(Zs) <= z /\ z <= Min(Zs) /\ Min(Zs) \in Int /\ z \in Int
        <3>1. \A i \in Zs : i \in Int
            BY DEF Zs
        <3> QED
            BY <1>11, <2>1, <3>1
    <2> HIDE DEF z
    <2> QED
        BY <2>2
<1>13. SubSeq(b, 3, z - 1) = name
    <2> DEFINE from == two + one
               to == two + n
    <2>1. one \in Nat \ {0} /\ n \in Int /\ n <= Len(name) /\ two = Len(s) /\ from = 3 /\ to = z - 1
        BY <1>2, <1>3
    <2>2. from \in Nat \ {0} /\ to \in Int /\ to <= Len(h) /\ to <= Len(t)
        <3>1. Len(h) = 2 + n /\ Len(t) = 3 + n
            BY <1>6, <1>7 DEF m
        <3> QED
            BY <1>2, <3>1
    <2> HIDE DEF from, to
    <2>3. SubSeq(t \o srpA, from, to) = SubSeq(t, from, to)
        BY <1>7, <2>2, SubOfConcat
    <2>4. SubSeq(h \o e, from, to) = SubSeq(h, from, to)
        BY <1>3, <1>6, <2>2, SubOfConcat
    <2> HIDE DEF one, two, n
    <2>5. SubSeq(s \o name, Len(s) + one, Len(s) + n) = SubSeq(name, one, n)
        BY <1>3, <2>1, SubOfConcat
    <2>6. SubSeq(h, from, to) = SubSeq(name, one, n)
        BY <2>1, <2>5, Zenon DEF h, from, to
    <2>7. SubSeq(name, 1, Len(name)) = name
        BY SubSeqFull
    <2>8. SubSeq(b, from, to) = name
        BY <2>3, <2>4, <2>6, <2>7, Zenon DEF b, t, one, n
    <2> QED
        BY <2>1, <2>8, Zenon
<1>14. 0 \in Range(Drop(b, 2))
    <2> DEFINE d == Drop(b, two)
    <2>1. two \in 0..Len(b)
        BY <1>2, <1>9
    <2> HIDE DEF two
    <2>2. d \in Seq(Byte) /\ Len(d) = Len(b) - two
          /\ \A i \in 1..(Len(b) - two) : d[i] = b[two + i]
        BY <1>9, <2>1, BytesTakeDrop
    <2> HIDE DEF d
    <2> DEFINE i == n + 1
    <2>3. i \in 1..(Len(b) - two) /\ two + i = z
        BY <1>2, <1>9 DEF two
    <2> HIDE DEF i, z
    <2>4. d[i] = 0
        BY <1>10, <2>2, <2>3
    <2>5. i \in DOMAIN d
        BY <2>2, <2>3, LenProperties
    <2>6. 0 \in Range(d)
        BY <2>4, <2>5 DEF Range
    <2> QED
        BY <2>6 DEF d, two
<1>15. ~ (Len(b) < 2 + MinUser + MinA)
    BY <1>1, <1>2, <1>9, Sizes
<1> HIDE DEF z
<1> QED
    BY <1>1, <1>5, <1>9, <1>12, <1>13, <1>14, <1>15, Zenon DEF ParseA, Zs

(***************************************************************************)
(* What one end of the shell constructs the other end parses to the same   *)
(* fields, for every message and every length the limits allow             *)
(* (messageconstructor.cpp); so does the packet of the exchange.  A user   *)
(* name with a 0 in it would be cut there.                                 *)
(***************************************************************************)
THEOREM ShellMessagesReturn ==
    /\ \A name, srpA \in Seq(Byte) : ConstructA(name, srpA).ok /\ 0 \notin Range(name) =>
          ParseA(ConstructA(name, srpA).out) = [ok |-> TRUE, user |-> name, srpA |-> srpA]
    /\ \A salt, srpB \in Seq(Byte) : ConstructPSuccess(salt, srpB).ok =>
          ParseP(ConstructPSuccess(salt, srpB).out) = [ok |-> TRUE, error |-> 0, salt |-> salt, srpB |-> srpB]
    /\ \A m1 \in Seq(Byte) : ConstructB(m1).ok => ParseB(ConstructB(m1).out) = [ok |-> TRUE, m1 |-> m1]
    /\ \A m2 \in Seq(Byte) : ConstructQSuccess(m2).ok =>
          ParseQ(ConstructQSuccess(m2).out) = [ok |-> TRUE, error |-> 0, m2 |-> m2]
    /\ \A error \in Byte \ {0} :
          /\ ParseP(ConstructFail(mP, error).out) = [ok |-> TRUE, error |-> error, salt |-> <<>>, srpB |-> <<>>]
          /\ ParseQ(ConstructFail(mQ, error).out) = [ok |-> TRUE, error |-> error, m2 |-> <<>>]
    /\ \A request \in Seq(Byte) : ParseC(ConstructC(request)) = [ok |-> TRUE, request |-> request]
    /\ \A response \in Seq(Byte), error \in Byte :
          ParseR(ConstructR(response, error)) = [ok |-> TRUE, error |-> error, response |-> response]
    /\ \A seq \in 0..MaxNumber, payload \in Seq(Byte) :
          ParsePacket(Packet(seq, payload)) = [ok |-> TRUE, seq |-> seq, payload |-> payload]
<1>1. \A name, srpA \in Seq(Byte) : ConstructA(name, srpA).ok /\ 0 \notin Range(name) =>
          ParseA(ConstructA(name, srpA).out) = [ok |-> TRUE, user |-> name, srpA |-> srpA]
    BY AReturns, Zenon
<1>2. \A salt, srpB \in Seq(Byte) : ConstructPSuccess(salt, srpB).ok =>
          ParseP(ConstructPSuccess(salt, srpB).out) = [ok |-> TRUE, error |-> 0, salt |-> salt, srpB |-> srpB]
    BY PReturns, Zenon
<1>3. \A m1 \in Seq(Byte) : ConstructB(m1).ok => ParseB(ConstructB(m1).out) = [ok |-> TRUE, m1 |-> m1]
    BY BReturns, Zenon
<1>4. \A m2 \in Seq(Byte) : ConstructQSuccess(m2).ok =>
          ParseQ(ConstructQSuccess(m2).out) = [ok |-> TRUE, error |-> 0, m2 |-> m2]
    BY QReturns, Zenon
<1>5. \A error \in Byte \ {0} :
          /\ ParseP(ConstructFail(mP, error).out) = [ok |-> TRUE, error |-> error, salt |-> <<>>, srpB |-> <<>>]
          /\ ParseQ(ConstructFail(mQ, error).out) = [ok |-> TRUE, error |-> error, m2 |-> <<>>]
    BY FailReturns, Zenon
<1>6. \A request \in Seq(Byte) : ParseC(ConstructC(request)) = [ok |-> TRUE, request |-> request]
    BY CReturns, Zenon
<1>7. \A response \in Seq(Byte), error \in Byte :
          ParseR(ConstructR(response, error)) = [ok |-> TRUE, error |-> error, response |-> response]
    BY RReturns, Zenon
<1>8. \A seq \in 0..MaxNumber, payload \in Seq(Byte) :
          ParsePacket(Packet(seq, payload)) = [ok |-> TRUE, seq |-> seq, payload |-> payload]
    BY PacketReturns, Zenon
<1> QED
    BY <1>1, <1>2, <1>3, <1>4, <1>5, <1>6, <1>7, <1>8, Zenon
================================================================================
