--------------------------------- MODULE Aes ---------------------------------
(***************************************************************************)
(* The AES block cipher of src/crypto/aes as this project builds it: four  *)
(* fixed tables, unrolled rounds, in C.  The context holds the round keys, *)
(* the number of rounds (times 16 in inf.b[0]) and the position of the     *)
(* stream modes (inf.b[2]); aes_modes.c is module AesModes.                *)
(* A word is the sequence of its four bytes, the lowest first.             *)
(***************************************************************************)
EXTENDS Bytes, Bitwise

XorWord(a, b) == <<a[1] ^^ b[1], a[2] ^^ b[2], a[3] ^^ b[3], a[4] ^^ b[4]>>
XorAll(words) == FoldLeft(XorWord, <<0, 0, 0, 0>>, words)
Four(f) == <<f[1], f[2], f[3], f[4]>>
XorFour(f) == XorWord(XorWord(f[1], f[2]), XorWord(f[3], f[4]))

Rotated(w, n) == [i \in 1..4 |-> w[((i - 1 - n) % 4) + 1]]
WordSeq == Seq(Seq(Byte))
WordIn(b, c) == SubSeq(b, 4 * c + 1, 4 * c + 4)

-----------------------------------------------------------------------------
(* The field of 256 elements *)

F2(x) == (x * 2) ^^ ((x \div 128) * 283)
F4(x) == F2(F2(x))
F8(x) == F2(F4(x))
F3(x) == F2(x) ^^ x
F9(x) == F8(x) ^^ x
Fb(x) == F8(x) ^^ F3(x)
Fd(x) == F9(x) ^^ F4(x)
Fe(x) == F8(x) ^^ (F4(x) ^^ F2(x))

(* Half of the highest bit that is set *)
HiBit(x) == CHOOSE b \in {0, 1, 2, 4, 8, 16, 32, 64, 128} : (b = 0 /\ x < 2) \/ (b > 0 /\ x \div b \in {2, 3})

(* Euclid's algorithm on polynomials: v is the multiple of x that p is left of. *)
RECURSIVE Divide(_, _)
Divide(a, b) ==
    IF a.n < b.n THEN a
    ELSE LET shift == a.n \div b.n
             p == (a.p ^^ (b.p * shift)) % 256
         IN  Divide([p |-> p, n |-> HiBit(p), v |-> (a.v ^^ (b.v * shift)) % 256], b)

RECURSIVE Euclid(_, _)
Euclid(a, b) == IF b.n = 0 THEN b.v ELSE Euclid(b, Divide(a, b))

GfInv(x) == IF x < 2 THEN x
            ELSE Euclid([p |-> 27, n |-> 128, v |-> 0], [p |-> x, n |-> HiBit(x), v |-> 1])

Shifts(x, amounts) == LET w == FoldLeft(LAMBDA acc, n : acc ^^ (x * 2^n), 0, amounts)
                      IN  (w ^^ (w \div 256)) % 256
FwdAffine(x) == 99 ^^ Shifts(x, <<0, 1, 2, 3, 4>>)
InvAffine(x) == 5 ^^ Shifts(x, <<1, 3, 6>>)

-----------------------------------------------------------------------------
(* The fixed tables, and the four words each lookup table holds for a byte *)

SbData ==
    <<99, 124, 119, 123, 242, 107, 111, 197, 48, 1, 103, 43, 254, 215, 171, 118, 202, 130, 201, 125,
      250, 89, 71, 240, 173, 212, 162, 175, 156, 164, 114, 192, 183, 253, 147, 38, 54, 63, 247, 204,
      52, 165, 229, 241, 113, 216, 49, 21, 4, 199, 35, 195, 24, 150, 5, 154, 7, 18, 128, 226, 235,
      39, 178, 117, 9, 131, 44, 26, 27, 110, 90, 160, 82, 59, 214, 179, 41, 227, 47, 132, 83, 209,
      0, 237, 32, 252, 177, 91, 106, 203, 190, 57, 74, 76, 88, 207, 208, 239, 170, 251, 67, 77, 51,
      133, 69, 249, 2, 127, 80, 60, 159, 168, 81, 163, 64, 143, 146, 157, 56, 245, 188, 182, 218,
      33, 16, 255, 243, 210, 205, 12, 19, 236, 95, 151, 68, 23, 196, 167, 126, 61, 100, 93, 25, 115,
      96, 129, 79, 220, 34, 42, 144, 136, 70, 238, 184, 20, 222, 94, 11, 219, 224, 50, 58, 10, 73,
      6, 36, 92, 194, 211, 172, 98, 145, 149, 228, 121, 231, 200, 55, 109, 141, 213, 78, 169, 108,
      86, 244, 234, 101, 122, 174, 8, 186, 120, 37, 46, 28, 166, 180, 198, 232, 221, 116, 31, 75,
      189, 139, 138, 112, 62, 181, 102, 72, 3, 246, 14, 97, 53, 87, 185, 134, 193, 29, 158, 225,
      248, 152, 17, 105, 217, 142, 148, 155, 30, 135, 233, 206, 85, 40, 223, 140, 161, 137, 13, 191,
      230, 66, 104, 65, 153, 45, 15, 176, 84, 187, 22>>

IsbData ==
    <<82, 9, 106, 213, 48, 54, 165, 56, 191, 64, 163, 158, 129, 243, 215, 251, 124, 227, 57, 130,
      155, 47, 255, 135, 52, 142, 67, 68, 196, 222, 233, 203, 84, 123, 148, 50, 166, 194, 35, 61,
      238, 76, 149, 11, 66, 250, 195, 78, 8, 46, 161, 102, 40, 217, 36, 178, 118, 91, 162, 73, 109,
      139, 209, 37, 114, 248, 246, 100, 134, 104, 152, 22, 212, 164, 92, 204, 93, 101, 182, 146,
      108, 112, 72, 80, 253, 237, 185, 218, 94, 21, 70, 87, 167, 141, 157, 132, 144, 216, 171, 0,
      140, 188, 211, 10, 247, 228, 88, 5, 184, 179, 69, 6, 208, 44, 30, 143, 202, 63, 15, 2, 193,
      175, 189, 3, 1, 19, 138, 107, 58, 145, 17, 65, 79, 103, 220, 234, 151, 242, 207, 206, 240,
      180, 230, 115, 150, 172, 116, 34, 231, 173, 53, 133, 226, 249, 55, 232, 28, 117, 223, 110, 71,
      241, 26, 113, 29, 41, 197, 137, 111, 183, 98, 14, 170, 24, 190, 27, 252, 86, 62, 75, 198, 210,
      121, 32, 154, 219, 192, 254, 120, 205, 90, 244, 31, 221, 168, 51, 136, 7, 199, 49, 177, 18,
      16, 89, 39, 128, 236, 95, 96, 81, 127, 169, 25, 181, 74, 13, 45, 229, 122, 159, 147, 201, 156,
      239, 160, 224, 59, 77, 174, 42, 245, 176, 200, 235, 187, 60, 131, 83, 153, 97, 23, 43, 4, 126,
      186, 119, 214, 38, 225, 105, 20, 99, 85, 33, 12, 125>>

RcData == <<1, 2, 4, 8, 16, 32, 64, 128, 27, 54>>

(* What aes_init would compute, were the tables not fixed *)
InitSBox(x) == FwdAffine(GfInv(x))
InitISBox(x) == GfInv(InvAffine(x))

W0[p \in Byte] == <<p, 0, 0, 0>>
U0[p \in Byte] == <<F2(p), p, p, F3(p)>>
V0[p \in Byte] == <<Fe(p), F9(p), Fd(p), Fb(p)>>

D4(data, f) == [r \in 0..3 |-> [x \in Byte |-> Rotated(f[data[x + 1]], r)]]
FwdTable == D4(SbData, U0)
FwdLast == D4(SbData, W0)
InvTable == D4(IsbData, V0)
InvLast == D4(IsbData, W0)
MixTable == D4([i \in 1..256 |-> i - 1], V0)

InvMcol(w) == XorFour([i \in 1..4 |-> MixTable[i - 1][w[i]]])
LsBox(w, c) == XorFour([i \in 1..4 |-> FwdLast[i - 1][w[((7 + i - c) % 4) + 1]]])

-----------------------------------------------------------------------------
(* Keys.  The round keys ks are a sequence of words, word n at ks[n + 1]. *)

KeyLens == {16, 24, 32}
Rounds(keyLen) == keyLen \div 4 + 6
Words(key) == [i \in 1..(Len(key) \div 4) |-> WordIn(key, i - 1)]
From(first, last) == [i \in 1..(last - first + 1) |-> first + i - 1]

Fresh(nk, n) == n % nk = 0 \/ (nk = 8 /\ n % 8 = 4)

(* What word n - nk is combined with to give word n, after word last. *)
Into(nk, last, n) ==
    IF n % nk = 0 THEN XorWord(LsBox(last, 3), <<RcData[n \div nk], 0, 0, 0>>)
    ELSE IF Fresh(nk, n) THEN LsBox(last, 0)
    ELSE last

(* A round of the code appends the next nk words, the last round as many as are missing. *)
Expand(word, start, total) ==
    LET nk == Len(start)
        block[ks \in WordSeq, i \in Nat] ==
            FoldLeft(LAMBDA t, n : Append(t, word[t, n]), ks, From(nk * i, Min({nk * i + nk, total}) - 1))
    IN  FoldLeft(LAMBDA ks, i : block[ks, i], start, From(1, (total - 1) \div nk))

EncryptKeys(key, keyLen) ==
    LET nk == keyLen \div 4
        word[ks \in WordSeq, n \in Nat] == XorWord(ks[n - nk + 1], Into(nk, Last(ks), n))
    IN  Expand(word, Words(key), 4 * Rounds(keyLen) + 4)

(* The keys for decryption go through the inverse column mix, the first and the last four *)
(* words apart.  Once a block is mixed the next ones are computed from it, not mixed anew. *)
DecryptKeysLong(key, keyLen) ==
    LET nk == keyLen \div 4
        plain == EncryptKeys(key, keyLen)
        total == Len(plain)
        start == [i \in 1..nk |-> IF i <= 4 THEN plain[i] ELSE InvMcol(plain[i])]
        mixed(ks, n) == XorWord(ks[n - nk + 1],
                                IF Fresh(nk, n) THEN InvMcol(Into(nk, plain[n], n)) ELSE Last(ks))
        word[ks \in WordSeq, n \in Nat] ==
            CASE n \div nk = 1 -> InvMcol(plain[n + 1])
              [] n \div nk = total \div nk -> plain[n + 1]
              [] OTHER -> mixed(ks, n)
    IN  Expand(word, start, total)

(* With 128 bits the four words ss are kept as differences, and a block changes one of them. *)
Differences(ss) == <<XorAll(ss), XorWord(ss[2], ss[4]), XorWord(ss[3], ss[4]), ss[4]>>

DecryptKeys128(key) ==
    LET changed(ss, i) == XorWord(LsBox(ss[((i + 3) % 4) + 1], 3), <<RcData[i + 1], 0, 0, 0>>)
        block(first, old) == Four([j \in 1..4 |-> XorWord(first, XorAll(SubSeq(old, 1, j)))])
        next(acc, i) ==
            LET t == changed(acc.ss, i)
                ss == [acc.ss EXCEPT ![(i % 4) + 1] = XorWord(@, t)]
                old == SubSeq(acc.ks, 4 * i + 1, 4 * i + 4)
                sum == XorWord(ss[1], ss[2])
                words == CASE i = 0 -> Four([j \in 1..4 |-> InvMcol(block(t, old)[j])])
                           [] i = 9 -> <<XorAll(<<sum, ss[3], ss[4]>>), XorWord(ss[2], ss[4]), sum, ss[2]>>
                           [] OTHER -> block(InvMcol(t), old)
            IN  [ss |-> ss, ks |-> acc.ks \o words]
    IN  FoldLeft(next, [ss |-> Differences(Words(key)), ks |-> Words(key)], From(0, 9)).ks

(* Setting a key clears the position of the stream modes. *)
Context(ks, keyLen) == [ok |-> TRUE, ks |-> ks, rounds |-> Rounds(keyLen), pos |-> 0]

aes_encrypt_key(key, keyLen) ==
    IF keyLen \in KeyLens THEN Context(EncryptKeys(key, keyLen), keyLen) ELSE Failed
aes_decrypt_key(key, keyLen) ==
    IF keyLen \notin KeyLens THEN Failed
    ELSE Context(IF keyLen = 16 THEN DecryptKeys128(key) ELSE DecryptKeysLong(key, keyLen), keyLen)

-----------------------------------------------------------------------------
(* Blocks.  A state is four words: column c of the code is word c + 1. *)

FwdVar[r, c \in 0..3] == (c + r) % 4
InvVar[r, c \in 0..3] == (c - r) % 4

StateIn(b, ks, n) == Four([c \in 1..4 |-> XorWord(WordIn(b, c - 1), ks[4 * n + c])])
StateOut(s) == s[1] \o s[2] \o s[3] \o s[4]

(* Round n: each byte of a column selects a word of its row's table. *)
Round(table, var, s, ks, n) ==
    LET from(i, c) == table[i - 1][s[var[i - 1, c - 1] + 1][i]]
    IN  Four([c \in 1..4 |-> XorWord(XorFour([i \in 1..4 |-> from(i, c)]), ks[4 * n + c])])

aes_encrypt(in, cx) ==
    LET round[s \in WordSeq, n \in Nat] == Round(FwdTable, FwdVar, s, cx.ks, n)
        s == FoldLeft(LAMBDA t, n : round[t, n], StateIn(in, cx.ks, 0), From(1, cx.rounds - 1))
    IN  StateOut(Round(FwdLast, FwdVar, s, cx.ks, cx.rounds))

aes_decrypt(in, cx) ==
    LET round[s \in WordSeq, n \in Nat] == Round(InvTable, InvVar, s, cx.ks, cx.rounds - n)
        s == FoldLeft(LAMBDA t, n : round[t, n], StateIn(in, cx.ks, cx.rounds), From(1, cx.rounds - 1))
    IN  StateOut(Round(InvLast, InvVar, s, cx.ks, 0))
=============================================================================
