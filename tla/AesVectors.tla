----------------------------- MODULE AesVectors -----------------------------
(***************************************************************************)
(* What Aes and AesModes are checked against: the vectors of               *)
(* src/crypto/aes/rfc3686.cpp, the computation of the tables, and what     *)
(* aes.h says of calls in pieces.  TLC evaluates the assumptions of this   *)
(* module on every run that extends it.                                    *)
(***************************************************************************)
EXTENDS Aes, AesModes

rfc3686_inc[ctr \in Seq(Byte)] ==
    LET carries == {i \in 13..16 : \A j \in (i + 1)..16 : ctr[j] = 255}
        first == CHOOSE i \in carries : \A j \in carries : i <= j
    IN  [i \in 1..16 |-> IF i < first THEN ctr[i] ELSE (ctr[i] + 1) % 256]

rfc3686_init(nonce, iv) == rfc3686_inc[nonce \o iv \o Zeros(4)]

rfc3686_crypt(data, ctr, key) ==
    aes_ctr_crypt([block \in Seq(Byte) |-> aes_encrypt(block, key)], rfc3686_inc, data, [iv |-> ctr, pos |-> key.pos]).out

(* "Single block msg", and the bytes from 0 on *)
Message16 == <<83, 105, 110, 103, 108, 101, 32, 98, 108, 111, 99, 107, 32, 109, 115, 103>>
Counting(n) == [i \in 1..n |-> i - 1]

Vector1 ==
    [key |-> <<174, 104, 82, 248, 18, 16, 103, 204, 75, 247, 165, 118, 85, 119, 243, 158>>,
     iv |-> <<0, 0, 0, 0, 0, 0, 0, 0>>, nonce |-> <<0, 0, 0, 48>>, p_txt |-> Message16,
     c_txt |-> <<228, 9, 93, 79, 183, 167, 179, 121, 45, 97, 117, 163, 38, 19, 17, 184>>]

Vector2 ==
    [key |-> <<126, 36, 6, 120, 23, 250, 224, 215, 67, 214, 206, 31, 50, 83, 145, 99>>,
     iv |-> <<192, 84, 59, 89, 218, 72, 217, 11>>, nonce |-> <<0, 108, 182, 219>>, p_txt |-> Counting(32),
     c_txt |-> <<81, 4, 161, 6, 22, 138, 114, 217, 121, 13, 65, 238, 142, 218, 211, 136, 235, 46,
                 30, 252, 70, 218, 87, 200, 252, 230, 48, 223, 145, 65, 190, 40>>]

Vector3 ==
    [key |-> <<118, 145, 190, 3, 94, 80, 32, 168, 172, 110, 97, 133, 41, 249, 160, 220>>,
     iv |-> <<39, 119, 127, 63, 74, 23, 134, 240>>, nonce |-> <<0, 224, 1, 123>>, p_txt |-> Counting(36),
     c_txt |-> <<193, 207, 72, 168, 159, 47, 253, 217, 207, 70, 82, 233, 239, 219, 114, 215, 69, 64,
                 164, 43, 222, 109, 120, 54, 213, 154, 92, 234, 174, 243, 16, 83, 37, 178, 7, 47>>]

Vector4 ==
    [key |-> <<22, 175, 91, 20, 95, 201, 245, 121, 193, 117, 249, 62, 59, 251, 14, 237, 134, 61, 6,
               204, 253, 183, 133, 21>>,
     iv |-> <<54, 115, 60, 20, 125, 109, 147, 203>>, nonce |-> <<0, 0, 0, 72>>, p_txt |-> Message16,
     c_txt |-> <<75, 85, 56, 79, 226, 89, 201, 200, 78, 121, 53, 160, 3, 203, 233, 40>>]

Vector5 ==
    [key |-> <<124, 92, 178, 64, 27, 61, 195, 60, 25, 231, 52, 8, 25, 224, 246, 156, 103, 140, 61,
               184, 230, 246, 169, 26>>,
     iv |-> <<2, 12, 110, 173, 194, 203, 80, 13>>, nonce |-> <<0, 150, 176, 59>>, p_txt |-> Counting(32),
     c_txt |-> <<69, 50, 67, 252, 96, 155, 35, 50, 126, 223, 170, 250, 113, 49, 205, 159, 132, 144,
                 112, 28, 90, 212, 167, 156, 252, 31, 224, 255, 66, 244, 251, 0>>]

Vector6 ==
    [key |-> <<2, 191, 57, 30, 232, 236, 177, 89, 185, 89, 97, 123, 9, 101, 39, 155, 245, 155, 96,
               167, 134, 211, 224, 254>>,
     iv |-> <<92, 189, 96, 39, 141, 204, 9, 18>>, nonce |-> <<0, 7, 189, 253>>, p_txt |-> Counting(36),
     c_txt |-> <<150, 137, 63, 197, 94, 92, 114, 47, 84, 11, 125, 209, 221, 247, 231, 88, 210, 136,
                 188, 149, 198, 145, 101, 136, 69, 54, 200, 17, 102, 47, 33, 136, 171, 238, 9, 53>>]

Vector7 ==
    [key |-> <<119, 107, 239, 242, 133, 29, 176, 111, 76, 138, 5, 66, 200, 105, 111, 108, 106, 129,
               175, 30, 236, 150, 180, 211, 127, 193, 214, 137, 230, 193, 193, 4>>,
     iv |-> <<219, 86, 114, 201, 122, 168, 240, 178>>, nonce |-> <<0, 0, 0, 96>>, p_txt |-> Message16,
     c_txt |-> <<20, 90, 208, 29, 191, 130, 78, 199, 86, 8, 99, 220, 113, 227, 224, 192>>]

Vector8 ==
    [key |-> <<246, 214, 109, 107, 213, 45, 89, 187, 7, 150, 54, 88, 121, 239, 248, 134, 198, 109,
               213, 26, 91, 106, 153, 116, 75, 80, 89, 12, 135, 162, 56, 132>>,
     iv |-> <<193, 88, 94, 241, 90, 67, 216, 117>>, nonce |-> <<0, 250, 172, 36>>, p_txt |-> Counting(32),
     c_txt |-> <<240, 94, 35, 27, 56, 148, 97, 44, 73, 238, 0, 11, 128, 78, 178, 169, 184, 48, 107,
                 80, 143, 131, 157, 106, 85, 48, 131, 29, 147, 68, 175, 28>>]

Vector9 ==
    [key |-> <<255, 122, 97, 124, 230, 145, 72, 228, 241, 114, 110, 47, 67, 88, 29, 226, 170, 98,
               217, 248, 5, 83, 46, 223, 241, 238, 214, 135, 251, 84, 21, 61>>,
     iv |-> <<81, 165, 29, 112, 161, 193, 17, 72>>, nonce |-> <<0, 28, 197, 183>>, p_txt |-> Counting(36),
     c_txt |-> <<235, 108, 82, 130, 29, 11, 187, 247, 206, 117, 148, 70, 42, 202, 79, 170, 180, 7,
                 223, 134, 101, 105, 253, 7, 244, 140, 192, 181, 131, 214, 7, 31, 30, 192, 230, 184>>]

Tests == {Vector1, Vector2, Vector3, Vector4, Vector5, Vector6, Vector7, Vector8, Vector9}

(* The test of rfc3686.cpp, for keys of each length *)
rfc3686_test(t) ==
    \A key \in {aes_encrypt_key(t.key, Len(t.key))} :
        rfc3686_crypt(t.p_txt, rfc3686_init(t.nonce, t.iv), key) = t.c_txt
ASSUME VectorsPass == \A t \in Tests : rfc3686_test(t)

(* The fixed tables hold what aes_init would compute. *)
ASSUME TablesAsComputed ==
    \A x \in Byte : SbData[x + 1] = InitSBox(x) /\ IsbData[x + 1] = InitISBox(x)

(* The three ways to build decryption keys give the encryption keys through the inverse column *)
(* mix, the first and the last four words apart; decryption then undoes encryption. *)
ASSUME DecryptionUndoes ==
    \A t \in {Vector1, Vector4, Vector7} :
        \A e \in {aes_encrypt_key(t.key, Len(t.key))}, d \in {aes_decrypt_key(t.key, Len(t.key))} :
            LET n == Len(e.ks)
                back == {aes_decrypt(c_txt, d) : c_txt \in {aes_encrypt(t.p_txt, e)}}
            IN
            /\ d.rounds = e.rounds /\ Len(d.ks) = n
            /\ \A i \in 1..n : d.ks[i] = IF i \in 5..(n - 4) THEN InvMcol(e.ks[i]) ELSE e.ks[i]
            /\ back = {t.p_txt}

-----------------------------------------------------------------------------
(* A cipher of three bytes is enough for the modes. *)
Mix[b \in Seq(Byte)] == <<(b[2] + 1) % 256, (b[3] + b[2]) % 256, (b[1] + 3) % 256>>
Unmix[b \in Seq(Byte)] == <<(b[3] + 253) % 256, (b[1] + 255) % 256, (b[2] + 257 - b[1]) % 256>>
IncLast[b \in Seq(Byte)] == [b EXCEPT ![3] = (@ + 1) % 256]
StartContext == [iv |-> <<9, 250, 254>>, pos |-> 0]
Plain(n) == [i \in 1..n |-> (i * 83 + 5) % 256]

Cfb(data, cx) == aes_cfb_encrypt(Mix, data, cx)
UnCfb(data, cx) == aes_cfb_decrypt(Mix, data, cx)
Ofb(data, cx) == aes_ofb_crypt(Mix, data, cx)
Ctr(data, cx) == aes_ctr_crypt(Mix, IncLast, data, cx)

(* A message handled in three calls is the message handled in one (aes.h: the stream modes *)
(* "can handle multiple incremental calls of any length"). *)
InPieces(Mode(_, _), data, i, j) ==
    LET first == Mode(Take(data, i), StartContext)
        second == Mode(SubSeq(data, i + 1, j), [iv |-> first.iv, pos |-> first.pos])
        third == Mode(Drop(data, j), [iv |-> second.iv, pos |-> second.pos])
    IN  first.out \o second.out \o third.out = Mode(data, StartContext).out

ASSUME PiecesAreTheWhole ==
    \A n \in 0..8 : \A j \in 0..n : \A i \in 0..j :
        LET data == Plain(n) IN
        InPieces(Cfb, data, i, j) /\ InPieces(UnCfb, data, i, j) /\ InPieces(Ofb, data, i, j) /\ InPieces(Ctr, data, i, j)

(* Each mode undoes itself; the block modes refuse a message that is not whole blocks. *)
ASSUME ModesUndo ==
    \A n \in 0..9 :
        LET data == Plain(n)
            ecb == EcbCrypt(Mix, data, 3)
            cbc == aes_cbc_encrypt(Mix, data, StartContext.iv)
        IN  /\ UnCfb(Cfb(data, StartContext).out, StartContext).out = data
            /\ Ofb(Ofb(data, StartContext).out, StartContext).out = data
            /\ Ctr(Ctr(data, StartContext).out, StartContext).out = data
            /\ ecb.ok = (n % 3 = 0) /\ cbc.ok = (n % 3 = 0)
            /\ n % 3 = 0 => /\ EcbCrypt(Unmix, ecb.out, 3).out = data
                            /\ aes_cbc_decrypt(Unmix, cbc.out, StartContext.iv).out = data
=============================================================================
