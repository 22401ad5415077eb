------------------------------ MODULE AesModes ------------------------------
(***************************************************************************)
(* The modes of operation of src/crypto/aes/aes_modes.c over any block     *)
(* cipher: a function, aes_encrypt or aes_decrypt with the context's key.  *)
(* The size of a block is the length of iv.  The context of a              *)
(* stream mode is [iv, pos]: the caller's iv array and inf.b[2], how much  *)
(* of the block in iv is used up.  A mode returns the new context and the  *)
(* output.  The code's whole-block loops do what its byte loops do, faster. *)
(***************************************************************************)
EXTENDS Bytes

aes_mode_reset(cx) == [cx EXCEPT !.pos = 0]

Blocks(data, size) == [i \in 1..(Len(data) \div size) |-> SubSeq(data, size * (i - 1) + 1, size * i)]

(* aes_ecb_encrypt, aes_ecb_decrypt *)
EcbCrypt(cipher, data, size) ==
    IF Len(data) % size # 0 THEN Failed
    ELSE [ok |-> TRUE, out |-> FlattenSeq([i \in 1..(Len(data) \div size) |-> cipher[Blocks(data, size)[i]]])]

aes_cbc_encrypt(cipher, data, iv) ==
    LET next(acc, block) == LET b == cipher[XorBytes(acc.iv, block)]
                            IN  [acc EXCEPT !.iv = b, !.out = @ \o b]
    IN  IF Len(data) % Len(iv) # 0 THEN Failed
        ELSE FoldLeft(next, [ok |-> TRUE, iv |-> iv, out |-> <<>>], Blocks(data, Len(iv)))

aes_cbc_decrypt(cipher, data, iv) ==
    LET next(acc, block) == [acc EXCEPT !.iv = block, !.out = @ \o XorBytes(cipher[block], acc.iv)]
    IN  IF Len(data) % Len(iv) # 0 THEN Failed
        ELSE FoldLeft(next, [ok |-> TRUE, iv |-> iv, out |-> <<>>], Blocks(data, Len(iv)))

(* A byte of a stream mode: a used-up iv is encrypted, the next byte of it masks the input, *)
(* and is replaced by what fed[in, out, mask] says. *)
StreamCrypt(cipher, fed, data, cx) ==
    LET next(acc, in) ==
            LET iv == IF acc.pos = 0 THEN cipher[acc.iv] ELSE acc.iv
                mask == iv[acc.pos + 1]
                out == XorByte(in, mask)
            IN  [iv |-> [iv EXCEPT ![acc.pos + 1] = fed[in, out, mask]],
                 pos |-> (acc.pos + 1) % Len(iv), out |-> Append(acc.out, out)]
    IN  FoldLeft(next, [iv |-> cx.iv, pos |-> cx.pos, out |-> <<>>], data)

aes_cfb_encrypt(cipher, data, cx) == StreamCrypt(cipher, [in, out, mask \in Byte |-> out], data, cx)
aes_cfb_decrypt(cipher, data, cx) == StreamCrypt(cipher, [in, out, mask \in Byte |-> in], data, cx)
aes_ofb_crypt(cipher, data, cx) == StreamCrypt(cipher, [in, out, mask \in Byte |-> mask], data, cx)

(* Counter mode.  After a whole block the counter is incremented at once, *)
(* after the end of a block that an earlier call began only by the next call. *)
aes_ctr_crypt(cipher, inc, data, cx) ==
    LET size == Len(cx.iv)
        end == cx.pos + Len(data)
        counter[i \in Nat] == IF i = 0 THEN cx.iv ELSE inc[counter[i - 1]]
        stream == FlattenSeq([i \in 1..((end + size - 1) \div size) |-> cipher[counter[i - 1]]])
        done == IF cx.pos > 0 /\ end <= size THEN 0 ELSE end \div size
    IN  [iv |-> counter[done], pos |-> end - done * size, out |-> XorBytes(data, Drop(stream, cx.pos))]
=============================================================================
