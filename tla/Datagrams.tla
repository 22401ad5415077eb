----------------------------- MODULE Datagrams -----------------------------
(***************************************************************************)
(* The encrypted datagrams of the shell (src/crypto/drel,                  *)
(* src/crypto/mac/hmac.cpp), in the counter mode of AesModes.  The block   *)
(* cipher is a constant.                                                   *)
(***************************************************************************)
EXTENDS Srp, AesModes

CONSTANTS Cipher(_, _),   \* aes_ecb_encrypt of one block: key, block
          KeyLen, IVLen,  \* SH_AES256_KEYLEN, SH_IVLEN
          HashBlock,      \* HashInterface::blockSize
          DigestLen,      \* DSRP_ENCPARAM_TRUNCDIGEST_SIZE
          MaxPacket,      \* DREL_AES_MAXPACKETOCT
          MinSessionKey   \* HASHKEYDERIVATOR_MIN_SESSIONKEY_SIZE

ASSUME DatagramAssumption ==
    /\ KeyLen \in Nat /\ IVLen \in Nat /\ DigestLen \in 1..HashLen /\ HashBlock \in Nat /\ HashLen <= HashBlock
    /\ MaxPacket \in Nat /\ MinSessionKey \in Nat /\ MinSessionKey <= 2 * HashLen

-----------------------------------------------------------------------------
(* HashKeyDerivator.  The six derivation strings are the numbers 1 to 6. *)

Derivation(use) == <<use>>

DeriveBytes(length, use, sessionKey) ==
    LET hashed[i \in Nat] == IF i = 0 THEN Hash(Derivation(use)) ELSE Hash(hashed[i - 1])
        rounds == (length + HashLen - 1) \div HashLen
    IN  Take(FlattenSeq([i \in 1..rounds |-> Hash(sessionKey \o hashed[i - 1])]), length)

Keys[sessionKey \in Seq(Byte)] ==
    IF Len(sessionKey) < MinSessionKey THEN Failed
    ELSE LET side(first) == [enc |-> DeriveBytes(KeyLen, first, sessionKey),
                             iv |-> DeriveBytes(IVLen, first + 1, sessionKey),
                             mac |-> DeriveBytes(HashLen, first + 2, sessionKey)]
         IN  [ok |-> TRUE, client |-> side(1), server |-> side(4)]

-----------------------------------------------------------------------------
(* Hmac *)

KeyPad(key, byte) == LET full == Resize(key, HashBlock) IN XorBytes(full, [i \in 1..HashBlock |-> byte])
Hmac(key, data) == Hash(KeyPad(key, 92) \o Hash(KeyPad(key, 54) \o data))

-----------------------------------------------------------------------------
(***************************************************************************)
(* Counter mode.  A counter block is IV | sequence number | block counter. *)
(* aes_custom_inc increments its pointer, not the counter, and so only     *)
(* swaps the two bytes of the counter (the machine is a little-endian one).*)
(***************************************************************************)
CounterBlock(iv, seq) == iv \o EncodeUint(seq, 8) \o EncodeUint(1, 2)
BlockLen == IVLen + 8 + 2

CustomInc[ctr \in Seq(Byte)] == Take(ctr, BlockLen - 2) \o <<ctr[BlockLen], ctr[BlockLen - 1]>>

(* A slip: the key is not set up again for each datagram. *)
StartPosKept(pos) == pos

(* aes_encrypt_key256 clears the position at which the last datagram ended. *)
StartPos(pos) == 0

(* AesCounter::encrypt; it decrypts as well. *)
AesEncrypt(ctx, data, seq, pos) ==
    IF Len(data) \notin 1..MaxPacket THEN Failed
    ELSE LET cx == [iv |-> CounterBlock(ctx.iv, seq), pos |-> StartPos(pos)]
             r == aes_ctr_crypt([block \in Seq(Byte) |-> Cipher(ctx.enc, block)], CustomInc, data, cx)
         IN  [ok |-> TRUE, out |-> r.out, pos |-> r.pos]

Digest(ctx, data, seq) == Take(Hmac(ctx.mac, data \o EncodeUint(seq, 8)), DigestLen)

(* DatagramEncryptor::encryptAndAuthenticate *)
EncryptAndAuthenticate(ctx, plain, seq, pos) ==
    LET r == AesEncrypt(ctx, plain, seq, pos) IN
    IF r.ok THEN [r EXCEPT !.out = @ \o Digest(ctx, @, seq)] ELSE Failed

(* DatagramDecryptor::decryptAndVerifyMac *)
DecryptAndVerifyMac(ctx, data, seq, pos) ==
    LET cut == Len(data) - DigestLen IN
    IF cut <= 0 THEN Failed
    ELSE IF Digest(ctx, Take(data, cut), seq) # Drop(data, cut) THEN Failed
    ELSE AesEncrypt(ctx, Take(data, cut), seq, pos)
=============================================================================
