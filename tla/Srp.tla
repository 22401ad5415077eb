-------------------------------- MODULE Srp --------------------------------
(***************************************************************************)
(* DragonSRP (src/crypto/dsrp, src/crypto/ossl): the arithmetic of the     *)
(* login and the database of users.  The group and the hash function are   *)
(* constants.  Numbers travel as byte strings without leading zeros.       *)
(* What throws a DsrpException returns Failed.                             *)
(***************************************************************************)
EXTENDS Codec

CONSTANTS N, g,          \* the group: a prime and a generator
          Hash(_),       \* HashInterface::hash
          HashLen        \* HashInterface::outputLen

ASSUME SrpAssumption == N \in Nat \ {0} /\ g \in Nat /\ HashLen \in Nat \ {0}

(* vector::resize(n, 0) *)
Resize(b, n) == IF Len(b) >= n THEN Take(b, n) ELSE b \o Zeros(n - Len(b))

-----------------------------------------------------------------------------
(* OsslConversion *)

ToNumber(b) == Value(b)
ToBytes(n) ==
    LET size == IF n = 0 THEN 0 ELSE IF n < 256 THEN 1 ELSE IF n < 65536 THEN 2 ELSE 3
    IN  EncodeUint(n, size)

(* BN_mod_exp *)
PowMod(b, e) ==
    LET pow[i \in Nat] ==
            IF i = 0 THEN 1 % N
            ELSE LET h == pow[i \div 2] IN (((h * h) % N) * (IF i % 2 = 1 THEN b % N ELSE 1)) % N
    IN  pow[e]

LenN == Len(ToBytes(N))
Pad(b) == Zeros(LenN - Len(b)) \o b

(* The constructor: k = H(N | PAD(g)). *)
k == ToNumber(Hash(ToBytes(N) \o Pad(ToBytes(g))))

CheckNg == N # 0 /\ g # 0 /\ k # 0

CalculateA(a) == IF a = <<>> \/ ~CheckNg THEN Failed
                 ELSE [ok |-> TRUE, out |-> ToBytes(PowMod(g, ToNumber(a)))]

-----------------------------------------------------------------------------
(***************************************************************************)
(* u.  The comment of both functions says H(PAD(A) | PAD(B)).  The client  *)
(* puts the zeros of A behind it, the server in front of it; and a short B *)
(* resizes what is there to the number of its zeros, at both ends.         *)
(***************************************************************************)
WithB(cu, srpB) ==
    IF Len(srpB) < LenN THEN Resize(Append(cu, 0), LenN - Len(srpB)) \o srpB ELSE cu \o srpB

ClientU(srpA, srpB) == ToNumber(Hash(WithB(srpA \o Zeros(LenN - Len(srpA)), srpB)))
ServerU(srpA, srpB) == ToNumber(Hash(WithB(Pad(srpA), srpB)))

(* x = H(salt | H(username | ":" | password)) *)
PrivateX(user, password, salt) ==
    ToNumber(Hash(salt \o Hash(user \o <<58>> \o password)))

(* interleaveS; numbers have no leading zeros to skip. *)
InterleaveS(s) ==
    LET even == IF Len(s) % 2 = 1 THEN Tail(s) ELSE s
        half == Len(even) \div 2
        G == Hash([i \in 1..half |-> even[2 * i - 1]])
        H == Hash([i \in 1..half |-> even[2 * i]])
    IN  IF s = <<>> \/ even = <<>> THEN Failed
        ELSE [ok |-> TRUE, out |-> FlattenSeq([i \in 1..HashLen |-> <<G[i], H[i]>>])]

(* M1 = H(H(N) XOR H(g) | H(username) | s | A | B | K), M2 = H(A | M1 | K) *)
CalculateM1(user, salt, srpA, srpB, key) ==
    Hash(XorBytes(Hash(ToBytes(N)), Hash(ToBytes(g))) \o Hash(user) \o salt \o srpA \o srpB \o key)

Proofs(user, salt, srpA, srpB, secret) ==
    LET key == InterleaveS(ToBytes(secret)) IN
    IF ~key.ok THEN Failed
    ELSE LET m1 == CalculateM1(user, salt, srpA, srpB, key.out) IN
         [ok |-> TRUE, srpB |-> srpB, m1 |-> m1, m2 |-> Hash(srpA \o m1 \o key.out), key |-> key.out]

(***************************************************************************)
(* S = (B - k g^x) ^ (a + u x).  The exponent is reduced modulo N, which   *)
(* changes it unless a + u x < N.                                          *)
(***************************************************************************)
ClientChallenge(salt, a, srpA, srpB, user, password) ==
    LET u == ClientU(srpA, srpB)
        x == PrivateX(user, password, salt)
        base == (ToNumber(srpB) - ((k * PowMod(g, x)) % N)) % N
        exponent == (ToNumber(a) + ((u * x) % N)) % N
    IN  IF <<>> \in {salt, a, srpA, srpB, user, password} \/ ~CheckNg THEN Failed
        ELSE IF ToNumber(srpB) = 0 \/ u = 0 THEN Failed
        ELSE Proofs(user, salt, srpA, srpB, PowMod(base, exponent))

(* B = k v + g^b, S = (A v^u) ^ b *)
ServerChallenge(user, salt, v, srpA, b) ==
    LET A == ToNumber(srpA)
        srpB == ToBytes((((k * ToNumber(v)) % N) + PowMod(g, ToNumber(b))) % N)
        base == ((A % N) * PowMod(ToNumber(v), ServerU(srpA, srpB))) % N
    IN  IF <<>> \in {user, salt, v, srpA, b} \/ ~CheckNg THEN Failed
        ELSE IF A % N = 0 \/ ToNumber(v) = 0 THEN Failed
        ELSE Proofs(user, salt, srpA, srpB, PowMod(base, ToNumber(b)))

CalculateVerificator(user, password, salt) ==
    IF <<>> \in {user, password, salt} THEN Failed
    ELSE [ok |-> TRUE, out |-> ToBytes(PowMod(g, PrivateX(user, password, salt)))]

-----------------------------------------------------------------------------
(***************************************************************************)
(* PasswordLoader::loadFromFile over MemoryLookup.  A line is a sequence   *)
(* of words; a word is a name or hexadecimal digits.  Of a name that comes *)
(* twice the first line counts; a line that is wrong ends the loading with *)
(* what was read before it.                                                *)
(***************************************************************************)
Comment == <<35>>
Skipped(line) == line = <<>> \/ Take(line[1], 1) = Comment
GoodLine(line) == Len(line) >= 3 /\ HexToBytes(line[2]).ok /\ HexToBytes(line[3]).ok

LoadFromFile(file) ==
    LET bad == {i \in DOMAIN file : ~Skipped(file[i]) /\ ~GoodLine(file[i])}
        read == {i \in DOMAIN file : ~Skipped(file[i]) /\ \A j \in bad : i < j}
        names == {file[i][1] : i \in read}
        first(n) == file[Min({i \in read : file[i][1] = n})]
    IN  [ok |-> bad = {},
         db |-> [n \in names |-> [salt |-> HexToBytes(first(n)[2]).out,
                                  verificator |-> HexToBytes(first(n)[3]).out]]]

(* create_user: the line for a new user. *)
UserLine(user, password, salt) ==
    <<user, BytesToHex(salt), BytesToHex(CalculateVerificator(user, password, salt).out)>>

(* SrpServer::getVerificator throws UserNotFoundException for a name that is not in the database. *)
GetVerificator(db, user, srpA, b) ==
    ServerChallenge(user, db[user].salt, db[user].verificator, srpA, b)


(* A slip: proofs of the same length pass. *)
AuthenticatesByLength(ver, m1) == ver.m1 # <<>> /\ m1 # <<>> /\ Len(ver.m1) = Len(m1)

(* SrpVerificator::authenticate, SrpClientAuthenticator::getSessionKey *)
Authenticates(ver, m1) == ver.m1 # <<>> /\ m1 # <<>> /\ ver.m1 = m1
ConfirmsKey(sca, m2) == m2 # <<>> /\ sca.m2 # <<>> /\ m2 = sca.m2
=============================================================================
