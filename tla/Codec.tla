------------------------------- MODULE Codec -------------------------------
(***************************************************************************)
(* The formats of the system: capsules (src/network/ccapsule.cpp), the     *)
(* requests and responses of the remote calls (src/rpc, src/interfaces),   *)
(* the frames of a stream (src/stream/clenvalueseparator.cpp), the packet  *)
(* of the stop-and-wait exchange, the messages of the shell                *)
(* (src/shell/messageconstructor.cpp) and addresses written in hexadecimal *)
(* (src/utils/hex.cpp, address.cpp).  A byte string is a sequence.  Sizes  *)
(* and limits are constants, so that short strings reach them.             *)
(*                                                                         *)
(* What parses returns a record whose field ok is the code's return value. *)
(***************************************************************************)
EXTENDS Bytes

CONSTANTS AddressSize, HashSize,   \* sanAddressSize, sanHashSize
          MinUser, MaxUser, MinA, MaxA, MinB, MaxB, MinSalt, MaxSalt,
          MinM1, MaxM1, MinM2, MaxM2      \* ENC_MIN_..., ENC_MAX_...

ASSUME SizesAssumption ==
    /\ AddressSize \in Nat \ {0} /\ HashSize \in Nat \ {0}
    /\ MinUser \in 1..MaxUser /\ MinA \in 1..MaxA /\ MinB \in 1..MaxB
    /\ MinSalt \in 1..MaxSalt /\ MaxSalt <= 255
    /\ MinM1 \in 1..MaxM1 /\ MinM2 \in 1..MaxM2
    /\ {MaxUser, MaxA, MaxB, MaxSalt, MaxM1, MaxM2} \subseteq Nat

(* Numbers above this are all alike (of the 4- and 8-byte numbers the model uses small ones). *)
MaxNumber == 256 * 65536 - 1

-----------------------------------------------------------------------------
(* CDataPack: numbers of w bytes, the most significant first. *)

Weight == <<1, 256, 65536>>

EncodeUint(n, w) == [i \in 1..w |-> IF w - i > 2 THEN 0 ELSE (n \div Weight[w - i + 1]) % 256]

Value(b) ==
    LET digit(i) == IF i <= Len(b) THEN b[Len(b) - i + 1] * Weight[i] ELSE 0     \* the i-th from the end
    IN  IF \E i \in 1..(Len(b) - 3) : b[i] # 0 THEN MaxNumber ELSE digit(1) + digit(2) + digit(3)

(* A string that is too short gives 0. *)
DecodeUint(b, pos, w) == IF Len(b) < pos + w THEN 0 ELSE Value(SubSeq(b, pos + 1, pos + w))

-----------------------------------------------------------------------------
(* CCapsule.  dx and ds are bits 0 and 1 of the flags. *)

HeaderSize == 2 * AddressSize + 2 + 1 + HashSize

PackCapsule(c) ==
    c.dst \o c.src \o EncodeUint(c.hop, 2)
      \o <<(IF c.dx THEN 1 ELSE 0) + (IF c.ds THEN 2 ELSE 0)>> \o c.appId \o c.data

UnpackCapsule(b) ==
    IF Len(b) < HeaderSize THEN Failed
    ELSE LET flags == b[2 * AddressSize + 3] IN
         [ok |-> TRUE,
          dst |-> Take(b, AddressSize),
          src |-> SubSeq(b, AddressSize + 1, 2 * AddressSize),
          hop |-> DecodeUint(b, 2 * AddressSize, 2),
          dx |-> flags % 2 = 1,
          ds |-> (flags \div 2) % 2 = 1,
          appId |-> SubSeq(b, 2 * AddressSize + 4, HeaderSize),
          data |-> Drop(b, HeaderSize)]

(* setDSdata on a capsule of which nothing else is set: hop, flag DX and appId are junk. *)
DSCapsule(dst, src, dstport, srcport, payload, junk) ==
    [dst |-> dst, src |-> src, hop |-> junk.hop, dx |-> junk.dx, ds |-> TRUE, appId |-> junk.appId,
     data |-> EncodeUint(dstport, 2) \o EncodeUint(srcport, 2) \o payload]

PortsDS(c) ==
    IF ~c.ds \/ Len(c.data) < 4 THEN Failed
    ELSE [ok |-> TRUE, dst |-> DecodeUint(c.data, 0, 2), src |-> DecodeUint(c.data, 2, 2)]

-----------------------------------------------------------------------------
(* Frames of a stream, datagrams of the remote calls. *)

LengthSize == 4
Frame(b) == EncodeUint(Len(b), LengthSize) \o b

Datagram(fid, b) == EncodeUint(fid, 2) \o b
RecvData(b) == IF Len(b) < 2 THEN Failed
               ELSE [ok |-> TRUE, fid |-> DecodeUint(b, 0, 2), body |-> Drop(b, 2)]

(* The functions: getUniqueId of the In and of the Out class are the same. *)
fSendCapsule == 1
fAlive == 2
fWaitForCapsule == 2215
fGetParameter == 4333
fRegister == 4896
fGetAddresses == 5014
fRegisterEphemeral == 31332
SyncFunctions == {fWaitForCapsule, fGetParameter, fRegister, fGetAddresses, fRegisterEphemeral}

(* A slip: the timeout is packed into two bytes. *)
WaitRequestShort(t) == EncodeUint(t, 2)

(* WaitForCapsule: the request, the response of the node, what the application makes of it. *)
WaitRequest(t) == EncodeUint(t, 4)
WaitUnpack(b) == Len(b) = 4
waitError == 0
waitInvalidResponse == 1
waitCapsuleUnpack == 2
waitSuccess == 3
waitTimeout == 4
WaitFound(c) == EncodeUint(waitSuccess, 4) \o PackCapsule(c)
WaitNothing == EncodeUint(waitTimeout, 4)
WaitResult(b) ==
    IF Len(b) < 4 \/ DecodeUint(b, 0, 4) # waitSuccess THEN Failed ELSE UnpackCapsule(Drop(b, 4))

(* RegisterEphemeral; GetAddresses: one address after the other. *)
PortResponse(p) == EncodeUint(p, 2)
PortResult(b) == IF Len(b) # 2 THEN Failed ELSE [ok |-> TRUE, port |-> DecodeUint(b, 0, 2)]
AddressesResponse(as) == FlattenSeq(as)
AddressesResult(b) ==
    IF Len(b) % AddressSize # 0 THEN Failed
    ELSE [ok |-> TRUE,
          list |-> [i \in 1..(Len(b) \div AddressSize) |->
                       SubSeq(b, (i - 1) * AddressSize + 1, i * AddressSize)]]

-----------------------------------------------------------------------------
(* The packet of StopWaitTx and StopWaitRx. *)

SOF == 83
Packet(seq, payload) == <<SOF>> \o EncodeUint(seq, 8) \o payload
ParsePacket(b) ==
    IF Len(b) < 9 \/ b[1] # SOF THEN Failed
    ELSE [ok |-> TRUE, seq |-> DecodeUint(b, 1, 8), payload |-> Drop(b, 9)]

-----------------------------------------------------------------------------
(* The messages of the shell: A, B, C, D of the client, P, Q, R of the server. *)

Start(type) == <<69, type>>                 \* ENC_PROTOCOL_ID, ENC_MSGTYPE_...
StartsWith(b, type) == Len(b) >= 2 /\ Take(b, 2) = Start(type)
mA == 65
mB == 66
mC == 67
mD == 68
mP == 80
mQ == 81
mR == 82

(* SH_ERRORCODE_... *)
errSrp == 2
errParsing == 3
errUserNotFound == 4
errAuthentication == 5

Message(b) == [ok |-> TRUE, out |-> b]

ConstructA(user, srpA) ==
    IF Len(user) \in MinUser..MaxUser /\ Len(srpA) \in MinA..MaxA
    THEN Message(Start(mA) \o user \o <<0>> \o srpA) ELSE Failed

(* The search for the 0 stops one byte behind the end; every A that is sent has one. *)
ParseA(b) ==
    IF Len(b) < 2 + MinUser + MinA \/ ~StartsWith(b, mA) \/ 0 \notin Range(Drop(b, 2)) THEN Failed
    ELSE LET z == Min({i \in 3..Len(b) : b[i] = 0}) IN
         [ok |-> TRUE, user |-> SubSeq(b, 3, z - 1), srpA |-> Drop(b, z)]

ConstructPSuccess(salt, srpB) ==
    IF Len(salt) \in MinSalt..MaxSalt /\ Len(srpB) \in MinB..MaxB
    THEN Message(Start(mP) \o <<0, Len(salt)>> \o salt \o srpB) ELSE Failed

(* enc_construct_P_message_fail, enc_construct_Q_message_fail *)
ConstructFail(type, error) == Message(Start(type) \o <<error>>)

ParseP(b) ==
    IF Len(b) < 3 \/ ~StartsWith(b, mP) THEN Failed
    ELSE IF b[3] # 0 THEN [ok |-> TRUE, error |-> b[3], salt |-> <<>>, srpB |-> <<>>]
    ELSE IF Len(b) < 4 + MinSalt + MinB \/ b[4] \notin MinSalt..MaxSalt THEN Failed
    ELSE LET srpB == Drop(b, 4 + b[4]) IN
         IF Len(srpB) \in MinB..MaxB
         THEN [ok |-> TRUE, error |-> 0, salt |-> SubSeq(b, 5, 4 + b[4]), srpB |-> srpB]
         ELSE Failed

ConstructB(m1) == IF Len(m1) \in MinM1..MaxM1 THEN Message(Start(mB) \o m1) ELSE Failed

ParseB(b) ==
    IF StartsWith(b, mB) /\ Len(b) - 2 \in MinM1..MaxM1 THEN [ok |-> TRUE, m1 |-> Drop(b, 2)]
    ELSE Failed

ConstructQSuccess(m2) ==
    IF Len(m2) \in MinM2..MaxM2 THEN Message(Start(mQ) \o <<0>> \o m2) ELSE Failed

(* Other than P, Q has no upper limit here. *)
ParseQ(b) ==
    IF Len(b) < 3 \/ ~StartsWith(b, mQ) THEN Failed
    ELSE IF b[3] # 0 THEN [ok |-> TRUE, error |-> b[3], m2 |-> <<>>]
    ELSE IF Len(b) < 3 + MinM2 THEN Failed
    ELSE [ok |-> TRUE, error |-> 0, m2 |-> Drop(b, 3)]

ConstructC(request) == Start(mC) \o request
ParseC(b) == IF StartsWith(b, mC) THEN [ok |-> TRUE, request |-> Drop(b, 2)] ELSE Failed

ConstructR(response, error) == Start(mR) \o <<error>> \o response
ParseR(b) ==
    IF Len(b) < 3 \/ ~StartsWith(b, mR) THEN Failed
    ELSE [ok |-> TRUE, error |-> b[3], response |-> Drop(b, 3)]

ConstructD == Start(mD)
ParseD(b) == b = Start(mD)

-----------------------------------------------------------------------------
(* Hexadecimal text: a digit is its value, any other character NotADigit. *)

NotADigit == 16

HexToBytes(s) ==
    LET even == IF Len(s) % 2 = 1 THEN <<0>> \o s ELSE s     \* the first digit is a low one
    IN  IF NotADigit \in Range(s) THEN Failed
        ELSE [ok |-> TRUE, out |-> [i \in 1..(Len(even) \div 2) |-> even[2 * i - 1] * 16 + even[2 * i]]]

BytesToHex(b) == FlattenSeq([i \in 1..Len(b) |-> <<b[i] \div 16, b[i] % 16>>])

(* string2address: the text must be a whole address. *)
StringToAddress(s) ==
    LET r == HexToBytes(s) IN IF r.ok /\ Len(r.out) = AddressSize THEN r ELSE Failed

(* getExpandedAddress: what is too short gets zeros in front. *)
ExpandedAddress(s) ==
    IF Len(s) > 2 * AddressSize THEN Failed
    ELSE StringToAddress(Zeros(2 * AddressSize - Len(s)) \o s)
=============================================================================
