----------------------------- MODULE CodecTests -----------------------------
(***************************************************************************)
(* The self-tests of src/shell/messageconstructor.cpp, for every content   *)
(* over a few bytes: a message that can be built is parsed to what it was  *)
(* built from.  TLC evaluates the assumption on every run that extends     *)
(* this module.                                                            *)
(***************************************************************************)
EXTENDS Codec

enc_testA(user, srpA) ==
    LET a == ConstructA(user, srpA)
    IN  /\ a.ok <=> (Len(user) \in MinUser..MaxUser /\ Len(srpA) \in MinA..MaxA)
        /\ a.ok => ParseA(a.out) = [ok |-> TRUE, user |-> user, srpA |-> srpA]

enc_testP(salt, srpB) ==
    LET p == ConstructPSuccess(salt, srpB)
    IN  p.ok => ParseP(p.out) = [ok |-> TRUE, error |-> 0, salt |-> salt, srpB |-> srpB]

enc_testB(m1) == LET b == ConstructB(m1) IN b.ok => ParseB(b.out) = [ok |-> TRUE, m1 |-> m1]

enc_testQ(m2, error) ==
    LET q == ConstructQSuccess(m2)
    IN  /\ q.ok => ParseQ(q.out) = [ok |-> TRUE, error |-> 0, m2 |-> m2]
        /\ ParseQ(ConstructFail(mQ, error).out).error = error

enc_testC(request) == ParseC(ConstructC(request)) = [ok |-> TRUE, request |-> request]

enc_testR(response, error) ==
    ParseR(ConstructR(response, error)) = [ok |-> TRUE, error |-> error, response |-> response]

enc_testD == ParseD(ConstructD)

(* Strings with and without the byte that ends a name, and of the first byte of a message *)
Contents == UNION {[1..n -> {0, 69, 255}] : n \in 0..3}
Names == {s \in Contents : 0 \notin Range(s)}

ASSUME MessagesReturn ==
    /\ \A b \in Contents : (\A name \in Names : enc_testA(name, b)) /\ enc_testB(b) /\ enc_testC(b)
    /\ \A b, c \in Contents : enc_testP(b, c)
    /\ \A b \in Contents, error \in {1, 87, 255} : enc_testQ(b, error) /\ enc_testR(b, error)
    /\ enc_testD
=============================================================================
