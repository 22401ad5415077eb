------------------------------ MODULE Wire_proofs ------------------------------
(***************************************************************************)
(* What holds of a whole session for any users, accounts and commands, any *)
(* sizes of buffers and pieces, whatever capsules are lost and whenever    *)
(* the node ends or dies.                                                  *)
(***************************************************************************)
EXTENDS WireData_proofs

-----------------------------------------------------------------------------
(***************************************************************************)
(* The inductive invariant.  Both programs keep what is typed; a number    *)
(* that only one of them uses is bounded by what a frame can hold.         *)
(***************************************************************************)
Ends == {"none", "no port", "no address", "no user", "refused", "failed", "exit", "aborted", "crashed"}

AppSet == [pc : {"port", "addresses", "send", "wait", "prompt", "done"}, port : Nat, address : Sized(AddressSize),
           step : Nat, seq : Nat \ {0}, tries : 0..MaxTries, request : Seq(Byte), srpA : Seq(Byte),
           sca : ProofsSet \cup {Failed}, enc : Nat, dec : Nat, out : Ends]

AppInv(a) ==
    /\ a \in AppSet
    /\ (a.pc = "done") = (a.out # "none")
    /\ RpcFits(a.request)
    /\ a.step >= 2 => a.sca \in ProofsSet
    /\ a.pc = "prompt" => a.step >= 3

ServerSet == [state : {"ZERO", "ALPHA", "BETA"}, seq : Nat \ {0}, last : Seq(Byte), ver : ProofsSet \cup {Failed},
              enc : Nat, dec : Nat, up : BOOLEAN]

ServerInv(s) ==
    /\ s \in ServerSet
    /\ Len(s.last) + 6 <= MaxNumber
    /\ s.state # "ZERO" => s.ver \in ProofsSet

UserInv ==
    /\ user.name \in Seq(Byte) /\ user.password \in Seq(Byte) /\ user.a \in Seq(Byte) \ {<<>>}
    /\ user.junk.hop \in Nat /\ user.junk.dx \in BOOLEAN /\ user.junk.appId \in Sized(HashSize)

FittingSet == {c \in CapsuleSet : Fitting(c)}

(* A call is awaited where it was made. *)
CallerInv ==
    \/ pending = 0
    \/ pending = fRegisterEphemeral /\ app.pc = "port"
    \/ pending = fGetAddresses /\ app.pc = "addresses"
    \/ pending = fWaitForCapsule /\ app.pc = "wait"

Kept ==
    /\ UserInv /\ AppInv(app) /\ ServerInv(server)
    /\ CallerInv
    /\ ReaderInv(appRd) /\ ReaderInv(nodeRd) /\ up \in Seq(Byte) /\ down \in Seq(Byte)
    /\ queue \in Seq(FittingSet) /\ net \in Seq(CapsuleSet) /\ lost \in 0..MaxLost
    /\ node \in {"read", "wait", "ended", "dead"}
    /\ sent \in Seq(FunctionIds) /\ executed \in 0..Len(sent)

Requests == Unread(nodeRd, up)
Answers == Functions(Unread(appRd, down))
Todo == SubSeq(sent, executed + 1, Len(sent))
Sends(s) == \A i \in 1..Len(s) : s[i] = fSendCapsule
AskedLast(s, p) == s # <<>> /\ \A i \in 1..Len(s) : s[i] = IF i = Len(s) THEN p ELSE fSendCapsule

(* A request to wait that is on its way has a body of four bytes. *)
WaitsWhole(b) ==
    \A i \in 1..Len(Messages(b)) : DecodeUint(Messages(b)[i], 0, 2) = fWaitForCapsule => Len(Messages(b)[i]) = 6

(***************************************************************************)
(* Where the call is that the program awaits: among the requests as the    *)
(* last of them, in the hands of the node, or answered.                    *)
(***************************************************************************)
Idle == pending = 0 /\ node = "read" /\ Answers = <<>> /\ Sends(Todo)
Asked == pending # 0 /\ node = "read" /\ Answers = <<>> /\ AskedLast(Todo, pending)
Held == pending = fWaitForCapsule /\ node = "wait" /\ Answers = <<>> /\ Todo = <<>>
Replied == pending # 0 /\ node = "read" /\ Answers = <<pending>> /\ Todo = <<>>

CallInv == node \in {"read", "wait"} => WaitsWhole(Requests) /\ (Idle \/ Asked \/ Held \/ Replied)

WireInv == Kept /\ StreamInStep /\ CallInv

-----------------------------------------------------------------------------
(* The client's program: what it keeps while it goes on. *)
Running(a) == a \in AppSet /\ a.out = "none" /\ RpcFits(a.request) /\ (a.step >= 2 => a.sca \in ProofsSet)

(* Who types, and what, is one of the users of the instance. *)
LEMMA UserTyped ==
    ASSUME NEW u \in Users, NEW a \in SecretsA, NEW j \in Junk
    PROVE  /\ u.name \in Seq(Byte) /\ u.password \in Seq(Byte) /\ a \in Seq(Byte) \ {<<>>}
           /\ j.hop \in Nat /\ j.dx \in BOOLEAN /\ j.appId \in Sized(HashSize)
<1>1. j.appId \in Strings(HashSize) /\ HashSize \in Nat
    BY WireAssumption, Sizes DEF WireConstants, Strings
<1>2. j.appId \in Sized(HashSize)
    BY <1>1, StringsAreSeqs DEF Sized
<1> QED
    BY <1>2, WireAssumption DEF WireConstants

(* Say: a message of the login or a command goes out. *)
LEMMA SayKeeps ==
    ASSUME UserInv, NEW a, Running(a), NEW step \in Nat, step >= 2 => a.sca \in ProofsSet,
           NEW text, NEW message, MessageFits(message), Say(a, step, text, message)
    PROVE  AppInv(app') /\ app'.pc = "send"
<1> DEFINE b == PackCapsule(DSCapsule(ServerAddress, a.address, ServerPort, a.port, Packet(a.seq, message), user.junk))
           seq == a.seq
           src == a.address
           port == a.port
<1>1. seq \in Nat /\ src \in Sized(AddressSize) /\ port \in Nat
    BY DEF Running, AppSet
<1>2. ServerAddress \in Sized(AddressSize) /\ ServerPort \in Nat
    BY ServerAddressType, WireFacts
<1>3. user.junk.hop \in Nat /\ user.junk.dx \in BOOLEAN /\ user.junk.appId \in Sized(HashSize)
    BY DEF UserInv
<1> HIDE DEF seq, src, port
<1>4. b \in Seq(Byte) /\ Len(b) + 6 <= MaxNumber
    <2> DEFINE c == PackCapsule(DSCapsule(ServerAddress, src, ServerPort, port, Packet(seq, message), user.junk))
    <2>1. c \in Seq(Byte) /\ Len(c) + 6 <= MaxNumber
        BY <1>1, <1>2, <1>3, RequestBytes
    <2> QED
        BY <2>1 DEF seq, src, port
<1>5. app' = [a EXCEPT !.pc = "send", !.step = step, !.tries = MaxTries, !.request = b]
    BY DEF Say
<1> HIDE DEF b
<1>6. RpcFits(b)
    BY <1>4, WireLimits, LenProperties DEF RpcFits
<1>7. MaxTries \in 0..MaxTries
    BY WireFacts
<1> QED
    BY <1>4, <1>5, <1>6, <1>7 DEF Running, AppSet, AppInv

(* The program ends, for one of the reasons. *)
LEMMA EndKeeps ==
    ASSUME NEW a, Running(a), NEW how \in Ends \ {"none"}, End(a, how)
    PROVE  AppInv(app') /\ app'.pc = "done"
BY DEF End, Running, AppSet, AppInv

(* It asks for the next command. *)
LEMMA PromptKeeps ==
    ASSUME NEW a, Running(a), a.step >= 3, a.sca \in ProofsSet, Prompt(a)
    PROVE  AppInv(app') /\ app'.pc = "prompt"
<1> DEFINE s == a.step
<1>1. s + 1 \in Nat /\ s + 1 >= 3 /\ app' = [a EXCEPT !.pc = "prompt", !.step = s + 1]
    BY DEF Prompt, Running, AppSet
<1> HIDE DEF s
<1> QED
    BY <1>1 DEF Running, AppSet, AppInv

(* The exchange has failed: back to the prompt, or the end. *)
LEMMA FailsKeeps ==
    ASSUME NEW a, Running(a), Fails(a)
    PROVE  AppInv(app') /\ app'.pc \in {"prompt", "done"}
<1>1. CASE a.step = 3
    <2>1. a.step >= 3 /\ a.step >= 2
        BY <1>1
    <2>2. a.sca \in ProofsSet /\ Prompt(a)
        BY <1>1, <2>1 DEF Running, Fails
    <2> QED
        BY <2>1, <2>2, PromptKeeps
<1>2. CASE a.step # 3
    <2>1. End(a, "failed") /\ "failed" \in Ends \ {"none"}
        BY <1>2 DEF Fails, Ends
    <2> QED
        BY <2>1, EndKeeps
<1> QED
    BY <1>1, <1>2

(* No response came: the same request again, or it fails. *)
LEMMA AgainKeeps ==
    ASSUME Running(app), Again
    PROVE  AppInv(app') /\ app'.pc \in {"send", "prompt", "done"}
<1>1. CASE app.tries > 1
    <2> DEFINE t == app.tries - 1
    <2>1. app' = [app EXCEPT !.pc = "send", !.tries = t]
        BY <1>1 DEF Again
    <2>2. t \in 0..MaxTries
        BY <1>1, WireFacts DEF Running, AppSet
    <2> HIDE DEF t
    <2> QED
        BY <2>1, <2>2 DEF Running, AppSet, AppInv
<1>2. CASE ~ (app.tries > 1)
    BY <1>2, FailsKeeps DEF Again
<1> QED
    BY <1>1, <1>2

(* A command is encrypted and goes out. *)
LEMMA AskKeeps ==
    ASSUME HashGivesBytes, UserInv, NEW a, Running(a), a.sca \in ProofsSet, NEW step \in Nat, NEW word \in Texts,
           Ask(a, step, word)
    PROVE  AppInv(app') /\ app'.pc = "send"
<1> DEFINE ctx == Keys[a.sca.key].client
           seq == a.seq
           pos == a.enc
           e == EncryptAndAuthenticate(ctx, word, seq, pos)
           m == ConstructC(e.out)
           b == [a EXCEPT !.enc = e.pos]
<1>1. Say(b, step, word, m)
    BY Zenon DEF Ask
<1>2. a.sca.key \in Sized(2 * HashLen)
    BY DEF ProofsSet
<1>3. ctx \in SideSet
    BY <1>2, KeysType
<1>4. word \in Seq(Byte) /\ Len(word) \in 1..MaxPacket /\ seq \in Nat
    BY DEF Texts, Running, AppSet
<1> HIDE DEF ctx, seq, pos
<1>5. e.ok
    <2> DEFINE r == AesEncrypt(ctx, word, seq, pos)
    <2>1. r.ok
        <3> DEFINE x == aes_ctr_crypt([block \in Seq(Byte) |-> Cipher(ctx.enc, block)], CustomInc, word,
                                      [iv |-> CounterBlock(ctx.iv, seq), pos |-> StartPos(pos)])
        <3>1. r = [ok |-> TRUE, out |-> x.out, pos |-> x.pos]
            BY <1>4, Zenon DEF AesEncrypt
        <3> HIDE DEF x
        <3> QED
            BY <3>1
    <2>2. r # Failed
        BY <2>1 DEF Failed
    <2>3. \E out \in Seq(Byte), end \in Nat : r = [ok |-> TRUE, out |-> out, pos |-> end]
        BY <1>3, <1>4, <2>2, AesEncryptType
    <2> HIDE DEF r
    <2>4. e = [r EXCEPT !.out = r.out \o Digest(ctx, r.out, seq)]
        BY <2>1 DEF EncryptAndAuthenticate, r
    <2> HIDE DEF e
    <2> QED
        BY <2>3, <2>4
<1>6. e.out \in Seq(Byte) /\ Len(e.out) <= MaxPacket + DigestLen /\ e.pos \in Nat
    BY <1>3, <1>4, <1>5, EncryptType
<1> HIDE DEF e
<1>7. MessageFits(m)
    BY <1>6, ConstructCRBytes
<1> HIDE DEF m
<1>8. Running(b) /\ b.sca \in ProofsSet
    BY <1>6 DEF Running, AppSet
<1> HIDE DEF b
<1> QED
    BY <1>1, <1>7, <1>8, SayKeeps

(* Message A goes out. *)
LEMMA LoginKeeps ==
    ASSUME UserInv, Running(app), NEW address \in Sized(AddressSize), Login(address)
    PROVE  AppInv(app') /\ app'.pc \in {"send", "done"}
<1> DEFINE c == CalculateA(user.a)
           srpA == c.out
           m == ConstructA(user.name, srpA)
           a == [app EXCEPT !.address = address, !.srpA = srpA]
<1>1. IF m.ok THEN Say(a, 1, user.name, m.out) ELSE End(a, "failed")
    BY Zenon DEF Login
<1>2. c.ok
    <2>1. CheckNg /\ user.a # <<>>
        BY WireAssumption DEF WireConstants, UserInv
    <2> QED
        BY <2>1 DEF CalculateA
<1>3. srpA \in Seq(Byte)
    BY <1>2, CalculateAType DEF UserInv
<1> HIDE DEF c, srpA
<1>4. Running(a)
    BY <1>3 DEF Running, AppSet
<1>5. CASE m.ok
    <2> DEFINE one == 1
    <2>1. Say(a, one, user.name, m.out) /\ one \in Nat /\ ~ (one >= 2)
        BY <1>1, <1>5
    <2>2. MessageFits(m.out)
        BY <1>3, <1>5, ConstructABytes DEF UserInv
    <2> HIDE DEF a, m, one
    <2> QED
        BY <1>4, <2>1, <2>2, SayKeeps
<1>6. CASE ~ m.ok
    <2>1. End(a, "failed") /\ "failed" \in Ends \ {"none"}
        BY <1>1, <1>6 DEF Ends
    <2> HIDE DEF a
    <2> QED
        BY <1>4, <2>1, EndKeeps
<1> QED
    BY <1>5, <1>6

(* Message P has come. *)
LEMMA ChallengedKeeps ==
    ASSUME HashGivesBytes, UserInv, NEW a, Running(a), NEW b \in Seq(Byte), Challenged(a, ParseP(b))
    PROVE  AppInv(app') /\ app'.pc \in {"send", "done"}
<1> DEFINE m == ParseP(b)
           how == IF m.error = errUserNotFound THEN "no user" ELSE "failed"
           c == ClientChallenge(m.salt, user.a, a.srpA, m.srpB, user.name, user.password)
           q == ConstructB(c.m1)
           two == 2
<1>1. {"failed", how} \subseteq Ends \ {"none"}
    BY DEF Ends
<1>2. CASE \E x \in {"failed", how} : End(a, x)
    BY <1>1, <1>2, EndKeeps
<1>3. CASE m.ok /\ c.ok /\ q.ok /\ Say([a EXCEPT !.sca = c], two, c.m1, q.out)
    <2>1. m.salt \in Seq(Byte) /\ m.srpB \in Seq(Byte)
        BY <1>3, ParsePType
    <2>2. user.a \in Seq(Byte) /\ user.name \in Seq(Byte) /\ user.password \in Seq(Byte) /\ a.srpA \in Seq(Byte)
        BY DEF UserInv, Running, AppSet
    <2> HIDE DEF m
    <2>3. c \in ProofsSet
        BY <1>3, <2>1, <2>2, ClientChallengeType
    <2> HIDE DEF c
    <2>4. c.m1 \in Seq(Byte)
        BY <2>3 DEF ProofsSet, Sized
    <2>5. MessageFits(q.out)
        BY <1>3, <2>4, ConstructBQBytes
    <2> DEFINE d == [a EXCEPT !.sca = c]
    <2>6. Running(d) /\ d.sca \in ProofsSet
        BY <2>3 DEF Running, AppSet
    <2>7. Say(d, two, c.m1, q.out) /\ two \in Nat
        BY <1>3
    <2> HIDE DEF d, q, two
    <2> QED
        BY <2>5, <2>6, <2>7, SayKeeps
<1>4. \/ \E x \in {"failed", how} : End(a, x)
      \/ m.ok /\ c.ok /\ q.ok /\ Say([a EXCEPT !.sca = c], two, c.m1, q.out)
    <2>1. CASE ~ m.ok
        BY <2>1 DEF Challenged
    <2>2. CASE m.ok /\ m.error # 0
        BY <2>2 DEF Challenged
    <2>3. CASE m.ok /\ ~ (m.error # 0)
        <3>1. IF c.ok /\ q.ok THEN Say([a EXCEPT !.sca = c], two, c.m1, q.out) ELSE End(a, "failed")
            BY <2>3, Zenon DEF Challenged
        <3> HIDE DEF c, q, m, how
        <3> QED
            BY <2>3, <3>1
    <2> QED
        BY <2>1, <2>2, <2>3
<1> QED
    BY <1>2, <1>3, <1>4

(* The first command and the typed ones are texts. *)
LEMMA HostnameText == Hostname \in Texts /\ \A x \in Commands : x \in Texts
BY WireAssumption DEF WireConstants

(* Message Q has come. *)
LEMMA ProvedKeeps ==
    ASSUME HashGivesBytes, UserInv, NEW a, Running(a), a.sca \in ProofsSet, NEW b \in Seq(Byte), Proved(a, ParseQ(b))
    PROVE  AppInv(app') /\ app'.pc \in {"send", "done"}
<1> DEFINE m == ParseQ(b)
           how == IF m.error = errAuthentication THEN "refused" ELSE "failed"
           three == 3
<1>1. {"failed", how} \subseteq Ends \ {"none"}
    BY DEF Ends
<1>2. \/ \E x \in {"failed", how} : End(a, x)
      \/ Ask(a, three, Hostname)
    <2> HIDE DEF m
    <2> QED
        BY DEF Proved, m
<1>3. CASE \E x \in {"failed", how} : End(a, x)
    BY <1>1, <1>3, EndKeeps
<1>4. CASE Ask(a, three, Hostname)
    <2>1. three \in Nat
        OBVIOUS
    <2> HIDE DEF three
    <2> QED
        BY <1>4, <2>1, HostnameText, AskKeeps
<1> QED
    BY <1>2, <1>3, <1>4

(* Message R has come. *)
LEMMA RespondedKeeps ==
    ASSUME HashGivesBytes, NEW a, Running(a), a.step >= 3, app.seq \in Nat, NEW b \in Seq(Byte), Responded(a, ParseR(b))
    PROVE  AppInv(app') /\ app'.pc \in {"prompt", "done"}
<1> DEFINE m == ParseR(b)
           ctx == Keys[a.sca.key].server
           seq == app.seq
           pos == a.dec
           d == DecryptAndVerifyMac(ctx, m.response, seq, pos)
           e == [a EXCEPT !.dec = d.pos]
<1>1. a.step >= 2
    BY DEF Running, AppSet
<1>2. a.sca \in ProofsSet
    BY <1>1 DEF Running
<1>3. \/ Fails(a)
      \/ m.ok /\ End(a, "aborted")
      \/ m.ok /\ d.ok /\ Prompt(e)
    <2>1. CASE ~ m.ok \/ m.error # 0
        BY <2>1 DEF Responded
    <2>2. CASE ~ (~ m.ok \/ m.error # 0)
        <3>1. IF d.ok THEN Prompt(e) ELSE End(a, "aborted")
            BY <2>2, Zenon DEF Responded
        <3> HIDE DEF d, m
        <3> QED
            BY <2>2, <3>1
    <2> QED
        BY <2>1, <2>2
<1>4. CASE Fails(a)
    BY <1>4, FailsKeeps
<1>5. CASE End(a, "aborted")
    <2>1. "aborted" \in Ends \ {"none"}
        BY DEF Ends
    <2> QED
        BY <1>5, <2>1, EndKeeps
<1>6. CASE m.ok /\ d.ok /\ Prompt(e)
    <2>1. m.response \in Seq(Byte)
        BY <1>6, ParseOthersType
    <2>2. a.sca.key \in Sized(2 * HashLen)
        BY <1>2 DEF ProofsSet
    <2>3. ctx \in SideSet /\ seq \in Nat
        BY <2>2, KeysType
    <2> HIDE DEF m, ctx, seq, pos
    <2>4. d.pos \in Nat
        BY <1>6, <2>1, <2>3, DecryptType
    <2> HIDE DEF d
    <2>5. Running(e) /\ e.step >= 3 /\ e.sca \in ProofsSet
        BY <1>2, <2>4 DEF Running, AppSet
    <2> HIDE DEF e
    <2> QED
        BY <1>6, <2>5, PromptKeeps
<1> QED
    BY <1>3, <1>4, <1>5, <1>6

(* The response that is read is a string of bytes. *)
LEMMA BodyBytes ==
    ASSUME ReaderInv(appRd)
    PROVE  Body \in Seq(Byte)
<1> DEFINE b == appRd.acc
           r == RecvData(b)
<1>1. b \in Seq(Byte)
    BY DEF ReaderInv, Reader
<1>2. Body = IF r.ok THEN r.body ELSE <<>>
    BY DEF Body
<1> HIDE DEF b
<1>3. CASE r.ok
    <2>1. r.body \in Seq(Byte)
        BY <1>1, <1>3, RecvDataType
    <2> QED
        BY <1>2, <1>3, <2>1
<1>4. CASE ~ r.ok
    BY <1>2, <1>4, NoBytes
<1> QED
    BY <1>3, <1>4

(* A program that has not ended has no reason to. *)
LEMMA GoesOn ==
    ASSUME AppInv(app), app.pc # "done"
    PROVE  Running(app)
BY DEF AppInv, Running, AppSet

(* The node has registered a port. *)
LEMMA PortAnswerKeeps ==
    ASSUME AppInv(app), ReaderInv(appRd), PortAnswer
    PROVE  AppInv(app')
<1> DEFINE b == Body
           r == PortResult(b)
<1>1. /\ app.pc = "port"
      /\ app' = IF r.ok /\ r.port # 0 THEN [app EXCEPT !.pc = "addresses", !.port = r.port]
                ELSE [app EXCEPT !.pc = "done", !.out = "no port"]
    BY DEF PortAnswer
<1>2. b \in Seq(Byte)
    BY BodyBytes
<1> HIDE DEF b
<1>3. r.ok => r.port \in Nat
    BY <1>2, PortResultType
<1> HIDE DEF r
<1>4. Running(app)
    BY <1>1, GoesOn
<1>5. CASE r.ok /\ r.port # 0
    <2>1. app' = [app EXCEPT !.pc = "addresses", !.port = r.port]
        BY <1>1, <1>5
    <2> QED
        BY <1>3, <1>4, <1>5, <2>1 DEF Running, AppSet, AppInv
<1>6. CASE ~ (r.ok /\ r.port # 0)
    <2>1. app' = [app EXCEPT !.pc = "done", !.out = "no port"]
        BY <1>1, <1>6
    <2> QED
        BY <1>4, <2>1 DEF Running, AppSet, AppInv, Ends
<1> QED
    BY <1>5, <1>6

(* The node has named its addresses. *)
LEMMA AddressesAnswerKeeps ==
    ASSUME UserInv, AppInv(app), ReaderInv(appRd), AddressesAnswer
    PROVE  AppInv(app')
<1> DEFINE b == Body
           r == AddressesResult(b)
<1>1. app.pc = "addresses" /\ IF r.ok /\ r.list # <<>> THEN Login(r.list[1]) ELSE End(app, "no address")
    BY DEF AddressesAnswer
<1>2. b \in Seq(Byte)
    BY BodyBytes
<1> HIDE DEF b
<1>3. r.ok => r.list \in Seq(Sized(AddressSize))
    BY <1>2, AddressesType
<1> HIDE DEF r
<1>4. Running(app)
    BY <1>1, GoesOn
<1>5. CASE r.ok /\ r.list # <<>>
    <2> DEFINE l == r.list
               address == l[1]
    <2>1. address \in Sized(AddressSize) /\ Login(address)
        <3>1. l \in Seq(Sized(AddressSize)) /\ l # <<>> /\ Login(address)
            BY <1>1, <1>3, <1>5
        <3> HIDE DEF l
        <3>2. 1 \in 1..Len(l)
            BY <3>1, EmptySeq, LenProperties
        <3> QED
            BY <3>1, <3>2, ElementOfSeq
    <2> HIDE DEF address
    <2> QED
        BY <1>4, <2>1, LoginKeeps
<1>6. CASE ~ (r.ok /\ r.list # <<>>)
    <2>1. End(app, "no address") /\ "no address" \in Ends \ {"none"}
        BY <1>1, <1>6 DEF Ends
    <2> QED
        BY <1>4, <2>1, EndKeeps
<1> QED
    BY <1>5, <1>6

(* A capsule has come, or none in time; every message of the session arrives here. *)
LEMMA CapsuleAnswerKeeps ==
    ASSUME HashGivesBytes, UserInv, AppInv(app), ReaderInv(appRd), CapsuleAnswer
    PROVE  AppInv(app')
<1> DEFINE b == Body
           c == WaitResult(b)
           p == ParsePacket(Drop(c.data, 4))
           a == [app EXCEPT !.seq = @ + 1]
           l == p.payload
<1>1. /\ app.pc = "wait"
      /\ \/ Again \/ Fails(app)
         \/ /\ c.ok /\ p.ok
            /\ \/ app.step = 1 /\ Challenged(a, ParseP(l))
               \/ app.step = 2 /\ Proved(a, ParseQ(l))
               \/ app.step > 2 /\ Responded(a, ParseR(l))
    <2>1. app.pc = "wait"
        BY DEF CapsuleAnswer
    <2>2. IF ~c.ok \/ ~FromServer(c) THEN Again
          ELSE IF ~p.ok THEN Fails(app)
          ELSE IF p.seq # app.seq THEN Again
          ELSE \/ app.step = 1 /\ Challenged(a, ParseP(l))
               \/ app.step = 2 /\ Proved(a, ParseQ(l))
               \/ app.step > 2 /\ Responded(a, ParseR(l))
        BY Zenon DEF CapsuleAnswer
    <2> HIDE DEF c, p, a
    <2> QED
        BY <2>1, <2>2
<1>2. b \in Seq(Byte)
    BY BodyBytes
<1>3. Running(app)
    BY <1>1, GoesOn
<1> HIDE DEF b
<1>4. CASE Again
    BY <1>3, <1>4, AgainKeeps
<1>5. CASE Fails(app)
    BY <1>3, <1>5, FailsKeeps
<1>6. CASE c.ok /\ p.ok
    <2>1. c \in CapsuleSet
        BY <1>2, <1>6, WaitResultType
    <2> DEFINE four == 4
               data == c.data
    <2>2. data \in Seq(Byte) /\ four \in Nat
        BY <2>1 DEF CapsuleSet
    <2> HIDE DEF data, four, c
    <2>3. Drop(data, four) \in Seq(Byte)
        BY <2>2, DropBytes
    <2>4. Drop(c.data, 4) \in Seq(Byte)
        BY <2>3 DEF data, four
    <2>5. l \in Seq(Byte)
        BY <1>6, <2>4, ParsePacketType
    <2> HIDE DEF p, l
    <2>6. Running(a) /\ a.step = app.step /\ a.step \in Nat /\ app.seq \in Nat
        BY <1>3, SMTT(30) DEF Running, AppSet
    <2> HIDE DEF a
    <2>7. CASE Challenged(a, ParseP(l))
        BY <2>5, <2>6, <2>7, ChallengedKeeps
    <2>8. CASE app.step = 2 /\ Proved(a, ParseQ(l))
        <3>1. a.sca \in ProofsSet
            BY <2>6, <2>8 DEF Running
        <3> QED
            BY <2>5, <2>6, <2>8, <3>1, ProvedKeeps
    <2>9. CASE app.step > 2 /\ Responded(a, ParseR(l))
        <3>1. a.step >= 3
            BY <2>6, <2>9
        <3> QED
            BY <2>5, <2>6, <2>9, <3>1, RespondedKeeps
    <2>10. CASE Again
        BY <1>4, <2>10
    <2>11. CASE Fails(app)
        BY <1>5, <2>11
    <2> QED
        BY <1>1, <2>7, <2>8, <2>9, <2>10, <2>11 DEF l
<1> HIDE DEF c, p, a, l
<1> QED
    BY <1>1, <1>4, <1>5, <1>6

(* The node is gone in the middle of a call. *)
LEMMA CallFailsKeeps ==
    ASSUME UserInv, AppInv(app), CallFails
    PROVE  AppInv(app')
<1>1. \/ app.pc = "port" /\ End(app, "no port")
      \/ app.pc = "addresses" /\ (Login(Zeros(AddressSize)) \/ End(app, "crashed"))
      \/ app.pc = "send" /\ Fails(app)
      \/ app.pc = "wait" /\ Again
    BY DEF CallFails
<1>2. Running(app)
    BY <1>1, GoesOn
<1>3. {"no port", "crashed"} \subseteq Ends \ {"none"}
    BY DEF Ends
<1>4. Zeros(AddressSize) \in Sized(AddressSize)
    <2> DEFINE n == AddressSize
    <2>1. n \in Int /\ n >= 0
        BY Sizes
    <2> HIDE DEF n
    <2>2. Zeros(n) \in Seq(Byte) /\ Len(Zeros(n)) = n
        BY <2>1, ZerosBytes
    <2> QED
        BY <2>2 DEF Sized, n
<1>5. CASE Login(Zeros(AddressSize))
    BY <1>2, <1>4, <1>5, LoginKeeps
<1>6. CASE \E x \in {"no port", "crashed"} : End(app, x)
    BY <1>2, <1>3, <1>6, EndKeeps
<1>7. CASE Fails(app)
    BY <1>2, <1>7, FailsKeeps
<1>8. CASE Again
    BY <1>2, <1>8, AgainKeeps
<1> QED
    BY <1>1, <1>5, <1>6, <1>7, <1>8

(* A command is typed. *)
LEMMA UserCommandKeeps ==
    ASSUME HashGivesBytes, UserInv, AppInv(app), UserCommand
    PROVE  AppInv(app')
<1> DEFINE step == app.step
<1>1. app.pc = "prompt" /\ \E word \in Commands : Ask(app, step, word)
    BY DEF UserCommand
<1>2. Running(app) /\ step >= 3 /\ step \in Nat
    BY <1>1, GoesOn DEF AppInv, AppSet
<1>3. app.sca \in ProofsSet
    BY <1>2 DEF Running
<1>4. PICK word \in Commands : Ask(app, step, word)
    BY <1>1
<1>5. word \in Texts
    BY HostnameText
<1> HIDE DEF step
<1> QED
    BY <1>2, <1>3, <1>4, <1>5, AskKeeps

(* exit is typed. *)
LEMMA ExitKeeps ==
    ASSUME AppInv(app), Exit
    PROVE  AppInv(app')
<1>1. app.pc = "prompt" /\ End(app, "exit") /\ "exit" \in Ends \ {"none"}
    BY DEF Exit, Ends
<1> QED
    BY <1>1, GoesOn, EndKeeps

(* Every action of the client. *)
ClientStep ==
    \/ AskPort \/ AskAddresses \/ SendCapsule \/ AskCapsule \/ AppReads \/ AppReadFails
    \/ PortAnswer \/ AddressesAnswer \/ CapsuleAnswer \/ CallFails
    \/ UserCommand \/ Exit

(* They all keep the part of the client. *)
LEMMA ClientStepKeeps ==
    ASSUME HashGivesBytes, Kept, ClientStep
    PROVE  UserInv' /\ AppInv(app)' /\ CallerInv'
<1>1. UserInv /\ AppInv(app) /\ CallerInv /\ ReaderInv(appRd)
    BY DEF Kept
<1>2. UserInv'
    <2>1. user' = user
        BY DEF ClientStep, AskPort, AskAddresses, SendCapsule, AskCapsule, AppReads, AppReadFails, PortAnswer,
               AddressesAnswer, CapsuleAnswer, CallFails, UserCommand, Exit, ClientOnly
    <2> QED
        BY <1>1, <2>1 DEF UserInv
<1>3. CASE AskPort \/ AskAddresses \/ AskCapsule
    <2>1. app' = app /\ \/ app.pc = "port" /\ pending' = fRegisterEphemeral
                        \/ app.pc = "addresses" /\ pending' = fGetAddresses
                        \/ app.pc = "wait" /\ pending' = fWaitForCapsule
        BY <1>3 DEF AskPort, AskAddresses, AskCapsule, Call
    <2> QED
        BY <1>1, <1>2, <2>1 DEF CallerInv
<1>4. CASE AppReads
    BY <1>1, <1>2, <1>4 DEF AppReads, CallerInv
<1>5. CASE SendCapsule
    <2>1. app.pc = "send" /\ pending' = pending /\ app' = [app EXCEPT !.pc = "wait"]
        BY <1>5 DEF SendCapsule
    <2>2. pending = 0
        BY <1>1, <2>1 DEF CallerInv
    <2>3. AppInv(app')
        <3>1. Running(app)
            BY <1>1, <2>1, GoesOn
        <3> QED
            BY <2>1, <3>1 DEF Running, AppSet, AppInv
    <2> QED
        BY <1>2, <2>1, <2>2, <2>3 DEF CallerInv
<1>6. CASE AppReadFails
    <2>1. app' = [app EXCEPT !.pc = "done", !.out = "crashed"] /\ pending' = 0
        BY <1>6 DEF AppReadFails
    <2>2. app.pc # "done"
        BY <1>1, <1>6 DEF AppReadFails, CallerInv
    <2>3. Running(app)
        BY <1>1, <2>2, GoesOn
    <2>4. AppInv(app')
        BY <2>1, <2>3 DEF Running, AppSet, AppInv, Ends
    <2> QED
        BY <1>2, <2>1, <2>4 DEF CallerInv
<1>7. CASE PortAnswer
    BY <1>1, <1>2, <1>7, PortAnswerKeeps DEF PortAnswer, CallerInv
<1>8. CASE AddressesAnswer
    BY <1>1, <1>2, <1>8, AddressesAnswerKeeps DEF AddressesAnswer, CallerInv
<1>9. CASE CapsuleAnswer
    <2>1. pending' = 0
        BY <1>9 DEF CapsuleAnswer
    <2> QED
        BY <1>1, <1>2, <1>9, <2>1, CapsuleAnswerKeeps DEF CallerInv
<1>10. CASE CallFails
    <2>1. pending' = 0
        BY <1>10 DEF CallFails
    <2> QED
        BY <1>1, <1>2, <1>10, <2>1, CallFailsKeeps DEF CallerInv
<1>11. CASE UserCommand \/ Exit
    <2>1. app.pc = "prompt" /\ pending' = pending
        BY <1>11 DEF UserCommand, Exit
    <2>2. pending = 0
        BY <1>1, <2>1 DEF CallerInv
    <2>3. AppInv(app')
        BY <1>1, <1>11, UserCommandKeeps, ExitKeeps
    <2> QED
        BY <1>2, <2>1, <2>2, <2>3 DEF CallerInv
<1> QED
    BY <1>3, <1>4, <1>5, <1>6, <1>7, <1>8, <1>9, <1>10, <1>11 DEF ClientStep

-----------------------------------------------------------------------------
(* The server. *)
LEMMA SendBackKeeps ==
    ASSUME NEW b \in Seq(Byte), Len(b) + 6 <= MaxNumber, queue \in Seq(FittingSet), lost \in 0..MaxLost, SendBack(b)
    PROVE  queue' \in Seq(FittingSet) /\ lost' \in 0..MaxLost
<1> DEFINE c == UnpackCapsule(b)
<1>1. \/ queue' = (IF Arrives(c) THEN Append(queue, c) ELSE queue) /\ lost' = lost
      \/ lost < MaxLost /\ lost' = lost + 1 /\ queue' = queue
    BY Zenon DEF SendBack
<1>2. c = Failed \/ (c \in CapsuleSet /\ HeaderSize + Len(c.data) = Len(b))
    BY UnpackType
<1>3. MaxLost \in Nat
    BY WireFacts
<1> HIDE DEF c
<1>4. Arrives(c) => c \in FittingSet
    <2>1. Failed.ok = FALSE
        BY DEF Failed
    <2>2. Arrives(c) => c # Failed
        BY <2>1 DEF Arrives
    <2> QED
        BY <1>2, <2>2 DEF FittingSet, Fitting
<1>5. Arrives(c) => Append(queue, c) \in Seq(FittingSet)
    BY <1>4
<1>6. queue' \in Seq(FittingSet)
    BY <1>1, <1>5, Zenon
<1>7. lost' \in 0..MaxLost
    BY <1>1, <1>3
<1> QED
    BY <1>6, <1>7

(* The server dies. *)
LEMMA ExitsKeeps ==
    ASSUME ServerInv(server), queue \in Seq(FittingSet), lost \in 0..MaxLost, Exits
    PROVE  ServerInv(server') /\ queue' \in Seq(FittingSet) /\ lost' \in 0..MaxLost
<1>1. queue' = queue /\ lost' = lost /\ server' = [server EXCEPT !.up = FALSE]
    BY DEF Exits
<1>2. ServerInv(server')
    BY <1>1 DEF ServerInv, ServerSet
<1> QED
    BY <1>1, <1>2

(* What a response is built from leaves all but the number and the kept response as they were. *)
Session(s) == s \in ServerSet /\ (s.state # "ZERO" => s.ver \in ProofsSet)

(* A response is packed, kept and sent. *)
LEMMA ReplyKeeps ==
    ASSUME UserInv, queue \in Seq(FittingSet), lost \in 0..MaxLost, server.seq \in Nat \ {0},
           NEW c \in CapsuleSet, PortsDS(c).ok, NEW session, Session(session), NEW request, NEW message,
           MessageFits(message), NEW text, Reply(c, session, request, message, text)
    PROVE  ServerInv(server') /\ queue' \in Seq(FittingSet) /\ lost' \in 0..MaxLost
<1> DEFINE seq == server.seq
           dst == c.src
           port == PortsDS(c).src
           b == PackCapsule(DSCapsule(dst, ServerAddress, port, ServerPort, Packet(seq, message), user.junk))
<1>1. server' = [session EXCEPT !.seq = seq + 1, !.last = b] /\ SendBack(b)
    BY Zenon DEF Reply
<1>2. seq \in Nat /\ dst \in Sized(AddressSize) /\ port \in Nat
    BY PortsType DEF CapsuleSet
<1>3. ServerAddress \in Sized(AddressSize) /\ ServerPort \in Nat
    BY ServerAddressType, WireFacts
<1>4. user.junk.hop \in Nat /\ user.junk.dx \in BOOLEAN /\ user.junk.appId \in Sized(HashSize)
    BY DEF UserInv
<1> HIDE DEF dst, port
<1>5. b \in Seq(Byte) /\ Len(b) + 6 <= MaxNumber
    <2> HIDE DEF seq
    <2> DEFINE d == PackCapsule(DSCapsule(dst, ServerAddress, port, ServerPort, Packet(seq, message), user.junk))
    <2>1. d \in Seq(Byte) /\ Len(d) + 6 <= MaxNumber
        BY <1>2, <1>3, <1>4, RequestBytes
    <2> QED
        BY <2>1 DEF seq
<1> HIDE DEF b
<1>6. queue' \in Seq(FittingSet) /\ lost' \in 0..MaxLost
    BY <1>1, <1>5, SendBackKeeps
<1>7. seq + 1 \in Nat \ {0}
    BY <1>2
<1> HIDE DEF seq
<1>8. ServerInv(server')
    BY <1>1, <1>5, <1>7 DEF Session, ServerSet, ServerInv
<1> QED
    BY <1>6, <1>8

(* A session that starts again is one. *)
LEMMA ResetSession ==
    ASSUME ServerInv(server)
    PROVE  /\ ResetState \in ServerSet /\ Session(ResetState)
           /\ Session(server) /\ server \in ServerSet /\ server.seq \in Nat \ {0} /\ server.last \in Seq(Byte)
           /\ Len(server.last) + 6 <= MaxNumber
BY DEF ResetState, ServerInv, ServerSet, Session, Failed

(* Message A, in the state ZERO. *)
LEMMA ZeroKeeps ==
    ASSUME HashGivesBytes, UserInv, ServerInv(server), queue \in Seq(FittingSet), lost \in 0..MaxLost,
           NEW c \in CapsuleSet, PortsDS(c).ok, NEW l \in Seq(Byte), Zero(c, ParseA(l))
    PROVE  ServerInv(server') /\ queue' \in Seq(FittingSet) /\ lost' \in 0..MaxLost
<1> DEFINE m == ParseA(l)
           name == IF m.ok THEN m.user ELSE <<>>
           salt == Db[name].salt
<1>1. \/ RefuseP(c, name, errUserNotFound)
      \/ /\ name \in DOMAIN Db
         /\ \E b \in SecretsB : \E ver \in {GetVerificator(Db, name, m.srpA, b)} :
               IF ~ver.ok THEN RefuseP(c, name, errSrp)
               ELSE IF ConstructPSuccess(salt, ver.srpB).ok
                    THEN Reply(c, [ResetState EXCEPT !.state = "ALPHA", !.ver = ver], name,
                               ConstructPSuccess(salt, ver.srpB).out, ver.srpB)
                    ELSE Exits
    BY Zenon DEF Zero
<1>2. m.ok => m.srpA \in Seq(Byte)
    BY ParseAType
<1>3. name \in DOMAIN Db => name \in Seq(Byte) /\ name # <<>> /\ salt \in Seq(Byte) /\ Db[name].verificator \in Seq(Byte)
    BY DbType
<1>4. ~ m.ok => name = <<>>
    BY Zenon
<1> HIDE DEF m, name
<1>5. ASSUME NEW e \in {errUserNotFound, errSrp}, RefuseP(c, name, e)
      PROVE  ServerInv(server') /\ queue' \in Seq(FittingSet) /\ lost' \in 0..MaxLost
    <2> DEFINE message == ConstructFail(mP, e).out
    <2>1. e \in Byte
        BY SmallBytes DEF errUserNotFound, errSrp
    <2>2. MessageFits(message)
        BY <2>1, ConstructFailBytes
    <2> HIDE DEF message
    <2>3. Reply(c, ResetState, name, message, <<e>>)
        BY <1>5 DEF RefuseP, message
    <2> QED
        BY <2>2, <2>3, ResetSession, ReplyKeeps
<1>6. ASSUME NEW b \in SecretsB, NEW ver, ver = GetVerificator(Db, name, m.srpA, b), ver.ok, name \in DOMAIN Db,
             ConstructPSuccess(salt, ver.srpB).ok,
             Reply(c, [ResetState EXCEPT !.state = "ALPHA", !.ver = ver], name,
                   ConstructPSuccess(salt, ver.srpB).out, ver.srpB)
      PROVE  ServerInv(server') /\ queue' \in Seq(FittingSet) /\ lost' \in 0..MaxLost
    <2> DEFINE message == ConstructPSuccess(salt, ver.srpB).out
               session == [ResetState EXCEPT !.state = "ALPHA", !.ver = ver]
               srpA == m.srpA
               v == Db[name].verificator
    <2>1. b \in Seq(Byte)
        BY WireAssumption DEF WireConstants
    <2>2. salt \in Seq(Byte) /\ v \in Seq(Byte) /\ name \in Seq(Byte) /\ srpA \in Seq(Byte)
        BY <1>2, <1>3, <1>4, <1>6
    <2>3. ver = ServerChallenge(name, salt, v, srpA, b)
        BY <1>6, Zenon DEF GetVerificator
    <2> HIDE DEF srpA, v, salt
    <2>4. ver \in ProofsSet
        BY <1>6, <2>1, <2>2, <2>3, ServerChallengeType
    <2>5. ver.srpB \in Seq(Byte)
        BY <2>4 DEF ProofsSet
    <2>6. MessageFits(message)
        BY <1>6, <2>2, <2>5, ConstructPBytes
    <2> HIDE DEF message
    <2>7. Session(session)
        BY <2>4, ResetSession DEF Session, ServerSet
    <2> HIDE DEF session
    <2>8. Reply(c, session, name, message, ver.srpB)
        BY <1>6 DEF session, message
    <2> QED
        BY <2>6, <2>7, <2>8, ResetSession, ReplyKeeps
<1>7. CASE RefuseP(c, name, errUserNotFound)
    BY <1>5, <1>7
<1>8. CASE \E b \in SecretsB : name \in DOMAIN Db /\ \E ver \in {GetVerificator(Db, name, m.srpA, b)} :
               IF ~ver.ok THEN RefuseP(c, name, errSrp)
               ELSE IF ConstructPSuccess(salt, ver.srpB).ok
                    THEN Reply(c, [ResetState EXCEPT !.state = "ALPHA", !.ver = ver], name,
                               ConstructPSuccess(salt, ver.srpB).out, ver.srpB)
                    ELSE Exits
    <2>0. PICK b \in SecretsB : name \in DOMAIN Db /\ \E ver \in {GetVerificator(Db, name, m.srpA, b)} :
               IF ~ver.ok THEN RefuseP(c, name, errSrp)
               ELSE IF ConstructPSuccess(salt, ver.srpB).ok
                    THEN Reply(c, [ResetState EXCEPT !.state = "ALPHA", !.ver = ver], name,
                               ConstructPSuccess(salt, ver.srpB).out, ver.srpB)
                    ELSE Exits
        BY <1>8, Zenon
    <2>1. PICK ver : ver = GetVerificator(Db, name, m.srpA, b) /\ name \in DOMAIN Db /\
               IF ~ver.ok THEN RefuseP(c, name, errSrp)
               ELSE IF ConstructPSuccess(salt, ver.srpB).ok
                    THEN Reply(c, [ResetState EXCEPT !.state = "ALPHA", !.ver = ver], name,
                               ConstructPSuccess(salt, ver.srpB).out, ver.srpB)
                    ELSE Exits
        BY <2>0, Zenon
    <2>2. CASE ~ ver.ok
        BY <1>5, <2>1, <2>2
    <2>3. CASE ver.ok /\ ConstructPSuccess(salt, ver.srpB).ok
        BY <1>6, <2>1, <2>3, Zenon
    <2>4. CASE Exits
        BY <2>4, ExitsKeeps
    <2> QED
        BY <2>1, <2>2, <2>3, <2>4, Zenon
<1> QED
    BY <1>1, <1>7, <1>8, Zenon

(* Message B, in the state ALPHA. *)
LEMMA AlphaKeeps ==
    ASSUME UserInv, ServerInv(server), queue \in Seq(FittingSet), lost \in 0..MaxLost,
           NEW c \in CapsuleSet, PortsDS(c).ok, NEW m, Alpha(c, m)
    PROVE  ServerInv(server') /\ queue' \in Seq(FittingSet) /\ lost' \in 0..MaxLost
<1> DEFINE m2 == server.ver.m2
<1>1. /\ server.state = "ALPHA"
      /\ \/ RefuseQ(c, <<>>, errParsing)
         \/ RefuseQ(c, m.m1, errAuthentication)
         \/ ConstructQSuccess(m2).ok /\ Reply(c, [server EXCEPT !.state = "BETA"], m.m1, ConstructQSuccess(m2).out, m2)
         \/ Exits
    <2>1. /\ server.state = "ALPHA"
          /\ IF ~m.ok THEN RefuseQ(c, <<>>, errParsing)
             ELSE IF ~Authenticates(server.ver, m.m1) THEN RefuseQ(c, m.m1, errAuthentication)
             ELSE IF ConstructQSuccess(m2).ok
                  THEN Reply(c, [server EXCEPT !.state = "BETA"], m.m1, ConstructQSuccess(m2).out, m2)
                  ELSE Exits
        BY Zenon DEF Alpha
    <2> QED
        BY <2>1, Zenon
<1>2. server.ver \in ProofsSet
    BY <1>1 DEF ServerInv
<1>3. ASSUME NEW e \in {errParsing, errAuthentication}, NEW text, RefuseQ(c, text, e)
      PROVE  ServerInv(server') /\ queue' \in Seq(FittingSet) /\ lost' \in 0..MaxLost
    <2> DEFINE message == ConstructFail(mQ, e).out
    <2>1. e \in Byte
        BY SmallBytes DEF errParsing, errAuthentication
    <2>2. MessageFits(message)
        BY <2>1, ConstructFailBytes
    <2> HIDE DEF message
    <2>3. Reply(c, ResetState, text, message, <<e>>)
        BY <1>3 DEF RefuseQ, message
    <2> QED
        BY <2>2, <2>3, ResetSession, ReplyKeeps
<1>4. CASE ConstructQSuccess(m2).ok /\ Reply(c, [server EXCEPT !.state = "BETA"], m.m1, ConstructQSuccess(m2).out, m2)
    <2> DEFINE message == ConstructQSuccess(m2).out
               session == [server EXCEPT !.state = "BETA"]
    <2>1. m2 \in Seq(Byte)
        BY <1>2 DEF ProofsSet, Sized
    <2>2. Session(session)
        BY <1>2, ResetSession DEF Session, ServerSet
    <2> HIDE DEF m2, session
    <2>3. MessageFits(message)
        BY <1>4, <2>1, ConstructBQBytes
    <2> HIDE DEF message
    <2>4. Reply(c, session, m.m1, message, m2)
        BY <1>4 DEF message, session
    <2> QED
        BY <2>2, <2>3, <2>4, ResetSession, ReplyKeeps
<1>5. CASE Exits
    BY <1>5, ExitsKeeps
<1>6. CASE RefuseQ(c, <<>>, errParsing)
    BY <1>3, <1>6
<1>7. CASE RefuseQ(c, m.m1, errAuthentication)
    BY <1>3, <1>7
<1> QED
    BY <1>1, <1>4, <1>5, <1>6, <1>7

(* What a command is answered with is a string of bytes. *)
LEMMA ResponsesBytes ==
    ASSUME ParameterGivesBytes, NEW word \in Seq(Byte), NEW r \in ApplicationResponses(word)
    PROVE  r \in Seq(Byte)
<1>1. ShellVersion \in Seq(Byte) /\ UnknownCommand \in Seq(Byte)
    BY WireAssumption DEF WireConstants
<1>2. Parameter(word) \in Seq(Byte) /\ <<>> \in Seq(Byte)
    BY DEF ParameterGivesBytes
<1>3. \E p \in {Parameter(word), <<>>} :
          r = IF word = Version THEN p \o ShellVersion ELSE IF p = <<>> THEN UnknownCommand ELSE p
    BY Zenon DEF ApplicationResponses
<1>4. PICK p \in {Parameter(word), <<>>} :
          r = IF word = Version THEN p \o ShellVersion ELSE IF p = <<>> THEN UnknownCommand ELSE p
    BY <1>3, Zenon
<1>5. p \in Seq(Byte)
    BY <1>2
<1>6. p \o ShellVersion \in Seq(Byte)
    BY <1>1, <1>5, ConcatSize
<1> QED
    BY <1>1, <1>4, <1>5, <1>6, Zenon

(* Message C, in the state BETA. *)
LEMMA BetaKeeps ==
    ASSUME HashGivesBytes, ParameterGivesBytes, UserInv, ServerInv(server), queue \in Seq(FittingSet), lost \in 0..MaxLost,
           NEW c \in CapsuleSet, PortsDS(c).ok, NEW l \in Seq(Byte), Beta(c, ParseC(l))
    PROVE  ServerInv(server') /\ queue' \in Seq(FittingSet) /\ lost' \in 0..MaxLost
<1> DEFINE m == ParseC(l)
           keys == Keys[server.ver.key]
           seq == server.seq
           x == keys.client
           y == keys.server
           d == DecryptAndVerifyMac(x, m.request, seq, server.dec)
           e(r) == EncryptAndAuthenticate(y, r, seq, server.enc)
           session(r) == [server EXCEPT !.dec = d.pos, !.enc = e(r).pos]
<1>1. /\ server.state = "BETA"
      /\ \/ Exits
         \/ m.ok /\ d.ok /\ \E r \in ApplicationResponses(d.out) :
                e(r).ok /\ Reply(c, session(r), d.out, ConstructR(e(r).out, 0), r)
    <2>1. /\ server.state = "BETA"
          /\ IF ~m.ok \/ m.request = <<>> THEN Exits
             ELSE IF ~d.ok THEN Exits
             ELSE \E r \in ApplicationResponses(d.out) :
                    IF e(r).ok THEN Reply(c, session(r), d.out, ConstructR(e(r).out, 0), r) ELSE Exits
        BY Zenon DEF Beta
    <2> HIDE DEF m, keys, d, e, session
    <2> QED
        BY <2>1, Zenon
<1>2. server.ver \in ProofsSet
    BY <1>1 DEF ServerInv
<1>3. server.ver.key \in Sized(2 * HashLen)
    BY <1>2 DEF ProofsSet
<1>4. x \in SideSet /\ y \in SideSet
    BY <1>3, KeysType
<1>5. seq \in Nat
    BY DEF ServerInv, ServerSet
<1>6. m.ok => m.request \in Seq(Byte)
    BY ParseOthersType
<1>7. m.ok /\ d.ok => d.out \in Seq(Byte) /\ d.pos \in Nat
    <2> HIDE DEF x, m, seq
    <2> QED
        BY <1>4, <1>5, <1>6, DecryptType
<1> HIDE DEF m, d
<1>8. ASSUME m.ok, d.ok, NEW r \in ApplicationResponses(d.out), e(r).ok,
             Reply(c, session(r), d.out, ConstructR(e(r).out, 0), r)
      PROVE  ServerInv(server') /\ queue' \in Seq(FittingSet) /\ lost' \in 0..MaxLost
    <2> DEFINE w == e(r)
               message == ConstructR(w.out, 0)
               s == session(r)
    <2>1. r \in Seq(Byte)
        BY <1>7, <1>8, ResponsesBytes
    <2>2. w.out \in Seq(Byte) /\ Len(w.out) <= MaxPacket + DigestLen /\ w.pos \in Nat
        <3> HIDE DEF y, seq
        <3> QED
            BY <1>4, <1>5, <1>8, <2>1, EncryptType
    <2>3. s = [server EXCEPT !.dec = d.pos, !.enc = w.pos]
        OBVIOUS
    <2>4. Reply(c, s, d.out, message, r)
        BY <1>8
    <2> HIDE DEF w, s
    <2>5. MessageFits(message)
        BY <2>2, ConstructCRBytes
    <2> HIDE DEF message
    <2>6. Session(s)
        BY <1>2, <1>7, <1>8, <2>2, <2>3, ResetSession DEF Session, ServerSet
    <2> QED
        BY <2>4, <2>5, <2>6, ResetSession, ReplyKeeps
<1>9. CASE Exits
    BY <1>9, ExitsKeeps
<1> HIDE DEF e, session
<1> QED
    BY <1>1, <1>8, <1>9

(* The other programs' part of the state, without the streams. *)
LEMMA ServeKeeps ==
    ASSUME HashGivesBytes, ParameterGivesBytes, UserInv, ServerInv(server), queue \in Seq(FittingSet),
           net \in Seq(CapsuleSet), lost \in 0..MaxLost, Serve
    PROVE  ServerInv(server') /\ queue' \in Seq(FittingSet) /\ lost' \in 0..MaxLost /\ net' \in Seq(CapsuleSet)
<1> DEFINE c == WaitResult(WaitFound(Head(net)))
           p == ParsePacket(Drop(c.data, 4))
           l == p.payload
<1>1. /\ net # <<>> /\ net' = Tail(net)
      /\ \/ Exits
         \/ PortsDS(c).ok /\ p.ok /\ SendBack(server.last) /\ server' = server
         \/ /\ PortsDS(c).ok /\ p.ok
            /\ Zero(c, ParseA(l)) \/ Alpha(c, ParseB(l)) \/ Beta(c, ParseC(l))
    <2>1. /\ net # <<>> /\ net' = Tail(net)
          /\ IF ~PortsDS(c).ok THEN Exits
             ELSE IF ~p.ok THEN Exits
             ELSE IF p.seq # server.seq THEN SendBack(server.last) /\ UNCHANGED <<server, heard, told>>
             ELSE Zero(c, ParseA(l)) \/ Alpha(c, ParseB(l)) \/ Beta(c, ParseC(l))
        BY Zenon DEF Serve
    <2> HIDE DEF c, p, l
    <2>2. SendBack(server.last) /\ UNCHANGED <<server, heard, told>> => SendBack(server.last) /\ server' = server
        OBVIOUS
    <2> QED
        BY <2>1, <2>2, Zenon
<1>2. net' \in Seq(CapsuleSet) /\ Head(net) \in CapsuleSet
    BY <1>1, HeadTailProperties
<1>3. c \in CapsuleSet
    BY <1>2, WaitFoundResult
<1> DEFINE four == 4
           data == c.data
<1>4. data \in Seq(Byte) /\ four \in Nat
    BY <1>3 DEF CapsuleSet
<1> HIDE DEF data, four, c
<1>5. Drop(data, four) \in Seq(Byte)
    BY <1>4, DropBytes
<1>6. Drop(c.data, 4) \in Seq(Byte)
    BY <1>5 DEF data, four
<1>7. p.ok => l \in Seq(Byte)
    BY <1>6, ParsePacketType
<1> HIDE DEF p, l
<1>8. CASE Exits
    BY <1>2, <1>8, ExitsKeeps
<1>9. CASE PortsDS(c).ok /\ p.ok /\ SendBack(server.last) /\ server' = server
    <2>1. queue' \in Seq(FittingSet) /\ lost' \in 0..MaxLost
        BY <1>9, ResetSession, SendBackKeeps
    <2> QED
        BY <1>2, <1>9, <2>1
<1>10. CASE PortsDS(c).ok /\ p.ok /\ Zero(c, ParseA(l))
    BY <1>2, <1>3, <1>7, <1>10, ZeroKeeps
<1>11. CASE PortsDS(c).ok /\ p.ok /\ Alpha(c, ParseB(l))
    BY <1>2, <1>3, <1>11, AlphaKeeps
<1>12. CASE PortsDS(c).ok /\ p.ok /\ Beta(c, ParseC(l))
    BY <1>2, <1>3, <1>7, <1>12, BetaKeeps
<1> QED
    BY <1>1, <1>8, <1>9, <1>10, <1>11, <1>12

-----------------------------------------------------------------------------
(* What is left to be done of a list of calls. *)
Behind(s, e) == SubSeq(s, e + 1, Len(s))

(* What is behind the first e calls. *)
LEMMA BehindType ==
    ASSUME NEW s \in Seq(FunctionIds), NEW e \in 0..Len(s)
    PROVE  /\ Behind(s, e) \in Seq(FunctionIds) /\ Len(Behind(s, e)) = Len(s) - e
           /\ \A i \in 1..(Len(s) - e) : Behind(s, e)[i] = s[e + i]
<1> DEFINE m == e + 1
           n == Len(s)
<1>1. m \in Int /\ n \in Int /\ e \in Nat /\ n \in Nat /\ e <= n
    BY LenProperties
<1>2. \A i \in m..n : s[i] \in FunctionIds
    BY ElementOfSeq
<1>3. /\ SubSeq(s, m, n) \in Seq(FunctionIds) /\ Len(SubSeq(s, m, n)) = IF m <= n THEN n - m + 1 ELSE 0
      /\ \A i \in 1..(n - m + 1) : SubSeq(s, m, n)[i] = s[m + i - 1]
    BY <1>1, <1>2, SubSeqProperties
<1>4. n - m + 1 = n - e /\ (IF m <= n THEN n - m + 1 ELSE 0) = n - e /\ \A i \in Int : m + i - 1 = e + i
    BY <1>1
<1>5. Behind(s, e) = SubSeq(s, m, n)
    BY DEF Behind
<1> HIDE DEF m
<1>6. \A i \in 1..(n - e) : SubSeq(s, m, n)[i] = s[e + i]
    BY <1>3, <1>4
<1> QED
    BY <1>3, <1>4, <1>5, <1>6

(* A call more is one more to be done. *)
LEMMA BehindAppend ==
    ASSUME NEW s \in Seq(FunctionIds), NEW e \in 0..Len(s), NEW f \in FunctionIds
    PROVE  /\ Append(s, f) \in Seq(FunctionIds) /\ e \in 0..Len(Append(s, f))
           /\ Behind(Append(s, f), e) = Append(Behind(s, e), f)
<1> DEFINE t == Append(s, f)
           b == Behind(s, e)
           c == Append(b, f)
           d == Behind(t, e)
<1>1. /\ t \in Seq(FunctionIds) /\ Len(t) = Len(s) + 1 /\ Len(s) \in Nat
      /\ \A i \in 1..(Len(s) + 1) : t[i] = IF i = Len(s) + 1 THEN f ELSE s[i]
    BY AppendProperties, LenProperties
<1>2. e \in 0..Len(t) /\ e \in Nat /\ e <= Len(s)
    BY <1>1
<1>3. b \in Seq(FunctionIds) /\ Len(b) = Len(s) - e /\ \A i \in 1..(Len(s) - e) : b[i] = s[e + i]
    BY BehindType
<1> HIDE DEF t, b
<1>4. /\ c \in Seq(FunctionIds) /\ Len(c) = Len(b) + 1
      /\ \A i \in 1..(Len(b) + 1) : c[i] = IF i = Len(b) + 1 THEN f ELSE b[i]
    <2>1. b \in Seq(FunctionIds) /\ f \in FunctionIds
        BY <1>3
    <2> QED
        BY ONLY <2>1, AppendProperties
<1>5. d \in Seq(FunctionIds) /\ Len(d) = Len(t) - e /\ \A i \in 1..(Len(t) - e) : d[i] = t[e + i]
    BY <1>1, <1>2, BehindType
<1> HIDE DEF c, d
<1>6. Len(c) = Len(d)
    BY <1>1, <1>2, <1>3, <1>4, <1>5
<1>7. ASSUME NEW i \in 1..Len(c)
      PROVE  c[i] = d[i]
    <2>1. i \in 1..(Len(b) + 1) /\ i \in 1..(Len(t) - e) /\ e + i \in 1..(Len(s) + 1)
        BY <1>1, <1>2, <1>3, <1>4
    <2>2. d[i] = IF e + i = Len(s) + 1 THEN f ELSE s[e + i]
        BY <1>1, <1>5, <2>1
    <2>3. CASE i = Len(b) + 1
        BY <1>1, <1>2, <1>3, <1>4, <2>1, <2>2, <2>3
    <2>4. CASE i # Len(b) + 1
        <3>1. i \in 1..(Len(s) - e) /\ e + i # Len(s) + 1
            BY <1>1, <1>2, <1>3, <2>1, <2>4
        <3> QED
            BY <1>3, <1>4, <2>1, <2>2, <2>4, <3>1
    <2> QED
        BY <2>3, <2>4
<1>8. c = d
    BY <1>4, <1>5, <1>6, <1>7, SeqEqual
<1> QED
    BY <1>1, <1>2, <1>8 DEF t, c, d, b

FirstTaken(s, e, x, t) ==
    /\ e + 1 \in 0..Len(s) /\ Behind(s, e + 1) = t
    /\ Behind(s, e) # <<>> /\ Behind(s, e)[1] = x /\ Len(Behind(s, e)) = Len(t) + 1
    /\ \A i \in 1..Len(t) : t[i] = Behind(s, e)[i + 1]

(* A call that is done was the first of them. *)
LEMMA BehindTail ==
    ASSUME NEW s \in Seq(FunctionIds), NEW e \in 0..Len(s), NEW x, NEW t \in Seq(Nat), Behind(s, e) = <<x>> \o t
    PROVE  FirstTaken(s, e, x, t)
<1> DEFINE b == Behind(s, e)
           d == Behind(s, e + 1)
           z == <<x>>
<1>1. b \in Seq(FunctionIds) /\ Len(b) = Len(s) - e /\ (\A i \in 1..(Len(s) - e) : b[i] = s[e + i])
      /\ Len(s) \in Nat /\ e \in Nat /\ e <= Len(s)
    <2>1. b \in Seq(FunctionIds) /\ Len(b) = Len(s) - e /\ \A i \in 1..(Len(s) - e) : b[i] = s[e + i]
        BY BehindType
    <2>2. Len(s) \in Nat
        BY LenProperties
    <2> QED
        BY <2>1, <2>2
<1>2. z \in Seq({x}) /\ Len(z) = 1 /\ z[1] = x
    OBVIOUS
<1> DEFINE S == {x} \cup Nat
<1>3. z \in Seq(S) /\ t \in Seq(S)
    BY <1>2, SeqMonotonic
<1>4. b = z \o t
    OBVIOUS
<1> HIDE DEF b, z, S
<1>5. /\ Len(b) = Len(z) + Len(t)
      /\ \A i \in 1..(Len(z) + Len(t)) : b[i] = IF i <= Len(z) THEN z[i] ELSE t[i - Len(z)]
    BY <1>3, <1>4, ConcatProperties
<1>6. Len(t) \in Nat
    BY LenProperties
<1>7. Len(b) = Len(t) + 1 /\ b[1] = x
    BY <1>2, <1>5, <1>6
<1>8. \A i \in 1..Len(t) : t[i] = b[i + 1]
    BY <1>2, <1>5, <1>6
<1>9. e + 1 \in 0..Len(s)
    BY <1>1, <1>6, <1>7
<1>10. d \in Seq(FunctionIds) /\ Len(d) = Len(s) - (e + 1) /\ \A i \in 1..(Len(s) - (e + 1)) : d[i] = s[(e + 1) + i]
    BY <1>9, BehindType
<1> HIDE DEF d
<1>11. Len(d) = Len(t)
    <2>1. Len(d) = Len(s) - (e + 1) /\ Len(b) = Len(s) - e /\ Len(b) = Len(t) + 1 /\ Len(s) \in Nat /\ e \in Nat
          /\ Len(t) \in Nat
        BY <1>1, <1>6, <1>7, <1>10
    <2> QED
        BY ONLY <2>1
<1>12. ASSUME NEW i \in 1..Len(t)
       PROVE  d[i] = t[i]
    <2>1. i + 1 \in 1..(Len(s) - e) /\ i \in 1..(Len(s) - (e + 1)) /\ e + (i + 1) = (e + 1) + i
        <3>1. Len(b) = Len(s) - e /\ Len(b) = Len(t) + 1 /\ Len(s) \in Nat /\ e \in Nat /\ Len(t) \in Nat
              /\ i \in 1..Len(t)
            BY <1>1, <1>6, <1>7
        <3> QED
            BY ONLY <3>1
    <2> QED
        BY ONLY <1>1, <1>8, <1>10, <1>12, <2>1, Zenon
<1>13. d \in Seq(Nat)
    <2>1. FunctionIds \subseteq Nat
        BY FunctionIdsFit
    <2> QED
        BY <1>10, <2>1, SeqMonotonic
<1>14. d = t
    BY <1>11, <1>12, <1>13, SeqEqual
<1>15. b # <<>>
    BY <1>6, <1>7
<1> QED
    BY <1>7, <1>8, <1>9, <1>14, <1>15 DEF b, d, FirstTaken

(***************************************************************************)
(* What a list of calls looks like after one more, and after the first of  *)
(* them was taken.                                                         *)
(***************************************************************************)
LEMMA SendsSteps ==
    ASSUME NEW s \in Seq(FunctionIds), Sends(s), NEW f \in FunctionIds
    PROVE  Sends(Append(s, fSendCapsule)) /\ AskedLast(Append(s, f), f) /\ Sends(<<>>)
<1>1. \A x \in FunctionIds : /\ Append(s, x) \in Seq(FunctionIds) /\ Len(Append(s, x)) = Len(s) + 1 /\ Len(s) \in Nat
                            /\ \A i \in 1..(Len(s) + 1) : Append(s, x)[i] = IF i = Len(s) + 1 THEN x ELSE s[i]
    BY AppendProperties, LenProperties
<1>2. fSendCapsule \in FunctionIds
    BY FunctionIdsFit
<1>3. \A i \in 1..Len(s) : s[i] = fSendCapsule
    BY DEF Sends
<1>4. Len(s) \in Nat
    BY LenProperties
<1>5. \A i \in 1..(Len(s) + 1) : i # Len(s) + 1 => i \in 1..Len(s)
    BY <1>4
<1>6. Sends(Append(s, fSendCapsule))
    BY <1>1, <1>2, <1>3, <1>5 DEF Sends
<1>7. AskedLast(Append(s, f), f)
    BY <1>1, <1>3, <1>5 DEF AskedLast
<1>8. Sends(<<>>)
    BY DEF Sends
<1> QED
    BY <1>6, <1>7, <1>8

(* The first of calls that only send sends. *)
LEMMA FirstOfSends ==
    ASSUME NEW b, NEW x, NEW t \in Seq(Nat), Len(b) = Len(t) + 1, b[1] = x, \A i \in 1..Len(t) : t[i] = b[i + 1], Sends(b)
    PROVE  x = fSendCapsule /\ Sends(t)
<1>1. Len(t) \in Nat
    BY LenProperties
<1>2. 1 \in 1..Len(b) /\ \A i \in 1..Len(t) : i + 1 \in 1..Len(b)
    BY <1>1
<1> QED
    BY <1>2 DEF Sends

(* The first of the calls before the awaited one sends, and behind it the awaited one is alone. *)
LEMMA FirstOfAsked ==
    ASSUME NEW b, NEW x, NEW t \in Seq(Nat), Len(b) = Len(t) + 1, b[1] = x, \A i \in 1..Len(t) : t[i] = b[i + 1],
           NEW p, AskedLast(b, p)
    PROVE  \/ x = p /\ t = <<>>
           \/ x = fSendCapsule /\ AskedLast(t, p)
<1>1. Len(t) \in Nat
    BY LenProperties
<1>2. \A i \in 1..Len(b) : b[i] = IF i = Len(b) THEN p ELSE fSendCapsule
    BY DEF AskedLast
<1>3. 1 \in 1..Len(b) /\ \A i \in 1..Len(t) : i + 1 \in 1..Len(b) /\ (i + 1 = Len(b) <=> i = Len(t))
    BY <1>1
<1>4. CASE Len(t) = 0
    <2>1. t = <<>>
        BY <1>4, EmptySeq
    <2> QED
        BY <1>2, <1>3, <1>4, <2>1
<1>5. CASE Len(t) # 0
    <2>1. t # <<>> /\ 1 # Len(b)
        BY <1>1, <1>5
    <2>2. x = fSendCapsule
        BY <1>2, <1>3, <2>1
    <2>3. \A i \in 1..Len(t) : t[i] = IF i = Len(t) THEN p ELSE fSendCapsule
        BY <1>2, <1>3
    <2> QED
        BY <2>1, <2>2, <2>3 DEF AskedLast
<1> QED
    BY <1>4, <1>5

-----------------------------------------------------------------------------
(* The steps of the streams. *)
LEMMA TodoType ==
    ASSUME Kept
    PROVE  /\ Todo = Behind(sent, executed) /\ Todo \in Seq(FunctionIds)
           /\ \A i \in 1..Len(Todo) : Todo[i] \in Nat \ {0}
           /\ Requests \in Seq(Byte) /\ Unread(appRd, down) \in Seq(Byte) /\ Answers \in Seq(Nat)
<1>1. sent \in Seq(FunctionIds) /\ executed \in 0..Len(sent)
    BY DEF Kept
<1>2. Todo = Behind(sent, executed)
    BY DEF Todo, Behind
<1>3. Todo \in Seq(FunctionIds)
    BY <1>1, <1>2, BehindType
<1>4. \A i \in 1..Len(Todo) : Todo[i] \in Nat \ {0}
    BY <1>3, ElementOfSeq, FunctionIdsFit
<1>5. ReaderInv(appRd) /\ ReaderInv(nodeRd) /\ up \in Seq(Byte) /\ down \in Seq(Byte)
    BY DEF Kept
<1>6. Requests \in Seq(Byte) /\ Unread(appRd, down) \in Seq(Byte)
    BY <1>5, UnreadBytes DEF Requests
<1>7. Answers \in Seq(Nat)
    BY <1>6, FunctionsType DEF Answers
<1> QED
    BY <1>2, <1>3, <1>4, <1>6, <1>7

(* The program writes a frame: its function is behind those the node has not executed. *)
LEMMA WriteKeeps ==
    ASSUME Kept, StreamInStep, node \in {"read", "wait"} => WaitsWhole(Requests),
           NEW f \in FunctionIds, NEW body, RpcFits(body), f = fWaitForCapsule => Len(body) = 4,
           Write(f, body), UNCHANGED <<nodeRd, executed, node>>
    PROVE  /\ up' \in Seq(Byte) /\ sent' \in Seq(FunctionIds) /\ executed' \in 0..Len(sent')
           /\ Todo' = Append(Todo, f) /\ StreamInStep'
           /\ node \in {"read", "wait"} => WaitsWhole(Requests')
<1> DEFINE m == Datagram(f, body)
           r == Requests
           r2 == Unread(nodeRd, up')
<1>1. up' = up \o Frame(m) /\ sent' = Append(sent, f) /\ nodeRd' = nodeRd /\ executed' = executed /\ node' = node
    BY DEF Write
<1>2. ReaderInv(nodeRd) /\ up \in Seq(Byte) /\ sent \in Seq(FunctionIds) /\ executed \in 0..Len(sent)
    BY DEF Kept
<1>3. body \in Seq(Byte) /\ 2 + Len(body) <= MaxNumber
    BY DEF RpcFits
<1>4. m \in Seq(Byte) /\ Len(m) = 2 + Len(body) /\ DecodeUint(m, 0, 2) = f
    BY <1>3, DatagramBytes
<1>5. Len(m) <= MaxNumber
    BY <1>3, <1>4
<1> HIDE DEF m
<1>6. Frame(m) \in Seq(Byte)
    BY <1>4, <1>5, FrameBytes
<1>7. up' \in Seq(Byte)
    BY <1>1, <1>2, <1>6, ConcatSize
<1>8. sent' \in Seq(FunctionIds) /\ executed' \in 0..Len(sent') /\ Behind(sent', executed') = Append(Behind(sent, executed), f)
    BY <1>1, <1>2, BehindAppend
<1>9. Todo' = Append(Todo, f)
    BY <1>8 DEF Todo, Behind
<1>10. r2 = r \o Frame(m)
    <2>1. Unread(nodeRd, up \o Frame(m)) = Unread(nodeRd, up) \o Frame(m)
        BY <1>2, <1>6, UnreadWrite
    <2> QED
        BY <1>1, <2>1 DEF Requests
<1>11. Requests' = r2
    BY <1>1 DEF Requests
<1>12. r \in Seq(Byte) /\ r2 \in Seq(Byte)
    BY <1>2, <1>7, UnreadBytes DEF Requests
<1> HIDE DEF r, r2
<1>13. ASSUME node \in {"read", "wait"}
       PROVE  Functions(r2) = Todo' /\ WaitsWhole(r2)
    <2>1. Functions(r) = Todo
        BY <1>13 DEF StreamInStep, Requests, Todo, r
    <2>2. \A i \in 1..Len(Functions(r)) : Functions(r)[i] # 0
        BY <2>1, TodoType
    <2>3. Whole(r)
        BY <1>12, <2>2, FunctionsWhole
    <2>4. Messages(r2) = Append(Messages(r), m)
        BY <1>4, <1>5, <1>10, <1>12, <2>3, MessagesAppend
    <2>5. Functions(r2) = Append(Functions(r), DecodeUint(m, 0, 2))
        BY <1>4, <1>12, <2>4, FunctionsAppend
    <2>6. Functions(r2) = Todo'
        BY <1>4, <1>9, <2>1, <2>5
    <2>7. WaitsWhole(r)
        BY <1>13 DEF r
    <2>8. Messages(r) \in Seq(Seq(Byte)) /\ Len(Messages(r)) \in Nat
        BY <1>12, MessagesType, LenProperties
    <2> DEFINE l == Messages(r)
               l2 == Messages(r2)
    <2>9. Len(l2) = Len(l) + 1 /\ \A i \in 1..(Len(l) + 1) : l2[i] = IF i = Len(l) + 1 THEN m ELSE l[i]
        BY <1>4, <2>4, <2>8, AppendProperties
    <2>10. \A i \in 1..Len(l) : DecodeUint(l[i], 0, 2) = fWaitForCapsule => Len(l[i]) = 6
        BY <2>7 DEF WaitsWhole
    <2>11. f = fWaitForCapsule => Len(m) = 6
        <3>1. Len(m) = 2 + Len(body) /\ (f = fWaitForCapsule => Len(body) = 4)
            BY <1>4, Zenon
        <3>2. ASSUME Len(body) = 4
              PROVE  2 + Len(body) = 6
            BY ONLY <3>2
        <3> QED
            BY ONLY <3>1, <3>2, Zenon
    <2> HIDE DEF l, l2
    <2>12. \A i \in 1..Len(l2) : l2[i] = m \/ (i \in 1..Len(l) /\ l2[i] = l[i])
        BY <2>8, <2>9 DEF l
    <2>13. \A i \in 1..Len(l2) : DecodeUint(l2[i], 0, 2) = fWaitForCapsule => Len(l2[i]) = 6
        BY ONLY <1>4, <2>10, <2>11, <2>12, Zenon
    <2>14. WaitsWhole(r2)
        BY ONLY <2>13 DEF WaitsWhole, l2
    <2> QED
        BY <2>6, <2>14
<1>14. StreamInStep'
    BY <1>1, <1>11, <1>13 DEF StreamInStep, Requests, Todo
<1> QED
    BY <1>1, <1>7, <1>8, <1>9, <1>11, <1>13, <1>14

(* A call. *)
LEMMA CallKeeps ==
    ASSUME Kept, StreamInStep, CallInv,
           NEW f \in SyncFunctions, NEW body, RpcFits(body), f = fWaitForCapsule => Len(body) = 4,
           Call(f, body), UNCHANGED <<appRd, down, nodeRd, executed, node>>
    PROVE  /\ up' \in Seq(Byte) /\ sent' \in Seq(FunctionIds) /\ executed' \in 0..Len(sent')
           /\ StreamInStep' /\ CallInv'
<1>1. pending = 0 /\ Write(f, body) /\ pending' = f /\ node' = node
    BY DEF Call
<1>2. f \in FunctionIds /\ f # 0
    BY FunctionIdsFit
<1>3. node \in {"read", "wait"} => WaitsWhole(Requests)
    BY DEF CallInv
<1>4. /\ up' \in Seq(Byte) /\ sent' \in Seq(FunctionIds) /\ executed' \in 0..Len(sent')
      /\ Todo' = Append(Todo, f) /\ StreamInStep'
      /\ node \in {"read", "wait"} => WaitsWhole(Requests')
    BY <1>1, <1>2, <1>3, WriteKeeps
<1>5. Answers' = Answers
    BY DEF Answers
<1>6. ASSUME node \in {"read", "wait"}
      PROVE  Asked'
    <2>1. Idle
        BY <1>1, <1>6 DEF CallInv, Asked, Held, Replied, fWaitForCapsule
    <2>2. AskedLast(Append(Todo, f), f)
        BY <1>2, <2>1, TodoType, SendsSteps DEF Idle
    <2> QED
        BY <1>1, <1>2, <1>4, <1>5, <2>1, <2>2 DEF Idle, Asked
<1>7. CallInv'
    BY <1>1, <1>4, <1>6 DEF CallInv
<1> QED
    BY <1>4, <1>7

(* A capsule is sent. *)
LEMMA SendKeeps ==
    ASSUME Kept, StreamInStep, CallInv, SendCapsule
    PROVE  /\ up' \in Seq(Byte) /\ sent' \in Seq(FunctionIds) /\ executed' \in 0..Len(sent')
           /\ StreamInStep' /\ CallInv'
<1> DEFINE f == fSendCapsule
           body == app.request
<1>1. app.pc = "send" /\ Write(f, body) /\ pending' = pending /\ UNCHANGED <<appRd, down, nodeRd, executed, node>>
    BY DEF SendCapsule, ClientOnly
<1>2. f \in FunctionIds /\ f # fWaitForCapsule
    BY FunctionIdsFit DEF fSendCapsule, fWaitForCapsule
<1>3. RpcFits(body)
    BY DEF Kept, AppInv
<1>4. node \in {"read", "wait"} => WaitsWhole(Requests)
    BY DEF CallInv
<1>5. pending = 0
    BY <1>1 DEF Kept, CallerInv
<1> HIDE DEF f, body
<1>6. /\ up' \in Seq(Byte) /\ sent' \in Seq(FunctionIds) /\ executed' \in 0..Len(sent')
      /\ Todo' = Append(Todo, f) /\ StreamInStep'
      /\ node \in {"read", "wait"} => WaitsWhole(Requests')
    BY <1>1, <1>2, <1>3, <1>4, WriteKeeps
<1>7. Answers' = Answers
    BY <1>1 DEF Answers
<1>8. ASSUME node \in {"read", "wait"}
      PROVE  Idle'
    <2>1. Idle
        BY <1>5, <1>8 DEF CallInv, Asked, Held, Replied, fWaitForCapsule
    <2>2. Sends(Append(Todo, f))
        BY <1>2, <2>1, TodoType, SendsSteps DEF Idle, f
    <2> QED
        BY <1>1, <1>5, <1>6, <1>7, <2>1, <2>2 DEF Idle
<1>9. CallInv'
    BY <1>1, <1>6, <1>8 DEF CallInv
<1> QED
    BY <1>6, <1>9

(* The program reads a piece. *)
LEMMA AppReadsKeeps ==
    ASSUME Kept, StreamInStep, CallInv, AppReads
    PROVE  ReaderInv(appRd') /\ down' \in Seq(Byte) /\ StreamInStep' /\ CallInv'
<1>1. /\ appRd.phase # "message"
      /\ \E n \in Pieces(appRd, down) : appRd' = ReadSome(appRd, Take(down, n)) /\ down' = Drop(down, n)
      /\ UNCHANGED <<pending, node, nodeRd, up, sent, executed>>
    BY DEF AppReads, histVars
<1>2. PICK n \in Pieces(appRd, down) : appRd' = ReadSome(appRd, Take(down, n)) /\ down' = Drop(down, n)
    BY <1>1
<1>3. ReaderInv(appRd) /\ down \in Seq(Byte)
    BY DEF Kept
<1>4. /\ ReaderInv(ReadSome(appRd, Take(down, n))) /\ Drop(down, n) \in Seq(Byte)
      /\ Functions(Unread(ReadSome(appRd, Take(down, n)), Drop(down, n))) = Functions(Unread(appRd, down))
    BY <1>1, <1>3, FunctionsKept
<1>5. Answers' = Answers
    BY <1>2, <1>4 DEF Answers
<1>6. Requests' = Requests /\ Todo' = Todo
    BY <1>1 DEF Requests, Todo
<1>7. CallInv'
    BY <1>1, <1>5, <1>6 DEF CallInv, Idle, Asked, Held, Replied
<1>8. StreamInStep'
    BY <1>1 DEF StreamInStep
<1> QED
    BY <1>2, <1>4, <1>7, <1>8

(* The answer is taken. *)
LEMMA TakenKeeps ==
    ASSUME Kept, StreamInStep, CallInv, pending # 0, appRd.phase = "message", NextMessage, pending' = 0,
           UNCHANGED <<up, down, node, nodeRd, sent, executed>>
    PROVE  ReaderInv(appRd') /\ StreamInStep' /\ CallInv'
<1> DEFINE x == DecodeUint(appRd.acc, 0, 2)
           rest == Unread(ReadMessage(appRd.buf), down)
           t == Functions(rest)
<1>1. ReaderInv(appRd) /\ down \in Seq(Byte)
    BY DEF Kept
<1>2. ReaderInv(ReadMessage(appRd.buf)) /\ Answers = <<x>> \o t
    BY <1>1, FunctionsRead DEF Answers
<1>3. rest \in Seq(Byte)
    BY <1>1, <1>2, UnreadBytes
<1>4. t \in Seq(Nat)
    BY <1>3, FunctionsType
<1>5. Answers' = t
    BY DEF Answers, NextMessage
<1> HIDE DEF x, rest, t
<1>6. ASSUME node \in {"read", "wait"}
      PROVE  t = <<>> /\ Todo = <<>> /\ node = "read"
    <2>1. Len(t) \in Nat
        BY <1>4, LenProperties
    <2>2. Len(Answers) = 1 + Len(t)
        <3> DEFINE z == <<x>>
        <3>1. z \in Seq({x}) /\ Len(z) = 1
            OBVIOUS
        <3>2. z \in Seq({x} \cup Nat) /\ t \in Seq({x} \cup Nat) /\ Answers = z \o t
            BY <1>2, <1>4, <3>1, SeqMonotonic
        <3> HIDE DEF z
        <3> QED
            BY <3>1, <3>2, ConcatProperties, ZenonT(30)
    <2>3. Len(Answers) # 0
        BY <2>1, <2>2
    <2>4. Answers # <<>>
        BY <2>3
    <2>5. Replied
        BY <1>6, <2>4 DEF CallInv, Idle, Asked, Held
    <2>6. Len(Answers) = 1
        BY <2>5 DEF Replied
    <2>7. Len(t) = 0
        BY <2>1, <2>2, <2>6
    <2> QED
        BY <1>4, <2>5, <2>7, EmptySeq DEF Replied
<1>7. Requests' = Requests /\ Todo' = Todo
    BY DEF Requests, Todo
<1>8. Sends(<<>>)
    BY DEF Sends
<1>9. CallInv'
    BY <1>5, <1>6, <1>7, <1>8 DEF CallInv, Idle
<1>10. StreamInStep'
    BY DEF StreamInStep
<1> QED
    BY <1>2, <1>9, <1>10 DEF NextMessage

(* The node is gone; its side of the stream says no more. *)
LEMMA GoneKeeps ==
    ASSUME Kept, node' \notin {"read", "wait"}
    PROVE  StreamInStep' /\ CallInv'
BY DEF StreamInStep, CallInv

(* What does not touch the calls. *)
LEMMA AsideKeeps ==
    ASSUME StreamInStep, CallInv, UNCHANGED <<pending, node, appRd, nodeRd, up, down, sent, executed>>
    PROVE  StreamInStep' /\ CallInv'
<1>1. Requests' = Requests /\ Todo' = Todo /\ Answers' = Answers
    BY DEF Requests, Todo, Answers
<1> QED
    BY <1>1 DEF StreamInStep, CallInv, Idle, Asked, Held, Replied

(* What the client's steps do to the streams. *)
StreamTypes ==
    /\ ReaderInv(appRd) /\ ReaderInv(nodeRd) /\ up \in Seq(Byte) /\ down \in Seq(Byte)
    /\ sent \in Seq(FunctionIds) /\ executed \in 0..Len(sent)

(* They all keep the streams in step. *)
LEMMA ClientStreams ==
    ASSUME Kept, StreamInStep, CallInv, ClientStep
    PROVE  StreamTypes' /\ StreamInStep' /\ CallInv'
<1>1. StreamTypes
    BY DEF Kept, StreamTypes
<1>2. ASSUME NEW f \in SyncFunctions, NEW body, RpcFits(body), f = fWaitForCapsule => Len(body) = 4,
             Call(f, body), UNCHANGED <<appRd, down, nodeRd, executed, node>>
      PROVE  StreamTypes' /\ StreamInStep' /\ CallInv'
    <2>1. /\ up' \in Seq(Byte) /\ sent' \in Seq(FunctionIds) /\ executed' \in 0..Len(sent')
          /\ StreamInStep' /\ CallInv'
        BY <1>2, CallKeeps
    <2> QED
        BY <1>1, <1>2, <2>1 DEF StreamTypes
<1>3. {fRegisterEphemeral, fGetAddresses, fWaitForCapsule} \subseteq SyncFunctions
    BY DEF SyncFunctions
<1>4. fRegisterEphemeral # fWaitForCapsule /\ fGetAddresses # fWaitForCapsule
    BY DEF fRegisterEphemeral, fGetAddresses, fWaitForCapsule
<1>5. CASE AskPort
    <2>1. Call(fRegisterEphemeral, <<>>) /\ UNCHANGED <<appRd, down, nodeRd, executed, node>>
        BY <1>5 DEF AskPort, ClientOnly
    <2> QED
        BY <1>2, <1>3, <1>4, <2>1, SmallResponses
<1>6. CASE AskAddresses
    <2>1. Call(fGetAddresses, <<>>) /\ UNCHANGED <<appRd, down, nodeRd, executed, node>>
        BY <1>6 DEF AskAddresses, ClientOnly
    <2> QED
        BY <1>2, <1>3, <1>4, <2>1, SmallResponses
<1>7. CASE AskCapsule
    <2>1. Call(fWaitForCapsule, WaitRequest(1)) /\ UNCHANGED <<appRd, down, nodeRd, executed, node>>
        BY <1>7 DEF AskCapsule, ClientOnly
    <2> QED
        BY <1>2, <1>3, <2>1, SmallResponses
<1>8. CASE SendCapsule
    <2>1. UNCHANGED <<appRd, nodeRd, down>>
        BY <1>8 DEF SendCapsule, ClientOnly
    <2> QED
        BY <1>1, <1>8, <2>1, SendKeeps DEF StreamTypes
<1>9. CASE AppReads
    <2>1. UNCHANGED <<up, nodeRd, sent, executed>>
        BY <1>9 DEF AppReads, histVars
    <2> QED
        BY <1>1, <1>9, <2>1, AppReadsKeeps DEF StreamTypes
<1>10. CASE PortAnswer \/ AddressesAnswer \/ CapsuleAnswer
    <2>1. /\ \E f \in {fRegisterEphemeral, fGetAddresses, fWaitForCapsule} : Answered(f)
          /\ NextMessage /\ pending' = 0 /\ UNCHANGED <<up, down, node, nodeRd, sent, executed>>
        BY <1>10 DEF PortAnswer, AddressesAnswer, CapsuleAnswer, ClientOnly
    <2>2. pending # 0 /\ appRd.phase = "message"
        BY <2>1 DEF Answered, fRegisterEphemeral, fGetAddresses, fWaitForCapsule
    <2>3. ReaderInv(appRd') /\ StreamInStep' /\ CallInv'
        BY <2>1, <2>2, TakenKeeps
    <2> QED
        BY <1>1, <2>1, <2>3 DEF StreamTypes
<1>11. CASE AppReadFails \/ CallFails
    <2>1. NextMessage /\ node = "dead" /\ UNCHANGED <<up, down, node, nodeRd, sent, executed>>
        BY <1>11 DEF AppReadFails, CallFails, Disconnected, ClientOnly
    <2>2. ReaderInv(appRd')
        BY <1>1, <2>1, ReadMessageReader DEF StreamTypes, NextMessage
    <2>3. StreamInStep' /\ CallInv'
        BY <2>1, GoneKeeps
    <2> QED
        BY <1>1, <2>1, <2>2, <2>3 DEF StreamTypes
<1>12. CASE UserCommand \/ Exit
    <2>1. UNCHANGED <<pending, node, appRd, nodeRd, up, down, sent, executed>>
        BY <1>12 DEF UserCommand, Exit, ClientOnly
    <2> QED
        BY <1>1, <2>1, AsideKeeps DEF StreamTypes
<1> QED
    BY <1>5, <1>6, <1>7, <1>8, <1>9, <1>10, <1>11, <1>12 DEF ClientStep

-----------------------------------------------------------------------------
(* The node. *)
NodeTypes == queue \in Seq(FittingSet) /\ net \in Seq(CapsuleSet) /\ node \in {"read", "wait", "ended", "dead"}

(* The node reads a piece. *)
LEMMA NodeReadsKeeps ==
    ASSUME Kept, StreamInStep, CallInv, NodeReads
    PROVE  StreamTypes' /\ StreamInStep' /\ CallInv' /\ NodeTypes'
<1>1. /\ nodeRd.phase # "message" /\ node = "read"
      /\ \E n \in Pieces(nodeRd, up) : nodeRd' = ReadSome(nodeRd, Take(up, n)) /\ up' = Drop(up, n)
      /\ UNCHANGED <<pending, node, appRd, down, sent, executed, queue, net>>
    BY DEF NodeReads, NodeOnly
<1>2. PICK n \in Pieces(nodeRd, up) : nodeRd' = ReadSome(nodeRd, Take(up, n)) /\ up' = Drop(up, n)
    BY <1>1
<1>3. ReaderInv(nodeRd) /\ up \in Seq(Byte)
    BY DEF Kept
<1>4. /\ ReaderInv(ReadSome(nodeRd, Take(up, n))) /\ Drop(up, n) \in Seq(Byte)
      /\ Messages(Unread(ReadSome(nodeRd, Take(up, n)), Drop(up, n))) = Messages(Unread(nodeRd, up))
    BY <1>1, <1>3, ReadSomeKeeps
<1>5. Functions(Unread(ReadSome(nodeRd, Take(up, n)), Drop(up, n))) = Functions(Unread(nodeRd, up))
    BY <1>1, <1>3, FunctionsKept
<1>6. Messages(Requests') = Messages(Requests) /\ Functions(Requests') = Functions(Requests)
    BY <1>2, <1>4, <1>5 DEF Requests
<1>7. Answers' = Answers /\ Todo' = Todo
    BY <1>1 DEF Answers, Todo
<1>8. StreamInStep'
    BY <1>1, <1>6, <1>7 DEF StreamInStep, Requests, Todo
<1>9. WaitsWhole(Requests)
    BY <1>1 DEF CallInv
<1>10. WaitsWhole(Requests')
    BY <1>6, <1>9 DEF WaitsWhole
<1>11. CallInv'
    BY <1>1, <1>7, <1>10 DEF CallInv, Idle, Asked, Held, Replied
<1>12. StreamTypes' /\ NodeTypes'
    BY <1>1, <1>2, <1>4 DEF StreamTypes, NodeTypes, Kept
<1> QED
    BY <1>8, <1>11, <1>12

(* A response is written: nothing else is on its way to the client. *)
LEMMA RespondKeeps ==
    ASSUME Kept, Answers = <<>>, NEW f \in SyncFunctions, NEW body, RpcFits(body), Respond(f, body), appRd' = appRd
    PROVE  down' \in Seq(Byte) /\ Answers' = <<f>>
<1>1. ReaderInv(appRd) /\ down \in Seq(Byte)
    BY DEF Kept
<1>2. f \in FunctionIds
    BY FunctionIdsFit
<1>3. Functions(Unread(appRd, down)) = <<>>
    BY DEF Answers
<1>4. \A i \in 1..Len(Functions(Unread(appRd, down))) : Functions(Unread(appRd, down))[i] # 0
    BY <1>3
<1>5. body \in Seq(Byte) /\ 2 + Len(body) <= MaxNumber
    BY DEF RpcFits
<1>6. /\ down \o Frame(Datagram(f, body)) \in Seq(Byte)
      /\ Functions(Unread(appRd, down \o Frame(Datagram(f, body)))) = Append(Functions(Unread(appRd, down)), f)
    BY <1>1, <1>2, <1>4, <1>5, FunctionsWrite
<1>7. Append(<<>>, f) = <<f>>
    OBVIOUS
<1>8. down' = down \o Frame(Datagram(f, body))
    BY DEF Respond
<1> QED
    BY <1>3, <1>6, <1>7, <1>8 DEF Answers

(* The node answers the call it holds. *)
LEMMA HeldAnswered ==
    ASSUME Kept, StreamInStep, CallInv, node = "wait", NEW body, RpcFits(body), Respond(fWaitForCapsule, body),
           node' = "read", UNCHANGED <<pending, appRd, nodeRd, up, sent, executed>>
    PROVE  StreamTypes' /\ StreamInStep' /\ CallInv'
<1>1. Held /\ WaitsWhole(Requests)
    BY DEF CallInv, Idle, Asked, Replied
<1>2. fWaitForCapsule \in SyncFunctions /\ fWaitForCapsule # 0
    BY DEF SyncFunctions, fWaitForCapsule
<1>3. down' \in Seq(Byte) /\ Answers' = <<fWaitForCapsule>>
    BY <1>1, <1>2, RespondKeeps DEF Held
<1>4. Requests' = Requests /\ Todo' = Todo
    BY DEF Requests, Todo
<1>5. Replied'
    BY <1>1, <1>2, <1>3, <1>4 DEF Held, Replied
<1>6. StreamInStep'
    BY <1>4 DEF StreamInStep, Requests, Todo
<1>7. StreamTypes'
    BY <1>3 DEF StreamTypes, Kept
<1> QED
    BY <1>1, <1>4, <1>5, <1>6, <1>7 DEF CallInv

(* The node has found a capsule. *)
LEMMA FoundKeeps ==
    ASSUME Kept, StreamInStep, CallInv, Found
    PROVE  StreamTypes' /\ StreamInStep' /\ CallInv' /\ NodeTypes'
<1> DEFINE body == WaitFound(Head(queue))
<1>1. /\ node = "wait" /\ queue # <<>> /\ Respond(fWaitForCapsule, body) /\ queue' = Tail(queue) /\ node' = "read"
      /\ UNCHANGED <<pending, appRd, nodeRd, up, sent, executed, net>>
    BY DEF Found, NodeOnly
<1>2. Head(queue) \in FittingSet /\ queue' \in Seq(FittingSet)
    BY <1>1, HeadTailProperties DEF Kept
<1>3. RpcFits(body)
    BY <1>2, WaitFoundFits DEF FittingSet
<1> HIDE DEF body
<1>4. StreamTypes' /\ StreamInStep' /\ CallInv'
    BY <1>1, <1>3, HeldAnswered
<1>5. NodeTypes'
    BY <1>1, <1>2 DEF NodeTypes, Kept
<1> QED
    BY <1>4, <1>5

(* It has found none in time. *)
LEMMA TimeOutKeeps ==
    ASSUME Kept, StreamInStep, CallInv, TimeOut
    PROVE  StreamTypes' /\ StreamInStep' /\ CallInv' /\ NodeTypes'
<1>1. /\ node = "wait" /\ Respond(fWaitForCapsule, WaitNothing) /\ queue' = queue /\ node' = "read"
      /\ UNCHANGED <<pending, appRd, nodeRd, up, sent, executed, net>>
    BY DEF TimeOut, NodeOnly
<1>2. StreamTypes' /\ StreamInStep' /\ CallInv'
    BY <1>1, SmallResponses, HeldAnswered
<1>3. NodeTypes'
    BY <1>1 DEF NodeTypes, Kept
<1> QED
    BY <1>2, <1>3

(* The node ends the connection or dies. *)
LEMMA NodeGoneKeeps ==
    ASSUME Kept, StreamInStep, CallInv, NodeEnds \/ NodeDies
    PROVE  StreamTypes' /\ StreamInStep' /\ CallInv' /\ NodeTypes'
<1>1. /\ node' \in {"ended", "dead"} /\ queue' = <<>>
      /\ UNCHANGED <<appRd, nodeRd, up, sent, executed, net>>
      /\ \/ down' = down
         \/ \E n \in {Len(down), Len(down) - 1} : n >= 0 /\ down' = Take(down, n)
    BY DEF NodeEnds, NodeDies, NodeOnly
<1>2. down \in Seq(Byte) /\ Len(down) \in Nat
    BY LenProperties DEF Kept
<1>3. ASSUME NEW n \in {Len(down), Len(down) - 1}, n >= 0
      PROVE  Take(down, n) \in Seq(Byte)
    <2>1. n \in 0..Len(down)
        BY <1>2, <1>3
    <2> QED
        BY <1>2, <2>1, BytesTakeDrop
<1>4. down' \in Seq(Byte)
    BY <1>1, <1>2, <1>3
<1>5. StreamTypes'
    BY <1>1, <1>4 DEF StreamTypes, Kept
<1>6. NodeTypes'
    BY <1>1, EmptySeq DEF NodeTypes, Kept
<1>7. StreamInStep' /\ CallInv'
    BY <1>1, GoneKeeps
<1> QED
    BY <1>5, <1>6, <1>7

(* The node takes a request: it is the first of what is left to be done. *)
LEMMA RequestTaken ==
    ASSUME Kept, StreamInStep, CallInv, node = "read", nodeRd.phase = "message", executed' = executed + 1, sent' = sent,
           nodeRd' = ReadMessage(nodeRd.buf), up' = up, NEW x, x = DecodeUint(nodeRd.acc, 0, 2)
    PROVE  /\ ReaderInv(nodeRd') /\ executed' \in 0..Len(sent')
           /\ Functions(Requests') = Todo' /\ WaitsWhole(Requests')
           /\ x = fWaitForCapsule => Len(nodeRd.acc) = 6
           /\ \/ pending = 0 /\ Answers = <<>> /\ x = fSendCapsule /\ Sends(Todo')
              \/ pending # 0 /\ Answers = <<>> /\ x = pending /\ Todo' = <<>>
              \/ pending # 0 /\ Answers = <<>> /\ x = fSendCapsule /\ AskedLast(Todo', pending)
<1> DEFINE m == nodeRd.acc
           r == Requests
           r2 == Unread(ReadMessage(nodeRd.buf), up)
           t == Functions(r2)
<1>1. ReaderInv(nodeRd) /\ up \in Seq(Byte) /\ sent \in Seq(FunctionIds) /\ executed \in 0..Len(sent)
    BY DEF Kept
<1>2. ReaderInv(ReadMessage(nodeRd.buf)) /\ Functions(r) = <<x>> \o t
    BY <1>1, FunctionsRead DEF Requests
<1>3. Messages(r) = <<m>> \o Messages(r2)
    BY <1>1, MessageRead DEF Requests
<1>4. r2 \in Seq(Byte) /\ r \in Seq(Byte) /\ m \in Seq(Byte)
    BY <1>1, <1>2, UnreadBytes DEF Requests, ReaderInv, Reader
<1>5. t \in Seq(Nat)
    BY <1>4, FunctionsType
<1>6. Behind(sent, executed) = <<x>> \o t
    BY <1>2 DEF StreamInStep, Behind, Requests
<1> HIDE DEF t
<1> DEFINE b == Behind(sent, executed)
<1>7. /\ executed + 1 \in 0..Len(sent) /\ Behind(sent, executed + 1) = t
      /\ b # <<>> /\ b[1] = x /\ Len(b) = Len(t) + 1
      /\ \A i \in 1..Len(t) : t[i] = b[i + 1]
    <2> HIDE DEF b
    <2>1. sent \in Seq(FunctionIds)
        BY <1>1
    <2>2. executed \in 0..Len(sent)
        BY <1>1
    <2>3. FirstTaken(sent, executed, x, t)
        BY ONLY <2>1, <2>2, <1>5, <1>6, BehindTail, Zenon
    <2> QED
        BY ONLY <2>3, Zenon DEF b, FirstTaken
<1>8. Todo' = t /\ Requests' = r2 /\ b = Todo
    BY <1>7 DEF Todo, Behind, Requests
<1> HIDE DEF b
<1>9. WaitsWhole(r)
    BY DEF CallInv
<1> DEFINE l == Messages(r)
           l2 == Messages(r2)
           z == <<m>>
<1>10. l2 \in Seq(Seq(Byte)) /\ z \in Seq(Seq(Byte)) /\ Len(z) = 1 /\ z[1] = m /\ l = z \o l2
    BY <1>3, <1>4, MessagesType
<1> HIDE DEF l, l2, z
<1>11. Len(l) = 1 + Len(l2) /\ Len(l2) \in Nat /\ \A i \in 1..(1 + Len(l2)) : l[i] = IF i <= 1 THEN m ELSE l2[i - 1]
    <2>1. Len(l) = Len(z) + Len(l2) /\ \A i \in 1..(Len(z) + Len(l2)) : l[i] = IF i <= Len(z) THEN z[i] ELSE l2[i - Len(z)]
        BY <1>10, ConcatProperties
    <2>2. Len(l2) \in Nat
        BY <1>10, LenProperties
    <2>3. \A i \in 1..(1 + Len(l2)) : i <= 1 => i = 1
        BY <2>2
    <2> QED
        BY <1>10, <2>1, <2>2, <2>3
<1>12. l[1] = m /\ 1 \in 1..Len(l) /\ \A i \in 1..Len(l2) : l[i + 1] = l2[i] /\ i + 1 \in 1..Len(l)
    BY <1>11
<1>13. \A i \in 1..Len(l) : DecodeUint(l[i], 0, 2) = fWaitForCapsule => Len(l[i]) = 6
    BY <1>9 DEF WaitsWhole, l
<1>14. x = fWaitForCapsule => Len(m) = 6
    BY ONLY <1>12, <1>13, x = DecodeUint(m, 0, 2), Zenon
<1>15. \A i \in 1..Len(l2) : DecodeUint(l2[i], 0, 2) = fWaitForCapsule => Len(l2[i]) = 6
    BY ONLY <1>12, <1>13, Zenon
<1>16. WaitsWhole(r2)
    BY ONLY <1>15, Zenon DEF WaitsWhole, l2
<1>17. (Idle \/ Asked) /\ pending \in Nat
    <2>1. ~ Held /\ ~ Replied
        BY <1>7, <1>8 DEF Held, Replied
    <2>2. pending \in Nat
        BY DEF Kept, CallerInv, fRegisterEphemeral, fGetAddresses, fWaitForCapsule
    <2> QED
        BY <2>1, <2>2 DEF CallInv
<1>18. CASE Idle
    <2>1. Sends(b)
        BY <1>8, <1>18 DEF Idle
    <2>2. x = fSendCapsule /\ Sends(t)
        BY <1>5, <1>7, <2>1, FirstOfSends
    <2> QED
        BY <1>2, <1>7, <1>8, <1>14, <1>16, <1>18, <2>2 DEF Idle, t
<1>19. CASE Asked
    <2>1. AskedLast(b, pending)
        BY <1>8, <1>19 DEF Asked
    <2>2. \/ x = pending /\ t = <<>>
          \/ x = fSendCapsule /\ AskedLast(t, pending)
        BY <1>5, <1>7, <2>1, FirstOfAsked
    <2> QED
        BY <1>2, <1>7, <1>8, <1>14, <1>16, <1>19, <2>2 DEF Asked, t
<1> QED
    BY <1>17, <1>18, <1>19

(* The node executes a request, and responds when its function has a response. *)
LEMMA ExecuteKeeps ==
    ASSUME Kept, StreamInStep, CallInv, Execute
    PROVE  StreamTypes' /\ StreamInStep' /\ CallInv' /\ NodeTypes'
<1> DEFINE r == RecvData(nodeRd.acc)
           x == DecodeUint(nodeRd.acc, 0, 2)
<1>1. /\ node = "read" /\ nodeRd.phase = "message" /\ nodeRd' = ReadMessage(nodeRd.buf) /\ executed' = executed + 1
      /\ UNCHANGED <<up, queue, appRd, pending, sent>>
      /\ IF ~r.ok THEN node' = "ended" /\ UNCHANGED <<down, net>>
         ELSE \/ r.fid = fSendCapsule /\ SendCapsuleIn(r.body) /\ UNCHANGED <<node, down>>
              \/ /\ r.fid = fWaitForCapsule
                 /\ node' = (IF WaitUnpack(r.body) THEN "wait" ELSE node) /\ UNCHANGED <<down, net>>
              \/ /\ r.fid \in {fRegisterEphemeral, fGetAddresses}
                 /\ Respond(r.fid, Response(r.fid)) /\ UNCHANGED <<node, net>>
    BY DEF Execute, NodeOnly
<1>2. nodeRd.acc \in Seq(Byte)
    BY DEF Kept, ReaderInv, Reader
<1>3. r.ok => r.fid = x /\ r.body \in Seq(Byte) /\ Len(nodeRd.acc) = 2 + Len(r.body)
    BY <1>2, RecvDataType
<1> HIDE DEF r, x
<1>4. /\ ReaderInv(nodeRd') /\ executed' \in 0..Len(sent')
      /\ Functions(Requests') = Todo' /\ WaitsWhole(Requests')
      /\ x = fWaitForCapsule => Len(nodeRd.acc) = 6
      /\ \/ pending = 0 /\ Answers = <<>> /\ x = fSendCapsule /\ Sends(Todo')
         \/ pending # 0 /\ Answers = <<>> /\ x = pending /\ Todo' = <<>>
         \/ pending # 0 /\ Answers = <<>> /\ x = fSendCapsule /\ AskedLast(Todo', pending)
    BY <1>1, RequestTaken DEF x
<1>5. StreamInStep'
    BY <1>4 DEF StreamInStep, Requests, Todo
<1>6. /\ ReaderInv(appRd) /\ up \in Seq(Byte) /\ down \in Seq(Byte) /\ sent \in Seq(FunctionIds)
      /\ queue \in Seq(FittingSet) /\ net \in Seq(CapsuleSet)
    BY DEF Kept
<1>7. down' \in Seq(Byte) => StreamTypes'
    BY <1>1, <1>4, <1>6 DEF StreamTypes
<1>8. /\ fSendCapsule # fWaitForCapsule /\ fSendCapsule \notin {fRegisterEphemeral, fGetAddresses, 0}
      /\ fWaitForCapsule \notin {fRegisterEphemeral, fGetAddresses, 0}
      /\ pending # fSendCapsule /\ {fRegisterEphemeral, fGetAddresses} \subseteq SyncFunctions
    BY DEF Kept, CallerInv, fSendCapsule, fWaitForCapsule, fRegisterEphemeral, fGetAddresses, SyncFunctions
<1>9. CASE ~ r.ok
    <2>1. node' = "ended" /\ down' = down /\ net' = net
        BY <1>1, <1>9
    <2> QED
        BY <1>1, <1>5, <1>6, <1>7, <2>1, GoneKeeps DEF NodeTypes
<1>10. CASE r.ok /\ r.fid = fSendCapsule /\ SendCapsuleIn(r.body) /\ UNCHANGED <<node, down>>
    <2> DEFINE c == UnpackCapsule(r.body)
    <2>1. net' = IF c.ok THEN Append(net, c) ELSE net
        BY <1>10, Zenon DEF SendCapsuleIn
    <2>2. c = Failed \/ c \in CapsuleSet
        BY <1>3, <1>10, UnpackType
    <2> HIDE DEF c
    <2>3. net' \in Seq(CapsuleSet)
        <3>1. ~ Failed.ok
            BY DEF Failed
        <3>2. c.ok => c \in CapsuleSet
            BY <2>2, <3>1
        <3> QED
            BY <1>6, <2>1, <3>2
    <2>4. Answers' = Answers
        BY <1>1, <1>10 DEF Answers
    <2>5. Idle' \/ Asked'
        BY <1>1, <1>3, <1>4, <1>8, <1>10, <2>4 DEF Idle, Asked
    <2>6. CallInv'
        BY <1>4, <2>5 DEF CallInv
    <2> QED
        BY <1>1, <1>5, <1>6, <1>7, <1>10, <2>3, <2>6 DEF NodeTypes
<1>11. CASE r.ok /\ r.fid = fWaitForCapsule
    <2>1. /\ node' = (IF WaitUnpack(r.body) THEN "wait" ELSE node)
          /\ down' = down /\ net' = net
        BY <1>1, <1>8, <1>11
    <2>2. Len(r.body) = 4
        <3> DEFINE n == Len(r.body)
        <3>1. 6 = 2 + n /\ n \in Nat
            BY <1>3, <1>4, <1>11, LenProperties
        <3> HIDE DEF n
        <3>2. n = 4
            BY ONLY <3>1
        <3> QED
            BY <3>2 DEF n
    <2>3. node' = "wait"
        BY <2>1, <2>2 DEF WaitUnpack
    <2>4. Answers' = Answers
        BY <1>1, <2>1 DEF Answers
    <2>5. Held'
        BY <1>1, <1>3, <1>4, <1>8, <1>11, <2>3, <2>4 DEF Held
    <2>6. CallInv'
        BY <1>4, <2>5 DEF CallInv
    <2> QED
        BY <1>1, <1>5, <1>6, <1>7, <2>1, <2>3, <2>6 DEF NodeTypes
<1>12. CASE r.ok /\ r.fid \in {fRegisterEphemeral, fGetAddresses}
    <2> DEFINE f == r.fid
               body == Response(f)
    <2>1. Respond(f, body) /\ node' = node /\ net' = net
        BY <1>1, <1>8, <1>12
    <2>2. RpcFits(body)
        BY <1>12, SmallResponses, AddressesFit DEF Response
    <2> HIDE DEF body
    <2>3. f \in SyncFunctions /\ f = pending /\ Todo' = <<>> /\ Answers = <<>> /\ pending # 0
        BY <1>3, <1>4, <1>8, <1>12
    <2> HIDE DEF f
    <2>4. down' \in Seq(Byte) /\ Answers' = <<f>>
        BY <1>1, <2>1, <2>2, <2>3, RespondKeeps
    <2>5. Replied'
        BY <1>1, <2>1, <2>3, <2>4 DEF Replied
    <2>6. CallInv'
        BY <1>4, <2>5 DEF CallInv
    <2> QED
        BY <1>1, <1>5, <1>6, <1>7, <2>1, <2>4, <2>6 DEF NodeTypes
<1> QED
    BY <1>1, <1>9, <1>10, <1>11, <1>12

-----------------------------------------------------------------------------
(* All steps together. *)
NodeStep == NodeReads \/ Execute \/ Found \/ TimeOut \/ NodeEnds \/ NodeDies

(* The steps of the node. *)
LEMMA NodeStepKeeps ==
    ASSUME WireInv, NodeStep
    PROVE  WireInv'
<1>1. Kept /\ StreamInStep /\ CallInv
    BY DEF WireInv
<1>2. StreamTypes' /\ StreamInStep' /\ CallInv' /\ NodeTypes'
    BY <1>1, NodeReadsKeeps, ExecuteKeeps, FoundKeeps, TimeOutKeeps, NodeGoneKeeps DEF NodeStep
<1>3. UNCHANGED <<user, app, pending, server, lost>>
    BY DEF NodeStep, NodeReads, Execute, Found, TimeOut, NodeEnds, NodeDies, NodeOnly
<1>4. UserInv' /\ AppInv(app)' /\ ServerInv(server)' /\ CallerInv' /\ lost' \in 0..MaxLost
    BY <1>1, <1>3 DEF Kept, UserInv, CallerInv
<1>5. Kept'
    BY <1>2, <1>4 DEF Kept, StreamTypes, NodeTypes
<1> QED
    BY <1>2, <1>5 DEF WireInv

(* The steps of the program. *)
LEMMA ClientKeeps ==
    ASSUME HashGivesBytes, WireInv, ClientStep
    PROVE  WireInv'
<1>1. Kept /\ StreamInStep /\ CallInv
    BY DEF WireInv
<1>2. UserInv' /\ AppInv(app)' /\ CallerInv'
    BY <1>1, ClientStepKeeps
<1>3. StreamTypes' /\ StreamInStep' /\ CallInv'
    BY <1>1, ClientStreams
<1>4. UNCHANGED <<node, queue, net, lost, server>>
    BY DEF ClientStep, AskPort, AskAddresses, SendCapsule, AskCapsule, AppReads, AppReadFails, PortAnswer,
           AddressesAnswer, CapsuleAnswer, CallFails, UserCommand, Exit, ClientOnly
<1>5. Kept'
    BY <1>1, <1>2, <1>3, <1>4 DEF Kept, StreamTypes
<1> QED
    BY <1>3, <1>5 DEF WireInv

ServerStep == Serve \/ Lose

(* The steps of the server. *)
LEMMA ServerStepKeeps ==
    ASSUME HashGivesBytes, ParameterGivesBytes, WireInv, ServerStep
    PROVE  WireInv'
<1>1. Kept /\ StreamInStep /\ CallInv
    BY DEF WireInv
<1>2. UNCHANGED <<user, app, pending, node, appRd, nodeRd, up, down, sent, executed>>
    BY DEF ServerStep, Serve, Lose, ServerOnly, streamVars
<1>3. StreamInStep' /\ CallInv'
    BY <1>1, <1>2, AsideKeeps
<1>4. UserInv' /\ AppInv(app)' /\ CallerInv' /\ StreamTypes'
    BY <1>1, <1>2 DEF Kept, UserInv, CallerInv, StreamTypes
<1>5. ServerInv(server)' /\ queue' \in Seq(FittingSet) /\ lost' \in 0..MaxLost /\ net' \in Seq(CapsuleSet)
    <2>1. UserInv /\ ServerInv(server) /\ queue \in Seq(FittingSet) /\ net \in Seq(CapsuleSet) /\ lost \in 0..MaxLost
        BY <1>1 DEF Kept
    <2>2. CASE Serve
        BY <2>1, <2>2, ServeKeeps
    <2>3. CASE Lose
        <3>1. net # <<>> /\ lost < MaxLost /\ net' = Tail(net) /\ lost' = lost + 1 /\ queue' = queue /\ server' = server
            BY <2>3 DEF Lose
        <3>2. net' \in Seq(CapsuleSet)
            BY <2>1, <3>1, HeadTailProperties
        <3>3. lost' \in 0..MaxLost
            BY <2>1, <3>1, WireFacts
        <3> QED
            BY <2>1, <3>1, <3>2, <3>3
    <2> QED
        BY <2>2, <2>3 DEF ServerStep
<1>6. Kept'
    BY <1>1, <1>2, <1>4, <1>5 DEF Kept, StreamTypes
<1> QED
    BY <1>3, <1>6 DEF WireInv

(* Every step keeps the invariant. *)
LEMMA StepKeeps ==
    ASSUME HashGivesBytes, ParameterGivesBytes, WireInv, [Next]_vars
    PROVE  WireInv'
<1>1. CASE UNCHANGED vars
    <2>1. UNCHANGED <<user, app, server, queue, net, lost, pending, node, appRd, nodeRd, up, down, sent, executed>>
        BY <1>1 DEF vars
    <2>2. Kept /\ StreamInStep /\ CallInv
        BY DEF WireInv
    <2>3. StreamInStep' /\ CallInv'
        BY <2>1, <2>2, AsideKeeps
    <2>4. Kept'
        BY <2>1, <2>2 DEF Kept, UserInv, CallerInv
    <2> QED
        BY <2>3, <2>4 DEF WireInv
<1>2. CASE Next
    <2>1. ClientStep \/ NodeStep \/ ServerStep
        BY <1>2 DEF Next, ClientStep, NodeStep, ServerStep
    <2> QED
        BY <2>1, ClientKeeps, NodeStepKeeps, ServerStepKeeps
<1> QED
    BY <1>1, <1>2

(* An empty stream has no messages. *)
LEMMA NothingUnread ==
    /\ ReaderInv(ReadMessage(<<>>)) /\ Unread(ReadMessage(<<>>), <<>>) = <<>>
    /\ Messages(<<>>) = <<>> /\ Functions(<<>>) = <<>>
<1> DEFINE rd == ReadMessage(<<>>)
<1>1. rd = [buf |-> <<>>, phase |-> "length", acc |-> <<>>, num |-> 4]
    BY DEF ReadMessage, LengthSize
<1>2. <<>> \in Seq(Byte) /\ Len(<<>>) = 0
    BY NoBytes
<1>3. ReaderInv(rd)
    <2>1. rd.buf = <<>> /\ rd.phase = "length" /\ rd.acc = <<>> /\ rd.num = 4
        BY <1>1
    <2>2. rd \in Reader
        <3> DEFINE e == <<>>
                   n == 4
        <3>1. e \in Seq(Byte) /\ n \in Nat /\ rd = [buf |-> e, phase |-> "length", acc |-> e, num |-> n]
            BY <1>1, <1>2
        <3> HIDE DEF e, n, rd
        <3> QED
            BY <3>1 DEF Reader
    <2> HIDE DEF rd
    <2>3. Len(rd.buf) = 0 /\ Len(rd.acc) + rd.num = 4 /\ rd.num # 0
        BY <1>2, <2>1
    <2>4. Len(rd.buf) <= ReadBufferSize
        BY <2>3, WireFacts
    <2> QED
        BY <2>1, <2>2, <2>3, <2>4 DEF ReaderInv
<1>4. Unread(rd, <<>>) = <<>>
    <2>1. Unread(rd, <<>>) = <<>> \o <<>> \o <<>>
        BY <1>1 DEF Unread
    <2>2. <<>> \o <<>> = <<>>
        BY <1>2, ConcatEmptySeq
    <2> QED
        BY <2>1, <2>2
<1>5. Messages(<<>>) = <<>>
    BY <1>2, MessagesUnfold
<1>6. Functions(<<>>) = <<>>
    <2>1. Functions(<<>>) \in Seq(Nat) /\ Len(Functions(<<>>)) = Len(Messages(<<>>))
        BY <1>2, FunctionsType
    <2>2. Len(Functions(<<>>)) = 0
        BY <1>5, <2>1
    <2> QED
        BY <2>1, <2>2, EmptySeq
<1> QED
    BY <1>3, <1>4, <1>5, <1>6

(* The invariant holds at first. *)
LEMMA InitKeeps ==
    ASSUME Init
    PROVE  WireInv
<1>1. UserInv
    <2>1. PICK u \in Users, a \in SecretsA, j \in Junk :
               user = [name |-> u.name, password |-> u.password, a |-> a, junk |-> j]
        BY DEF Init
    <2>2. /\ u.name \in Seq(Byte) /\ u.password \in Seq(Byte) /\ a \in Seq(Byte) \ {<<>>}
          /\ j.hop \in Nat /\ j.dx \in BOOLEAN /\ j.appId \in Sized(HashSize)
        BY UserTyped
    <2>3. user.name = u.name /\ user.password = u.password /\ user.a = a /\ user.junk = j
        BY <2>1
    <2> QED
        BY <2>2, <2>3, Zenon DEF UserInv
<1>2. AppInv(app)
    <2> DEFINE n == AddressSize
               z == Zeros(n)
    <2>1. n \in Int /\ n >= 0
        BY Sizes
    <2>2. app = [pc |-> "port", port |-> 0, address |-> z, step |-> 0, seq |-> 1, tries |-> 0,
                 request |-> <<>>, srpA |-> <<>>, sca |-> Failed, enc |-> 0, dec |-> 0, out |-> "none"]
        BY DEF Init, AppInit
    <2>3. z \in Sized(AddressSize)
        <3> HIDE DEF n
        <3>1. z \in Seq(Byte) /\ Len(z) = n
            BY <2>1, ZerosBytes
        <3> QED
            BY <3>1 DEF n, Sized
    <2> HIDE DEF n, z
    <2>4. <<>> \in Seq(Byte) /\ RpcFits(<<>>) /\ 0 \in 0..MaxTries
        BY NoBytes, SmallResponses, WireFacts
    <2>5. app \in AppSet
        BY <2>2, <2>3, <2>4 DEF AppSet, Ends
    <2> QED
        BY <2>2, <2>4, <2>5 DEF AppInv
<1>3. ServerInv(server)
    <2>1. server = [state |-> "ZERO", seq |-> 1, last |-> <<>>, ver |-> Failed, enc |-> 0, dec |-> 0, up |-> TRUE]
        BY DEF Init, ServerInit
    <2>2. <<>> \in Seq(Byte) /\ Len(<<>>) = 0
        BY NoBytes
    <2>3. 0 + 6 <= MaxNumber
        BY Limits, SMT
    <2>4. server \in ServerSet
        BY <2>1, <2>2 DEF ServerSet
    <2> QED
        BY <2>1, <2>2, <2>3, <2>4 DEF ServerInv
<1>4. /\ appRd = ReadMessage(<<>>) /\ nodeRd = ReadMessage(<<>>) /\ pending = 0 /\ node = "read" /\ up = <<>> /\ down = <<>>
      /\ queue = <<>> /\ net = <<>> /\ lost = 0 /\ sent = <<>> /\ executed = 0
    BY DEF Init
<1>5. Kept
    <2>1. ReaderInv(appRd) /\ ReaderInv(nodeRd) /\ up \in Seq(Byte) /\ down \in Seq(Byte)
        BY <1>4, NothingUnread, NoBytes
    <2>2. queue \in Seq(FittingSet) /\ net \in Seq(CapsuleSet) /\ lost \in 0..MaxLost /\ sent \in Seq(FunctionIds)
          /\ executed \in 0..Len(sent)
        BY <1>4, EmptySeq, WireFacts
    <2> QED
        BY <1>1, <1>2, <1>3, <1>4, <2>1, <2>2 DEF Kept, CallerInv
<1>6. Requests = <<>> /\ Answers = <<>>
    BY <1>4, NothingUnread DEF Requests, Answers
<1>7. Todo = <<>>
    <2>1. Len(Todo) = 0
        <3>1. sent \in Seq(FunctionIds) /\ executed \in 0..Len(sent) /\ Len(sent) - executed = 0
            BY <1>4, <1>5 DEF Kept
        <3> QED
            BY <3>1, BehindType DEF Todo, Behind
    <2> QED
        BY <1>5, <2>1, TodoType, EmptySeq
<1>8. StreamInStep
    BY <1>6, <1>7, NothingUnread DEF StreamInStep, Requests, Todo
<1>9. WaitsWhole(Requests) /\ Sends(Todo)
    BY <1>6, <1>7, NothingUnread DEF WaitsWhole, Sends
<1>10. CallInv
    BY <1>4, <1>6, <1>9 DEF CallInv, Idle
<1> QED
    BY <1>5, <1>8, <1>10 DEF WireInv

(* What the invariant says of the properties. *)
LEMMA InvTypes ==
    ASSUME WireInv
    PROVE  TypeOK
<1>1. Kept
    BY DEF WireInv
<1>2. \A b \in Seq(Byte) : Bytes(b)
    <2>1. SUFFICES ASSUME NEW b \in Seq(Byte)
                   PROVE  \A i \in DOMAIN b : b[i] \in Byte
        BY Zenon DEF Bytes, Range
    <2> QED
        BY ElementOfSeq, LenProperties
<1>3. ASSUME NEW rd, ReaderInv(rd), NEW pipe \in Seq(Byte)
      PROVE  ReaderOK(rd, pipe)
    <2>1. rd \in Reader
        BY <1>3 DEF ReaderInv
    <2>2. rd.buf \in Seq(Byte) /\ rd.acc \in Seq(Byte) /\ rd.num \in Nat /\ rd.phase \in {"length", "body", "message"}
        BY <2>1 DEF Reader
    <2>3. \A n \in Pieces(rd, pipe) : Len(rd.buf) + n <= ReadBufferSize
        BY <1>3, PiecesBound
    <2>4. Len(rd.acc) \in Nat /\ MaxNumber \in Nat /\ 4 <= MaxNumber
        BY <2>2, LenProperties, Limits, SMT
    <2>5. rd.num <= MaxNumber
        BY <1>3, <2>2, <2>4 DEF ReaderInv
    <2>6. (rd.phase = "message") = (rd.num = 0)
        BY <1>3, <2>2 DEF ReaderInv
    <2> QED
        BY <1>2, <2>2, <2>3, <2>4, <2>5, <2>6 DEF ReaderOK
<1>4. ReaderOK(appRd, down) /\ ReaderOK(nodeRd, up) /\ Bytes(up) /\ Bytes(down)
    BY <1>1, <1>2, <1>3 DEF Kept
<1>5. pending \in SyncFunctions \cup {0}
    BY <1>1 DEF Kept, CallerInv, SyncFunctions
<1>6. /\ app.pc \in {"port", "addresses", "send", "wait", "prompt", "done"} /\ app.out \in Ends
      /\ (app.pc = "done") = (app.out # "none") /\ app.seq \in Nat \ {0} /\ app.tries \in 0..MaxTries
    BY <1>1 DEF Kept, AppInv, AppSet
<1>7. server.state \in {"ZERO", "ALPHA", "BETA"} /\ server.seq \in Nat \ {0}
    BY <1>1 DEF Kept, ServerInv, ServerSet
<1> QED
    BY <1>1, <1>4, <1>5, <1>6, <1>7 DEF TypeOK, Kept, Ends

(* The answer belongs to the call that waits for it. *)
LEMMA InvAnswers ==
    ASSUME WireInv
    PROVE  OwnAnswer
BY DEF WireInv, CallInv, OwnAnswer, Idle, Asked, Held, Replied, Answers, fWaitForCapsule

(***************************************************************************)
(* The programs, the node and the streams between them, in every reachable *)
(* state: the inductive invariant.                                         *)
(***************************************************************************)
THEOREM WireAlways ==
    ASSUME HashGivesBytes, ParameterGivesBytes
    PROVE  Spec => []WireInv
<1>1. Init => WireInv
    BY InitKeeps
<1>2. WireInv /\ [Next]_vars => WireInv'
    BY StepKeeps
<1> QED
    BY <1>1, <1>2, PTL DEF Spec

(***************************************************************************)
(* Everything has its type: no reader wants more bytes than there is room  *)
(* for (bufferprocessor.cpp, clenvalueseparator.cpp), no counter runs past *)
(* its limit, and both ends of the login hold proofs of the right sizes.   *)
(***************************************************************************)
THEOREM WireTyped ==
    ASSUME HashGivesBytes, ParameterGivesBytes
    PROVE  Spec => []TypeOK
<1>1. WireInv => TypeOK
    BY InvTypes
<1> QED
    BY <1>1, WireAlways, PTL

(***************************************************************************)
(* However the pipes hand the bytes over and wherever                      *)
(* BufferProcessor::readSome stops, the calls in the stream to the node    *)
(* are those that were sent and not executed, in their order, and no frame *)
(* is ever torn or read from a wrong place (clenvalueseparator.cpp:18).    *)
(***************************************************************************)
THEOREM FunctionsInStep ==
    ASSUME HashGivesBytes, ParameterGivesBytes
    PROVE  Spec => []StreamInStep
<1>1. WireInv => StreamInStep
    BY DEF WireInv
<1> QED
    BY <1>1, WireAlways, PTL

(***************************************************************************)
(* A response that CRpcInvoker::invokeSynchronousFunction reads is the one *)
(* to its own request (crpcinvoker.cpp:46), though it looks at neither a   *)
(* number nor at what it is an answer to: requests without a response lie  *)
(* between.                                                                *)
(***************************************************************************)
THEOREM AnswerIsOwn ==
    ASSUME HashGivesBytes, ParameterGivesBytes
    PROVE  Spec => []OwnAnswer
<1>1. WireInv => OwnAnswer
    BY InvAnswers
<1> QED
    BY <1>1, WireAlways, PTL
================================================================================
