-------------------------------- MODULE Wire --------------------------------
(***************************************************************************)
(* One run of the shell client, byte by byte: the client program           *)
(* (src/shell/shell_client.cpp, clientsession.cpp, stopwaittx.cpp) calls   *)
(* its node over a local stream (src/api/node/connector, src/rpc,          *)
(* src/stream, src/cppl), the node executes what it reads                  *)
(* (src/api/node/service) and gives capsules to the server's session       *)
(* (src/shell/session.cpp, stopwaitrx.cpp), whose capsules come back to    *)
(* the queue of the client's port.                                         *)
(*                                                                         *)
(* The stream hands over what was written in pieces of any size.  The way  *)
(* between the node and the server loses whole capsules; CapsuleNet has it *)
(* in detail, StopWait and ShellSession have repetition and reordering.    *)
(* The server's own calls to its node are like the client's and are one    *)
(* step here.                                                              *)
(***************************************************************************)
EXTENDS Datagrams

CONSTANTS
    Users,              \* what the user may have typed: name and password
    File,               \* the server's password file
    SecretsA, SecretsB, \* what random.getRandom may give to the client and the server
    Accounts,           \* the users that create_user was run for: name, password, salt
    Commands,           \* what may be typed at the prompt
    MaxCommands,        \* bound on how many of them
    MaxTries,           \* SH_CLI_ARQ_REPETITIONS
    MaxLost,            \* bound on the capsules lost
    Chunks,             \* sizes in which the stream hands over bytes
    MaxSingleRead,      \* SAN2_CNODECONNECTOR_MAXSINGLEREADSIZE
    ReadBufferSize,     \* mReadBufferSize
    NodeAddresses,      \* the addresses of the node's interfaces
    FreePort,           \* the port getEphemeralPort finds, 0 if there is none
    ServerText,         \* the address of the server as typed
    ServerPort,
    Junk,               \* what an uninitialised capsule may contain
    Hostname, Version,  \* the words "hostname" and "version"
    ShellVersion,       \* what the server adds to the node's version
    UnknownCommand,
    Parameter(_)        \* what the server's node answers to a word, <<>> to one the server does not ask for

Texts == {b \in Seq(Byte) : Len(b) \in 1..MaxPacket}

(***************************************************************************)
(* What is typed and found are strings of bytes of the right size (main    *)
(* and run check it); a line of the password file that is not skipped has  *)
(* digits behind its name; the longest message there is, in the response   *)
(* of a WaitForCapsule, has a length that the model tells apart.           *)
(***************************************************************************)
WireConstants ==
    /\ \A u \in Users : u.name \in Seq(Byte) /\ u.password \in Seq(Byte)
    /\ \A b \in SecretsA \cup SecretsB \cup {ShellVersion, UnknownCommand} : b \in Seq(Byte)
    /\ <<>> \notin SecretsA /\ CheckNg
    /\ \A b \in Commands \cup {Hostname} : b \in Texts
    /\ File \in Seq(Seq(Seq(Byte) \ {<<>>}))
    /\ \A i \in DOMAIN File :
           Skipped(File[i]) \/ \A j \in {2, 3} \cap DOMAIN File[i] : File[i][j] \in Seq(0..NotADigit)
    /\ MaxTries \in Nat \ {0} /\ {MaxLost, FreePort, ServerPort} \subseteq Nat
    /\ Chunks \subseteq Nat \ {0} /\ {MaxSingleRead, ReadBufferSize} \subseteq Nat \ {0}
    /\ NodeAddresses \in Seq([1..AddressSize -> Byte])
    /\ ServerText \in Seq(0..NotADigit) /\ ExpandedAddress(ServerText).ok
    /\ \A j \in Junk : j.hop \in Nat /\ j.dx \in BOOLEAN /\ j.appId \in [1..HashSize -> Byte]
    /\ Len(NodeAddresses) * AddressSize + 2 <= MaxNumber
    /\ \A n \in {MaxUser + MaxA, MaxM1, MaxM2, MaxSalt + MaxB, MaxPacket + DigestLen} :
           HeaderSize + n + 23 <= MaxNumber

ASSUME WireAssumption == WireConstants

VARIABLES
    user,      \* name, password, the secret number a, the junk in capsules
    app,       \* the client program, see AppInit
    appRd,     \* its side of the stream: BufferProcessor and readMessage
    pending,   \* the function whose response it awaits, 0 if none
    node,      \* CRpcExecutor: "read", "wait" (in WaitForCapsule), "ended", "dead"
    nodeRd,    \* its side of the stream
    up, down,  \* the bytes in the stream to the node and to the client
    queue,     \* m_inputCapsuleQueue of the client's channel
    net,       \* the capsules on the way to the server
    lost,
    server,    \* the server's Session, see ServerInit
    sent,      \* history: the functions called
    executed,  \* history: how many of them were executed
    said, heard, told, shown   \* history: <<number, text>> of what was said and understood

streamVars == <<appRd, nodeRd, up, down>>
histVars == <<sent, executed, said, heard, told, shown>>
vars == <<user, app, appRd, pending, node, nodeRd, up, down, queue, net, lost, server,
          sent, executed, said, heard, told, shown>>

ServerAddress == ExpandedAddress(ServerText).out
Db == LoadFromFile(File).db

-----------------------------------------------------------------------------
(***************************************************************************)
(* One side of a stream.  buf is mReadBuffer; acc is what readMessage has  *)
(* got of the length or of the message, num how much is missing of it.     *)
(***************************************************************************)
ReadMessage(buf) == [buf |-> buf, phase |-> "length", acc |-> <<>>, num |-> LengthSize]

Turn(rd) ==
    IF rd.num > 0 \/ rd.phase = "message" THEN rd
    ELSE IF rd.phase = "body" \/ Value(rd.acc) = 0
    THEN [rd EXCEPT !.phase = "message", !.acc = IF rd.phase = "body" THEN @ ELSE <<>>]
    ELSE [rd EXCEPT !.phase = "body", !.acc = <<>>, !.num = Value(rd.acc)]

Wanted(rd) == Min({rd.num, MaxSingleRead})
MustFill(rd) == Wanted(rd) > Len(rd.buf)

(* A slip: what is left in the buffer is not moved to its start. *)
ReadSomeUnmoved(rd, chunk) ==
    LET b == rd.buf \o chunk
        n == Min({Wanted(rd), Len(b)})
    IN  Turn([rd EXCEPT !.acc = @ \o Take(b, n), !.buf = Take(b, Len(b) - n), !.num = @ - n])

(* BufferProcessor::readSome and the loop of readExactNumBytesAppend. *)
ReadSome(rd, chunk) ==
    LET b == rd.buf \o chunk
        n == Min({Wanted(rd), Len(b)})
    IN  Turn([rd EXCEPT !.acc = @ \o Take(b, n), !.buf = Drop(b, n), !.num = @ - n])

Filled(rd) == ~MustFill(rd) \/ Len(rd.buf) = ReadBufferSize

(* A slip: fillBuffer asks for a whole buffer although there is something in it. *)
PiecesOverrun(rd, pipe) ==
    IF Filled(rd) THEN {0}
    ELSE {Min({c, Len(pipe), ReadBufferSize}) : c \in IF pipe = <<>> THEN {} ELSE Chunks}

(* How much one recv hands over: fillBuffer asks for the room that is left. *)
Pieces(rd, pipe) ==
    IF Filled(rd) THEN {0}
    ELSE {Min({c, Len(pipe), ReadBufferSize - Len(rd.buf)}) : c \in IF pipe = <<>> THEN {} ELSE Chunks}

-----------------------------------------------------------------------------
AppInit ==
    [pc |-> "port", port |-> 0, address |-> Zeros(AddressSize), step |-> 0, seq |-> 1, tries |-> 0,
     request |-> <<>>, srpA |-> <<>>, sca |-> Failed, enc |-> 0, dec |-> 0, out |-> "none"]

ServerInit ==
    [state |-> "ZERO", seq |-> 1, last |-> <<>>, ver |-> Failed, enc |-> 0, dec |-> 0, up |-> TRUE]

Init ==
    /\ \E u \in Users, a \in SecretsA, j \in Junk :
         user = [name |-> u.name, password |-> u.password, a |-> a, junk |-> j]
    /\ app = AppInit
    /\ appRd = ReadMessage(<<>>) /\ nodeRd = ReadMessage(<<>>)
    /\ pending = 0 /\ node = "read" /\ up = <<>> /\ down = <<>>
    /\ queue = <<>> /\ net = <<>> /\ lost = 0
    /\ server = ServerInit
    /\ sent = <<>> /\ executed = 0
    /\ said = <<>> /\ heard = <<>> /\ told = <<>> /\ shown = <<>>

(***************************************************************************)
(* CRpcInvoker: a call writes one frame; invokeSyncFunction then waits for *)
(* a message, whose function id it reads and does not look at.             *)
(***************************************************************************)
Write(fid, body) == up' = up \o Frame(Datagram(fid, body)) /\ sent' = Append(sent, fid)

Call(fid, body) ==
    /\ pending = 0 /\ node # "dead"
    /\ Write(fid, body) /\ pending' = fid

Answered(fid) == pending = fid /\ appRd.phase = "message"

Body == LET r == RecvData(appRd.acc) IN IF r.ok THEN r.body ELSE <<>>

NextMessage == appRd' = ReadMessage(appRd.buf)

(* The call fails: the node is gone, before the request is written or before the answer is read. *)
Disconnected ==
    /\ node = "dead"
    /\ pending = 0 \/ (appRd.phase # "message" /\ ~Filled(appRd) /\ down = <<>> /\ up = <<>>)

AppReads ==
    /\ pending # 0 /\ appRd.phase # "message"
    /\ \E n \in Pieces(appRd, down) :
         appRd' = ReadSome(appRd, Take(down, n)) /\ down' = Drop(down, n)
    /\ UNCHANGED <<user, app, pending, node, nodeRd, up, queue, net, lost, server, histVars>>

ClientOnly == UNCHANGED <<user, node, nodeRd, queue, net, lost, server, executed, heard, told>>

(***************************************************************************)
(* The node died before it read all that was written, and so before it     *)
(* answered: recv fails instead of reporting the end.  Its -1 passes for a *)
(* number of bytes, the empty buffer becomes longer than it can be, and an *)
(* assert of cppl_extract_buffer ends the program.                         *)
(***************************************************************************)
AppReadFails ==
    /\ node = "dead" /\ up # <<>>
    /\ pending # 0 /\ appRd.phase # "message" /\ ~Filled(appRd) /\ down = <<>>
    /\ app' = [app EXCEPT !.pc = "done", !.out = "crashed"]
    /\ pending' = 0 /\ NextMessage
    /\ UNCHANGED <<up, down, sent, said, shown>> /\ ClientOnly

-----------------------------------------------------------------------------
(* main of shell_client.cpp: a port, an address, then the session. *)

AskPort ==
    /\ app.pc = "port" /\ Call(fRegisterEphemeral, <<>>)
    /\ UNCHANGED <<app, appRd, down, said, shown>> /\ ClientOnly

PortAnswer ==
    /\ app.pc = "port" /\ Answered(fRegisterEphemeral)
    /\ LET r == PortResult(Body) IN
         app' = IF r.ok /\ r.port # 0 THEN [app EXCEPT !.pc = "addresses", !.port = r.port]
                ELSE [app EXCEPT !.pc = "done", !.out = "no port"]
    /\ NextMessage /\ pending' = 0
    /\ UNCHANGED <<up, down, sent, said, shown>> /\ ClientOnly

AskAddresses ==
    /\ app.pc = "addresses" /\ Call(fGetAddresses, <<>>)
    /\ UNCHANGED <<app, appRd, down, said, shown>> /\ ClientOnly

(***************************************************************************)
(* StopWaitTx::sendReliableMessage is called with a message: the capsule   *)
(* is made once and sent until it is answered.  number is what is said.    *)
(***************************************************************************)
Say(a, step, text, message) ==
    /\ app' = [a EXCEPT !.pc = "send", !.step = step, !.tries = MaxTries,
                        !.request = PackCapsule(DSCapsule(ServerAddress, a.address, ServerPort, a.port,
                                                          Packet(a.seq, message), user.junk))]
    /\ said' = Append(said, <<a.seq, text>>)

End(a, how) == app' = [a EXCEPT !.pc = "done", !.out = how] /\ UNCHANGED said

(* ClientSession::run, message A. *)
Login(address) ==
    LET srpA == CalculateA(user.a).out
        m == ConstructA(user.name, srpA)
        a == [app EXCEPT !.address = address, !.srpA = srpA]
    IN  IF m.ok THEN Say(a, 1, user.name, m.out) ELSE End(a, "failed")

AddressesAnswer ==
    /\ app.pc = "addresses" /\ Answered(fGetAddresses)
    /\ LET r == AddressesResult(Body) IN
         IF r.ok /\ r.list # <<>> THEN Login(r.list[1]) ELSE End(app, "no address")
    /\ NextMessage /\ pending' = 0
    /\ UNCHANGED <<up, down, sent, shown>> /\ ClientOnly

SendCapsule ==
    /\ app.pc = "send" /\ node # "dead"
    /\ Write(fSendCapsule, app.request)
    /\ app' = [app EXCEPT !.pc = "wait"]
    /\ UNCHANGED <<appRd, pending, down, said, shown>> /\ ClientOnly

AskCapsule ==
    /\ app.pc = "wait" /\ Call(fWaitForCapsule, WaitRequest(1))
    /\ UNCHANGED <<app, appRd, down, said, shown>> /\ ClientOnly

-----------------------------------------------------------------------------
(***************************************************************************)
(* ClientSession.  enc and dec are where the last datagram ended in the    *)
(* key stream.  A command that fails ends the program unless it is         *)
(* hostname, which the client sends of itself (step 3).                    *)
(***************************************************************************)
Prompt(a) == app' = [a EXCEPT !.pc = "prompt", !.step = @ + 1] /\ UNCHANGED said

Fails(a) == IF a.step = 3 THEN Prompt(a) ELSE End(a, "failed")

Again ==
    IF app.tries > 1 THEN app' = [app EXCEPT !.pc = "send", !.tries = @ - 1] /\ UNCHANGED said
    ELSE Fails(app)

Ask(a, step, word) ==
    \E e \in {EncryptAndAuthenticate(Keys[a.sca.key].client, word, a.seq, a.enc)} :
        Say([a EXCEPT !.enc = e.pos], step, word, ConstructC(e.out))

Show(text) == shown' = Append(shown, <<app.seq, text>>)

(* The answer to A, to B, to C. *)
Challenged(a, m) ==
    IF ~m.ok THEN End(a, "failed") /\ UNCHANGED shown
    ELSE IF m.error # 0 THEN End(a, IF m.error = errUserNotFound THEN "no user" ELSE "failed") /\ Show(<<m.error>>)
    ELSE \E c \in {ClientChallenge(m.salt, user.a, a.srpA, m.srpB, user.name, user.password)} :
             /\ Show(m.srpB)
             /\ IF c.ok /\ ConstructB(c.m1).ok
                THEN Say([a EXCEPT !.sca = c], 2, c.m1, ConstructB(c.m1).out)
                ELSE End(a, "failed")

Proved(a, m) ==
    IF ~m.ok THEN End(a, "failed") /\ UNCHANGED shown
    ELSE IF m.error # 0
    THEN End(a, IF m.error = errAuthentication THEN "refused" ELSE "failed") /\ Show(<<m.error>>)
    ELSE /\ Show(m.m2)
         /\ IF ConfirmsKey(a.sca, m.m2) THEN Ask(a, 3, Hostname) ELSE End(a, "failed")

Responded(a, m) ==
    IF ~m.ok \/ m.error # 0 THEN Fails(a) /\ UNCHANGED shown
    ELSE \E d \in {DecryptAndVerifyMac(Keys[a.sca.key].server, m.response, app.seq, a.dec)} :
         IF d.ok THEN Prompt([a EXCEPT !.dec = d.pos]) /\ Show(d.out)
         ELSE End(a, "aborted") /\ UNCHANGED shown

FromServer(c) ==
    LET ports == PortsDS(c) IN
    ports.ok /\ ports.dst = app.port /\ ports.src = ServerPort /\ c.src = ServerAddress

CapsuleAnswer ==
    /\ app.pc = "wait" /\ Answered(fWaitForCapsule)
    /\ \E c \in {WaitResult(Body)} :
         IF ~c.ok \/ ~FromServer(c) THEN Again /\ UNCHANGED shown
         ELSE \E p \in {ParsePacket(Drop(c.data, 4))} :
                IF ~p.ok THEN Fails(app) /\ UNCHANGED shown
                ELSE IF p.seq # app.seq THEN Again /\ UNCHANGED shown
                ELSE \E a \in {[app EXCEPT !.seq = @ + 1]} :
                       \/ app.step = 1 /\ Challenged(a, ParseP(p.payload))
                       \/ app.step = 2 /\ Proved(a, ParseQ(p.payload))
                       \/ app.step > 2 /\ Responded(a, ParseR(p.payload))
    /\ NextMessage /\ pending' = 0
    /\ UNCHANGED <<up, down, sent>> /\ ClientOnly

UserCommand ==
    /\ app.pc = "prompt" /\ app.step <= 3 + MaxCommands
    /\ \E word \in Commands : Ask(app, app.step, word)
    /\ UNCHANGED <<appRd, pending, up, down, sent, shown>> /\ ClientOnly

Exit ==
    /\ app.pc = "prompt" /\ End(app, "exit")
    /\ UNCHANGED <<appRd, pending, up, down, sent, shown>> /\ ClientOnly

(***************************************************************************)
(* The node is gone.  getInterfaceAddresses then returns -2 as an unsigned *)
(* number, which main takes for a count: it goes on with the address that  *)
(* the end of the empty list refers to, if that does not crash it.         *)
(***************************************************************************)
CallFails ==
    /\ Disconnected
    /\ \/ app.pc = "port" /\ End(app, "no port")
       \/ app.pc = "addresses" /\ (Login(Zeros(AddressSize)) \/ End(app, "crashed"))
       \/ app.pc = "send" /\ Fails(app)
       \/ app.pc = "wait" /\ Again
    /\ pending' = 0 /\ NextMessage
    /\ UNCHANGED <<up, down, sent, shown>> /\ ClientOnly

-----------------------------------------------------------------------------
(***************************************************************************)
(* The node: CRpcExecutor::run with the functions CNodeServiceChannel      *)
(* registers.  Only of a SyncFunction is there a response.                 *)
(***************************************************************************)
NodeOnly == UNCHANGED <<user, app, appRd, pending, lost, server, sent, said, heard, told, shown>>

NodeReads ==
    /\ node = "read" /\ nodeRd.phase # "message"
    /\ \E n \in Pieces(nodeRd, up) :
         nodeRd' = ReadSome(nodeRd, Take(up, n)) /\ up' = Drop(up, n)
    /\ UNCHANGED <<node, down, queue, net, executed>> /\ NodeOnly

Respond(fid, body) == down' = down \o Frame(Datagram(fid, body))

(* SendCapsuleFuncIn, RegisterEphemeralIn, GetAddressesIn; what WaitForCapsuleIn::unpack takes waits. *)
SendCapsuleIn(body) ==
    \E c \in {UnpackCapsule(body)} : net' = IF c.ok THEN Append(net, c) ELSE net

Response(fid) == IF fid = fRegisterEphemeral THEN PortResponse(FreePort) ELSE AddressesResponse(NodeAddresses)

(* A slip: a response to every function. *)
ExecuteRespondingAlways ==
    /\ node = "read" /\ nodeRd.phase = "message"
    /\ \E r \in {RecvData(nodeRd.acc)} :
         IF ~r.ok THEN node' = "ended" /\ UNCHANGED <<down, net>>
         ELSE \/ /\ r.fid = fSendCapsule /\ SendCapsuleIn(r.body)
                 /\ Respond(r.fid, <<>>) /\ UNCHANGED node
              \/ /\ r.fid = fWaitForCapsule
                 /\ node' = (IF WaitUnpack(r.body) THEN "wait" ELSE node) /\ UNCHANGED <<down, net>>
              \/ /\ r.fid \in {fRegisterEphemeral, fGetAddresses}
                 /\ Respond(r.fid, Response(r.fid)) /\ UNCHANGED <<node, net>>
    /\ nodeRd' = ReadMessage(nodeRd.buf) /\ executed' = executed + 1
    /\ UNCHANGED <<up, queue>> /\ NodeOnly

(* executeFunction; a request that cannot be unpacked is passed over, without a response. *)
Execute ==
    /\ node = "read" /\ nodeRd.phase = "message"
    /\ \E r \in {RecvData(nodeRd.acc)} :
         IF ~r.ok THEN node' = "ended" /\ UNCHANGED <<down, net>>
         ELSE \/ r.fid = fSendCapsule /\ SendCapsuleIn(r.body) /\ UNCHANGED <<node, down>>
              \/ /\ r.fid = fWaitForCapsule
                 /\ node' = (IF WaitUnpack(r.body) THEN "wait" ELSE node) /\ UNCHANGED <<down, net>>
              \/ /\ r.fid \in {fRegisterEphemeral, fGetAddresses}
                 /\ Respond(r.fid, Response(r.fid)) /\ UNCHANGED <<node, net>>
    /\ nodeRd' = ReadMessage(nodeRd.buf) /\ executed' = executed + 1
    /\ UNCHANGED <<up, queue>> /\ NodeOnly

(* WaitForCapsuleIn: try_pop succeeds or its time is over. *)
Found ==
    /\ node = "wait" /\ queue # <<>>
    /\ Respond(fWaitForCapsule, WaitFound(Head(queue))) /\ queue' = Tail(queue)
    /\ node' = "read"
    /\ UNCHANGED <<nodeRd, up, net, executed>> /\ NodeOnly

TimeOut ==
    /\ node = "wait" /\ queue = <<>>
    /\ Respond(fWaitForCapsule, WaitNothing)
    /\ node' = "read"
    /\ UNCHANGED <<nodeRd, up, queue, net, executed>> /\ NodeOnly

(* The program has ended and everything it wrote is read; the channel frees the port. *)
NodeEnds ==
    /\ node = "read" /\ nodeRd.phase # "message" /\ ~Filled(nodeRd)
    /\ app.pc = "done" /\ up = <<>>
    /\ node' = "ended" /\ queue' = <<>>
    /\ UNCHANGED <<nodeRd, up, down, net, executed>> /\ NodeOnly

(* The node's process ends at any time, perhaps in the middle of a write; up is what it has not read. *)
NodeDies ==
    /\ node \in {"read", "wait"}
    /\ node' = "dead" /\ queue' = <<>>
    /\ \E n \in {Len(down), Len(down) - 1} : n >= 0 /\ down' = Take(down, n)
    /\ UNCHANGED <<nodeRd, up, net, executed>> /\ NodeOnly

-----------------------------------------------------------------------------
(***************************************************************************)
(* The server: shell_server's loop with the Session of this client.        *)
(***************************************************************************)
ServerOnly == UNCHANGED <<user, app, pending, node, streamVars, sent, executed, said, shown>>

(* A capsule comes to the queue of the port while the port is registered. *)
Arrives(c) == c.ok /\ node \in {"read", "wait"} /\ PortsDS(c).ok /\ PortsDS(c).dst = app.port

SendBack(bytes) ==
    \E c \in {UnpackCapsule(bytes)} :
    \/ queue' = (IF Arrives(c) THEN Append(queue, c) ELSE queue) /\ UNCHANGED lost
    \/ lost < MaxLost /\ lost' = lost + 1 /\ UNCHANGED queue

Exits == server' = [server EXCEPT !.up = FALSE] /\ UNCHANGED <<queue, lost, heard, told>>

(* incommingCapsule: the request is understood, its response is packed and kept. *)
Reply(c, session, request, message, text) ==
    \E bytes \in {PackCapsule(DSCapsule(c.src, ServerAddress, PortsDS(c).src, ServerPort,
                                        Packet(server.seq, message), user.junk))} :
        /\ server' = [session EXCEPT !.seq = server.seq + 1, !.last = bytes]
        /\ heard' = Append(heard, <<server.seq, request>>)
        /\ told' = Append(told, <<server.seq, text>>)
        /\ SendBack(bytes)

ResetState == [server EXCEPT !.state = "ZERO", !.ver = Failed, !.enc = 0, !.dec = 0]

(* processDatagram in the state ZERO, ALPHA, BETA. *)
RefuseP(c, name, error) == Reply(c, ResetState, name, ConstructFail(mP, error).out, <<error>>)

Zero(c, m) ==
    LET name == IF m.ok THEN m.user ELSE <<>> IN
    /\ server.state = "ZERO"
    /\ \/ name \notin DOMAIN Db /\ RefuseP(c, name, errUserNotFound)
       \/ /\ name \in DOMAIN Db
          /\ \E b \in SecretsB : \E ver \in {GetVerificator(Db, name, m.srpA, b)} :
               IF ~ver.ok THEN RefuseP(c, name, errSrp)
               ELSE LET out == ConstructPSuccess(Db[name].salt, ver.srpB) IN
                    IF out.ok
                    THEN Reply(c, [ResetState EXCEPT !.state = "ALPHA", !.ver = ver], name, out.out, ver.srpB)
                    ELSE Exits

RefuseQ(c, text, error) == Reply(c, ResetState, text, ConstructFail(mQ, error).out, <<error>>)

Alpha(c, m) ==
    /\ server.state = "ALPHA"
    /\ IF ~m.ok THEN RefuseQ(c, <<>>, errParsing)
       ELSE IF ~Authenticates(server.ver, m.m1) THEN RefuseQ(c, m.m1, errAuthentication)
       ELSE LET out == ConstructQSuccess(server.ver.m2) IN
            IF out.ok THEN Reply(c, [server EXCEPT !.state = "BETA"], m.m1, out.out, server.ver.m2)
            ELSE Exits

(* processApplicationDatagram; the node may have no answer. *)
ApplicationResponses(word) ==
    {IF word = Version THEN r \o ShellVersion ELSE IF r = <<>> THEN UnknownCommand ELSE r :
        r \in {Parameter(word), <<>>}}

Beta(c, m) ==
    /\ server.state = "BETA"
    /\ IF ~m.ok \/ m.request = <<>> THEN Exits
       ELSE \E keys \in {Keys[server.ver.key]} :
            \E d \in {DecryptAndVerifyMac(keys.client, m.request, server.seq, server.dec)} :
              IF ~d.ok THEN Exits
              ELSE \E r \in ApplicationResponses(d.out) :
                   \E e \in {EncryptAndAuthenticate(keys.server, r, server.seq, server.enc)} :
                     IF e.ok
                     THEN Reply(c, [server EXCEPT !.dec = d.pos, !.enc = e.pos], d.out, ConstructR(e.out, 0), r)
                     ELSE Exits

Serve ==
    /\ net # <<>> /\ server.up
    /\ \E c \in {WaitResult(WaitFound(Head(net)))} :
         IF ~PortsDS(c).ok THEN Exits
         ELSE \E p \in {ParsePacket(Drop(c.data, 4))} :
                IF ~p.ok THEN Exits
                ELSE IF p.seq # server.seq THEN SendBack(server.last) /\ UNCHANGED <<server, heard, told>>
                ELSE Zero(c, ParseA(p.payload)) \/ Alpha(c, ParseB(p.payload)) \/ Beta(c, ParseC(p.payload))
    /\ net' = Tail(net)
    /\ ServerOnly

Lose ==
    /\ net # <<>> /\ lost < MaxLost
    /\ net' = Tail(net) /\ lost' = lost + 1
    /\ UNCHANGED <<queue, server, heard, told>> /\ ServerOnly

-----------------------------------------------------------------------------
Next ==
    \/ AskPort \/ AskAddresses \/ SendCapsule \/ AskCapsule \/ AppReads \/ AppReadFails
    \/ PortAnswer \/ AddressesAnswer \/ CapsuleAnswer \/ CallFails
    \/ UserCommand \/ Exit
    \/ NodeReads \/ Execute \/ Found \/ TimeOut \/ NodeEnds \/ NodeDies
    \/ Serve \/ Lose

(* The node's channel and the program run; try_pop comes back, with or without a capsule. *)
Fairness ==
    /\ WF_vars(AppReads \/ AppReadFails) /\ WF_vars(NodeReads) /\ WF_vars(Execute) /\ WF_vars(Found \/ TimeOut)

Spec == Init /\ [][Next]_vars /\ Fairness

-----------------------------------------------------------------------------
(* What is not read yet: the messages in it, <<>> for one that is torn. *)
Unread(rd, pipe) ==
    (IF rd.phase = "length" THEN rd.acc ELSE EncodeUint(Len(rd.acc) + rd.num, LengthSize) \o rd.acc)
      \o rd.buf \o pipe

Messages(b) ==
    LET from[i \in 0..Len(b)] ==
            LET end == i + LengthSize + DecodeUint(b, i, LengthSize) IN
            IF i = Len(b) THEN <<>>
            ELSE IF i + LengthSize > Len(b) \/ end > Len(b) THEN <<<<>>>>
            ELSE <<SubSeq(b, i + LengthSize + 1, end)>> \o from[end]
    IN  from[0]

Functions(b) == [i \in DOMAIN Messages(b) |-> DecodeUint(Messages(b)[i], 0, 2)]

Bytes(b) == Range(b) \subseteq Byte

ReaderOK(rd, pipe) ==
    /\ Bytes(rd.buf) /\ \A n \in Pieces(rd, pipe) : Len(rd.buf) + n <= ReadBufferSize
    /\ Bytes(rd.acc) /\ rd.num \in 0..MaxNumber
    /\ rd.phase \in {"length", "body", "message"} /\ (rd.phase = "message") = (rd.num = 0)

(* The variables keep their types; a read buffer is never filled beyond its size (fillBuffer). *)
TypeOK ==
    /\ app.pc \in {"port", "addresses", "send", "wait", "prompt", "done"}
    /\ app.out \in {"none", "no port", "no address", "no user", "refused", "failed", "exit", "aborted", "crashed"}
    /\ (app.pc = "done") = (app.out # "none")
    /\ app.seq \in Nat \ {0} /\ app.tries \in 0..MaxTries
    /\ ReaderOK(appRd, down) /\ ReaderOK(nodeRd, up) /\ Bytes(up) /\ Bytes(down)
    /\ pending \in SyncFunctions \cup {0}
    /\ node \in {"read", "wait", "ended", "dead"}
    /\ lost \in 0..MaxLost
    /\ server.state \in {"ZERO", "ALPHA", "BETA"} /\ server.seq \in Nat \ {0}
    /\ executed \in 0..Len(sent)

(***************************************************************************)
(* However the stream cuts what is written, the node reads the functions   *)
(* the program called, each once and in order: what it has not executed is *)
(* what it has still to read (BufferProcessor::readSome,                   *)
(* CLenValueSeparator::readMessage).                                       *)
(***************************************************************************)
StreamInStep == node \in {"read", "wait"} => Functions(Unread(nodeRd, up)) = SubSeq(sent, executed + 1, Len(sent))

(***************************************************************************)
(* The response a call finds is its own: there is at most one, and none    *)
(* when no call waits.  Nothing else would do, since the function id of a  *)
(* response is not compared (crpcinvoker.cpp:46).                          *)
(***************************************************************************)
OwnAnswer ==
    node \in {"read", "wait"} =>
        Functions(Unread(appRd, down)) \in IF pending = 0 THEN {<<>>} ELSE {<<>>, <<pending>>}

(***************************************************************************)
(* What one end understands is what the other has said under the same      *)
(* number, through capsules, frames, packets and encryption, also after    *)
(* requests or responses were lost; neither program dies of it             *)
(* (clientsession.cpp:234 does not catch what decryptAndVerifyMac throws,  *)
(* shell_server.cpp:158 returns).                                          *)
(***************************************************************************)
Delivered ==
    /\ Range(heard) \subseteq Range(said) /\ Range(shown) \subseteq Range(told)
    /\ \A i, j \in DOMAIN heard : i < j => heard[i][1] < heard[j][1]
    /\ server.up /\ app.out # "aborted"

HasAccount == \E x \in Accounts : x.name = user.name /\ x.password = user.password

(***************************************************************************)
(* The server lets in who has typed the password of an account, and who is *)
(* in shares its session key; who has typed it is neither refused nor      *)
(* unknown, unless A is shorter than N (clientsession.cpp:96,108,          *)
(* session.cpp:152).                                                       *)
(***************************************************************************)
RightPassword ==
    /\ server.state = "BETA" => HasAccount
    /\ app.step >= 3 => server.state = "BETA" /\ server.ver.key = app.sca.key
    /\ app.out \in {"refused", "no user"} => ~HasAccount \/ Len(app.srpA) < LenN

(***************************************************************************)
(* A call of the program gets its response or finds the node gone; the     *)
(* invoker has no timeout of its own (crpcinvoker.cpp:46), so the executor *)
(* must respond to every request and the stream must not keep a byte back. *)
(***************************************************************************)
CallReturns == pending # 0 ~> (pending = 0 \/ appRd.phase = "message" \/ Disconnected)

(***************************************************************************)
(* osslmathimpl.cpp:119 and 279: u = H(PAD(A) || PAD(B)).                  *)
(***************************************************************************)
PadsAsSaid ==
    \A end \in {app.sca, server.ver} :
        end.ok => LET u == ToNumber(Hash(Pad(app.srpA) \o Pad(end.srpB))) IN
                  IF end = app.sca THEN ClientU(app.srpA, end.srpB) = u ELSE ServerU(app.srpA, end.srpB) = u
=============================================================================
