# A verification of san2

san2 is a small overlay network.  A *node* process owns one or more
interfaces, each a line to a peer node, and serves *applications* on the same
machine through a Unix-domain pipe.  Applications register 16-bit ports and
exchange *capsules*; the shell (a client and a server) is the one application
in the repository and runs an authenticated remote terminal over capsules.

This directory holds TLA+ models of the parts of san2 where concurrency,
failure and ordering decide whether it is correct, the TLC configurations that
check them, and TLAPS proofs of what matters most for every instance.

## 1. Inventory

| Component | State | Operations | Talks to |
|---|---|---|---|
| `CProducerConsumer` (`utils/cproducerconsumer.hpp`) | `m_que`, a mutex, two condition variables | `try_push`, two `push`, `try_pop`, two `pop` | every thread of a node |
| `CThread`, `CThreadManager` (`utils`) | `mTerminated`, `mFinished`, the set of threads | start, terminate, join, `joinIfFinished` | servers, channels, queues |
| `CNode` (`node/cnode.cpp`) | input queue, set of interfaces | `run`: pop, deliver or route; `injectCapsule`, `addInterface` | interfaces, port map, pipe server |
| `CPortmap` (`node/cportmap.cpp`) | port -> queue, next ephemeral port | `registerPort`, `getEphemeralPort`, `getPortQueue`, `freePorts` | node thread and channel threads |
| `CNodeServiceChannel`, `interfaces/*In` | application queue, RPC executor | the requests of an application | port map, node queue |
| `PipeServer`, `PipeChannel` (`cppl`) | thread manager | accept, start, join, delete | channels |
| `CTcpInterface`, `CCapsuleReceiver` (`interfaces/tcp`) | output queue, peer address, line status | connect, keep alive, send; accept, receive | peer node |
| RPC (`rpc`, `comm`, `stream`) | function tables, read position | invoke, invoke synchronously, execute | byte streams |
| `StopWaitTx`, `StopWaitRx` (`shell`) | a sequence number each, last response | `sendReliableMessage`, `incommingCapsule` | node connector |
| `ClientSession`, `Session`, `SessionManager` (`shell`) | handshake state, keys, session table | SRP handshake, encrypted commands | stop-and-wait |
| `CIpcChannel` (`node/cipcchannel.cpp`) | a capsule under construction | terminal commands | node |
| `BufferProcessor` (`cppl`) | read buffer | `readLine`, `readSome` | terminal |
| `CCapsule`, codecs, `crypto`, configuration | values | pack, unpack, encrypt, parse | all |

How they interact: a receiver thread unpacks a capsule and pushes it into the
node's input queue; the node thread pops it, and either looks its port up in
the port map and tries to push it into an application's queue, or tries to
push it into the output queue of every interface whose peer has the
destination address.  An interface thread pops it and sends it over TCP.  The
thread of an application's channel pops the application's queue when asked to.
All of these meetings are `CProducerConsumer` queues; the only other structure
shared by threads is the port map.

Where it is hard, and what correct means:

* **Queue.** Monitor with two condition variables, timeouts, spurious
  wake-ups, a termination flag nobody signals.  Correct: bounded, FIFO, no
  lost wake-up, no standoff, termination noticed, timeouts truthful.
* **Port map and delivery.** Unsynchronised map; a pointer used after its
  owner may be gone; port search that wraps, applications that vanish.  Correct: a port has one owner
  until that owner leaves, the map leads to living channels only, everything
  is released, a slow application harms nobody else.
* **Stop and wait.** Loss, duplication, delay, repetition, a caller that
  ignores a failure.  Correct: a request executed at most once, a reply handed
  to its own call, every call returns.
* **Shell sessions.** A server automaton, stale sessions, one failing client
  that ends the server.  Correct: only authenticated requests are executed
  and a client that starts afresh can get in.
* **TCP interface.** Reconnection, half-open lines, stale peer address, a socket
  whose failure to read is taken for data.
  Correct: nothing sent to a peer that is not there, order kept, the capsules
  lost bounded by the reconnections.
* **RPC and streams.** Requests without responses, short reads.  Correct: a
  response belongs to its request; framing survives partial transfers.

`PROJECT.json` lists each hazard with its line.

## 2. Plan

Order of work, the most important first; (done) is in this directory.

1. `BoundedQueue`, `ProducerConsumer`, proofs (done).
2. `RemoteCall`, `StopWait`, proofs (done).
3. `NodePorts`, proofs (done).
4. `ShellSession`: handshake, commands and the session table over `StopWait`'s
   numbers; late messages, restart of clients and server (done).
5. `CapsuleNet`, `LossyLine`: nodes, the lines between them and the terminal,
   with lines that break and nodes that restart (done).
6. `Wire` over `Codec`, `Srp` and `Datagrams`: a whole session of the shell as
   bytes; `Aes`, `AesModes`: the block cipher (done).
7. Theorems about 4 and 5: all properties of `ShellSession`, `TypeOK` and
   `OneHop` of `CapsuleNet` (done).
8. The rest of `CapsuleNet`: the refinement of `LossyLine` and
   `HealthyLineKeeps`, then `NoExtraCopies` on top of them (done).
9. Theorems about 6: `TypeOK`, `StreamInStep` and `OwnAnswer` of `Wire`, and
   that each format is read back as it was written: capsules, the messages of
   the shell, encrypted datagrams, the arithmetic of the login (done).

Runs keep two or three actors, queues of one or two, and fewer than a million
states.  Modules that are proved about use no recursive operators.

How the modules build on each other:

```
Bytes -- Codec -- Srp --.
  |        `- CodecTests |-- Datagrams -- Wire -- MCWire (with the tests)
  |-- AesModes ----------'
  `-- Aes -- AesVectors (with AesModes)
ProducerConsumer => BoundedQueue     StopWait => RemoteCall
CapsuleNet => LossyLine              NodePorts, ShellSession
CapsuleNet_proofs -- CapsuleCopies_proofs
WireData_proofs -- Wire_proofs
```

(`--` is EXTENDS, `=>` is refinement.)

## 3. Modules

### ProducerConsumer, BoundedQueue

`ProducerConsumer` models the monitor.  A thread holds `m_mutex` from the
moment it gets it until it returns or waits, so such a stretch is one step:
`Block`, `ReturnTimeout`, `ReturnTerminated`, `Push` and `Pop` are what a
thread that is about to own the mutex can do with it, selected by the
predicates `MustWait` (the while conditions), `GivesUp` (the -2 of the two
`try_` operations) and `SeesTermination`.  `que` is `m_que`; `pc` says whether
a thread is outside, about to lock, waiting, woken or timed out; `rc` is what
its last call returned.  `TimeRunsOut`, `SpuriousWakeup` and `Terminate` may
happen at any time.  `BoundedQueue` says what callers may rely on: each call
takes effect once between its start and its return, or fails with a reason
that is true.

| Run | Instance | Shows |
|---|---|---|
| `pc_safety` | 2 producers, 2 consumers, 2 items, length 2, one terminable owner, symmetry | `TypeOK`, `Bounded`, `NoLostWakeup`, `NoStandoff`, refinement of `BoundedQueue` |
| `pc_live` | fair, 1 producer, 2 consumers that keep calling, length 2, an owner for each side | `TerminatedCallReturns`, `FullQueueDrains` |

Two threads on each side are enough for one `notify_all` to release two
competitors, the case in which a missing re-check overshoots; length 2
distinguishes full, empty and neither.

Fairness: every holder of the mutex releases it after a bounded stretch of
code, so each thread that competes gets it eventually; a `wait_for` ends when
its time is over.  `ServedSpec` adds that consumers call again, which the
loops of `CNode::run` and `CTcpInterface::run` do.

### StopWait, RemoteCall

`txSeq` and `rxSeq` are the two `m_expectedSeqNum`; `toRx` and `toTx` are the
capsules ever sent, each of which may arrive never, once, again or late.
`Send`, `AwaitFails`, `SkipResponse`, `AcceptResponse`, `Abort` and `GiveUp` are
the paths through the loop of `sendReliableMessage`; `Process` and `RepeatLast`
those through `incommingCapsule`; `ServerExits` is the `return -6` of
`shell_server.cpp`, for this client's request or for anybody's.  `executed`
records what `processDatagram` accepted.  The payload of a request is the
number of its call and the payload of a response the request it answers, which
is all the properties need.  `Ignored` are the calls whose failure the caller
overlooks; in the program it is the third, the `hostname` request of
`clientsession.cpp:150`.

| Run | Instance | Shows |
|---|---|---|
| `sw_exchange` | `Ignored` = {3, 4}, 3 repetitions, 5 calls, fair | `TypeOK`, `SeqWindow`, `AtMostOnce`, `ReplyMatches`, refinement of `RemoteCall`, `SendReturns` |

`ReplyMatches` states precisely how far replies can be trusted: because a
failed call does not advance the sequence number, the call after an ignored
failure can receive the reply to the lost request.  In the program this means
that the answer to `hostname` can be shown as the answer to the first command.

Fairness is that of the client's own thread; nothing is assumed of the
network or the server.  The program overlooks the failure of the third call
only; with the fourth added, two requests in a row can be lost and the fifth
call can receive the reply to either.  The proofs cover any number of calls and
any set `Ignored`.  The sequence numbers are 64 bits wide in the
code and natural numbers here: they start at 1, grow by one for each answered
request, and cannot reach 2^64.

### NodePorts

`owner` is `mapPorts` and `nextEph` is `m_ephemeralPort`.  For each place in
memory where a channel can live, `th` is what its thread is doing, `gen` counts
the objects that have lived there, `queue` is the application queue, and `told`
the port that the last reply gave the application as registered (0 if it gave
none).  `inbox`, `nodePc`, `cur` and `dsque` are the input queue, the position in
`CNode::run`, the capsule in hand and the pointer looked up for it.

`app` is the application's end of the pipe.  `AskNode`, `EnterRegister`,
`EnterEphemeral`, `WaitForCapsule` and `SendCapsule` are the requests; all but the
last end with a response (`Respond`), which lies in the pipe until the
application reads it (`AppReads`).  An application may hang up at any point.  If
it had read everything, `recv` returns 0 and the channel ends in order
(`RunEnds`).  If it left a response unread, the kernel reports ECONNRESET, and
the node does not survive it (`ReadAborts`): the -1 of `recv` passes for a number
of bytes (`helper.cpp:127-130`), the length of the read buffer wraps
(`bufferprocessor.cpp:111`) and an assert ends the process (`helper.cpp:24`).
`nodePc` is then "aborted" and nothing happens any more; what the other
variables hold is how things were at that moment.

A method of the port map is entered in one step and takes its effect in
another, as no mutex keeps others out; overlapping effects are taken as atomic,
the mildest outcome of the data race.  Use of a deleted queue leads to
`nodePc = "undefined"`, after which the node does nothing: the rest of the
behaviour is not defined by the code.  A queue is named by the place it lives
in, so a stale pointer may also hit the next channel at that place.

| Run | Instance | Shows |
|---|---|---|
| `np_safety` | 2 channels, 2 ephemeral ports, queues of 1, 2 objects for each place, symmetry | `TypeOK`, `PortsLive`, `DeliveredToOwner`, `PortKept`, `EphemeralFound` |
| `np_live` | 1 channel, inbox of 2, 2 objects, fair | `PortsReleased`, `ChannelsDeleted`, `InboxServed`, each of them unless the node was aborted by an application that left a response unread |
| `np_mutex` | finds a violation | `PortmapMutexed` |
| `np_stale` | finds a violation | `PushedOnlyIfRegistered` |
| `np_reply` | finds a violation | `RegisteredPortsOwned` |

Ports 2..`EphLimit`-1 are ephemeral and `EphLimit` stands for 65535, which can
be registered but is never given out.  In `np_safety` two channels compete for
two ephemeral ports, so the search wraps and fails; the other runs have one
ephemeral port and 65535.  `MaxGen` bounds the objects per place; the second
object is the one a stale pointer can hit.  `np_live` has one channel, as the
liveness of two is beyond TLC's time; channels meet only in the port map, in
which no call waits for another, in the node's queue, whose other writers are
`Arrive`, and in that each can end the process for all.

Fairness: the threads of node and channels run; a wait for a capsule times out;
the accept loop of the pipe server wakes up at least every `TIME_CON` and joins
finished threads; a closed pipe holds finitely many requests, so `recv` reports
its end or its failure at last (strong fairness of `RunEnds` and `ReadAborts`).
All of this as long as the process runs.  Applications owe nothing.

The node has an interface, whose thread makes the process ignore SIGPIPE
(`ctcpinterface.cpp:64`), so that a response to an application that is gone fails
and no more.  A node without one would die of it: the service channel has only a
TODO for it (`cnodeservicechannel.cpp:58`).

### ShellSession

The automata of `ClientSession::run` and `Session::processDatagram`, with
`StopWait`'s exchange as one step.  A message stays in the network for good, so
each can arrive again at any time, also at a server that was restarted or at a
client that uses the port of an earlier one.  `client` is the program on each
port, `sess` is `sessionStorage`, and `ZeroKnown`, `ZeroUnknown`, `AlphaProved`,
`AlphaRefused`, `BetaCommand` and `BetaFails` are the paths through the three
states; `Repeat` is the answer to a number that is not expected.  Cryptography
is what it promises: a challenge is new, a proof of the password belongs to one
challenge, a datagram decrypts under its own key and number.

| Run | Instance | Shows |
|---|---|---|
| `shell_sessions` | 1 port, 2 programs, 2 commands each, 1 restart of the server, right and wrong passwords and an unknown user | `TypeOK`, `OnlyTheUser`, `ExecutedInOrder`, `AnswerShown`, `RefusedRightly`, `NobodyFails`, `SecondProgramShutOut` |

One port is the interesting number: programs on different ports have different
sessions and share nothing but the fate of the server.  Two of the properties
say what the code's omissions cost: a session is never removed, so
(`RefusedRightly`) a right password may be refused after somebody else used the
port, and (`SecondProgramShutOut`) the later program never gets to a command.
`NobodyFails` says that the exit of the whole server on a bad request is out of
reach of clients that follow the protocol while the server is not restarted;
once it is, the model has such exits, and the property excludes them.

`ran` is what the server executed, as pairs of a session key and a command;
`shown` is what the users read, each answer with the command it was shown for
and the command the server had made it for.  All seven properties are proved for
any number of ports, programs, commands and restarts (section 4).

No fairness is assumed and no liveness stated: a client may always give up.

### CapsuleNet, LossyLine

All of `CNode::run` that is about routing, the sender thread of each interface
(`Open`, `Pop`, `AliveFails`, `Send`, `SendFails` of `CTcpInterface::run`), its
receiver (`Accept`, `FirstMessage`, `FirstFails`, `Execute`, `RunEnds`), the
queues between them, and the terminal.  A line has one direction: the sender of
interface *i* connects to the server of `Remote[i]`.  `conns` holds, for each
server, the connections it was offered, oldest first, because one is served at a
time and the old one is still being read when the sender has opened the next.
`Restart` is the death and new start of a node.  `LossyLine` is what is left of
this for a user of a line: a queue that may lose items, and does not repeat,
reorder or invent them.

A connection ends in one of three ways, the `st` of its record:

* "cut": the process of the sender died (`Dies`).  Nothing is ever written to the
  sender of a line, so it leaves nothing unread and its kernel ends the connection
  in order: all that was written arrives, and then `recv` returns 0 (`FirstFails`,
  `RunEnds`), and the server accepts again.  `Open` takes the connection and the
  first message in one step; a sender that dies between the two is the choice of
  `unsaid` in `Dies`.
* "reset": the network lost what was under way from some point on, and the
  receiver gets an error behind what did arrive (`Break`).  `recv` returns -1,
  which `sock_read_stream` reports as SUCCESS with 4294967295 bytes
  (`tcphelper.cpp:143-146`); `tcpstreamrw.cpp:40` copies as many out of a small
  buffer, and the process of the receiving node dies (`Crash`).
* "quiet": lost as before, and the receiver gets nothing more at all.

A node that died, by itself or by a `Crash`, is started again: `Dies` has both in
one step.  Who starts it is not part of san2.

| Run | Instance | Shows |
|---|---|---|
| `net_lines` | 2 nodes, an interface on each side of one link, a terminal, queues of 1, 2 pushes, 1 reset, 1 restart besides the crashes, fair | `TypeOK`, `HealthyLineKeeps`, `OneHop`, `NoExtraCopies`, refinement of `LossyLine`, `LinesComeBack` |

Queues of one are full as soon as a capsule waits, so both the drop at the
output queue and the wait at the input queue happen; two connections per server
are an old and a new one.  `NoExtraCopies` allows two copies of what a terminal
sent, because `send` and `sendmsg` inject their capsule twice
(`cipcchannel.cpp:89`).  `OneHop` states what the comparison with the peer's
address amounts to: san2 does not forward; a capsule for a real address is in
its origin or at its destination.  `OneHop` and `NoExtraCopies` are proved for
every network in which a link is configured at both ends, as it is in the
instance, `HealthyLineKeeps` and the refinement for every network.  That two
lines between the same nodes carry a capsule twice and no more is the theorem's
(`ArrivesOncePerLine`); the run has one line in each direction.

`Pending` is what is on its way over a line: the data of its connections in the
order they are read, the capsule in the sender's hand and the output queue.

Fairness: the threads of node, senders and receivers run.  The network owes
nothing but breaks a bounded number of times.  `LinesComeBack` holds of a
connection that ends in order.  Of one that is reset it holds only because the
node that crashes of it is started again: the program by itself does not get
back to `accept`, and what the node held is lost.  Of a "quiet" end it fails - a
peer that loses power sends no end, and the receiver waits for it without a limit
(`tcphelper.cpp:126`) while it is the only connection it serves; with "quiet" in
`Breaks` TLC shows the line staying down.  `HealthyLineKeeps`, the refinement and
the other invariants are proved for all three.

### Wire and the modules under it

`Wire` runs one shell client, its node and the server's session with every
message as a sequence of bytes.  `app` is the program (main of
`shell_client.cpp`, `ClientSession`, `StopWaitTx`), `node` the executor of its
channel, `server` the `Session`; `appRd` and `nodeRd` are the two ends of the
local stream, `up` and `down` the bytes in it.  `AppReads` and `NodeReads` take
as many bytes as the stream happens to hand over and pass them through
`BufferProcessor::readSome` and the length-value separator; `Execute` is the
executor.  `Serve` is the server's loop.  Capsules between the nodes may be
lost; the node may die at any time (`NodeDies`), perhaps in the middle of a
response, and `CallFails` and `AppReadFails` are what the program makes of it.

* `Codec`: capsules, RPC datagrams and their arguments, frames, the packets and
  the seven messages of the shell, hexadecimal text.  `CodecTests` states the
  self-tests of `messageconstructor.cpp` for every content over a few bytes.
* `Srp`: both ends of the login, the password file, `create_user`.  Numbers are
  reduced where the code reduces them, and padded where and how it pads them.
* `Datagrams`: key derivation, counter, MAC and sequence number of
  `crypto/drel`, with the position in the key stream, which a context keeps from
  one datagram to the next.  The 16-bit block counter does not advance
  (`aescounter.cpp:60` moves the pointer), and the model has it so.
* `Aes`, `AesModes`: tables, key schedules with their short-cut forms for
  decryption, both ciphers and the five modes of `crypto/aes`.  `AesVectors`
  states the nine vectors of `rfc3686.cpp`, that the fixed tables are what
  `aes_init` would compute, that decryption undoes encryption for the three key
  lengths, and that a stream mode gives the same in one call as in several.

These tests are assumptions, which TLC evaluates before the `wire` runs.

| Run | Instance | Shows |
|---|---|---|
| `wire` | 2 accounts, 3 users, a group of 16 bits, hash of 1 byte, a toy block cipher, pieces of 7 and 64 bytes, buffer of 12, 2 tries, 2 capsules lost, 1 command | `TypeOK`, `StreamInStep`, `OwnAnswer`, `Delivered`, `RightPassword`, `CallReturns` |
| `srp_padding` | the same with a short A; finds a violation | `PadsAsSaid` |

The lengths are chosen so that each limit is met: the read buffer is smaller
than a message and smaller than a single read, a piece ends inside the length
of a frame, and a command is longer than a block of the cipher.  Contents that
are too long for their message are `CodecTests`'.

Fairness: the program reads while it waits, and the node's channel reads,
executes and comes back from `try_pop` (`WF` of `AppReads` with `AppReadFails`,
`NodeReads`, `Execute`, `Found` or `TimeOut`).  Nothing is assumed of the
server, the network or the user.  `CallReturns` is then about the code: each
synchronous request is one that the executor can unpack and answer.

Deadlock is not checked in the runs other than `pc_`: a client that stopped or
a bound that was reached ends the behaviour.

### What the violated claims mean

* `np_mutex`: `registerin.hpp:20` asks for a mutex inside the port map; there is
  none.
* `np_stale`: between `getPortQueue` and `try_push` (`cnode.cpp:102-110`) the
  channel can free its ports and be deleted.
* `np_reply`: `registerin.cpp:33-34` tests the same flag twice, so the reply to
  a refused registration is an uninitialised integer.
* `srp_padding`: u is said to be H(PAD(A) || PAD(B)) (`osslmathimpl.cpp:119` and
  `:279`).  For a short B `resize` cuts or fills what stands before B, at
  both ends; for a short A the client puts the zeros behind A and the server
  before it, so that the two compute different numbers and a right password is
  refused: about one login in 256.

The comparison `*bytesRead < 0` of an unsigned (`helper.cpp:129`,
`tcphelper.cpp:146`) contradicts the text around it as well: the assert at
`helper.cpp:24`, by which the length of a read buffer stays within the buffer, and
"we want this to be really fault-tolerant" of the receiver
(`csingletcpserver.cpp:128`), as the remote node could disconnect and come back.
That is no run of its own, because the models state the outcome in an action and
a run would only find that action: `ReadAborts` (an application goes with a
response unread, and the node with all its channels ends), `Crash` (a connection
is reset, and the node that receives on it is gone with what waited in its
queues) and `AppReadFails` of `Wire` (the node dies with a request unread, and the
program ends by the assert).  The properties say what is still true beside them.

Smaller disagreements between text and code, met on the way and not made into
runs: `ctcpinterface.hpp:31-33` says that a server accepts only the predefined
peer, while it takes whoever connects; `capsule dx off` sets the flag
(`cipcchannel.cpp:306`); `readDelimeter` looks for a line feed whatever
delimeter it is given; `cnodeconnector.cpp:33` frees with `free` what `new` made;
`shell_client.cpp:51` reads an unsigned int into a 16-bit port.

## 4. Proofs

Everything proved holds for all values of the constants that satisfy the named
assumptions (which are those of the program: disjoint producers and consumers,
natural bounds, a non-empty ephemeral range among the ports, finitely many
interfaces that belong to a node and have an address other than the default).

* `ProducerConsumer_proofs`: `IInv` = types, capacity and `NoLostWakeup`.
  The last is its own strengthening: a push leaves no consumer waiting because
  it notifies all of them, and wakes no sleeping producer's condition because
  the queue had room, when by the invariant no producer was waiting.
  `NoStandoff` follows: a queue is not both full and empty.  `QueueRefinement`
  maps every step to a step of `BoundedQueue` or a stutter.
* `StopWait_proofs`: `IInv` adds to the properties that a capsule in flight
  never carries a number beyond the ends (`Reached`), that one number is used
  for one executed request only (`OneSeqPerRequest`, `ExecutedInOrder`), that
  responses tell the truth (`RepliesTrue`) and that a number is used again only
  after a failure (`ReusedOnlyAfterFailure`).  From it follow the window, at
  most one execution, the meaning of replies and the refinement of
  `RemoteCall`.
* `NodePorts_proofs`: `IInv` = types, `PortsLive`, and for the delivery that a
  generation never decreases (`GenGrows`), by which a channel that is over is
  told from its successor.  `EphemeralPortIsFree` (through the well-foundedness
  of the naturals) says that the search answers 0 or a free port; `PortKept`
  and `EphemeralFound` follow step by step.

* `ShellSession_proofs`: three invariants, each on top of the ones before.
  `IInv` = types, `Known` (every program and challenge that a message names has
  begun), `Phases` (a session's state and the type of a message go with their
  numbers: A is 1, B is 2, C is 3 or more), and with them `OnlyTheUser`, which
  needs in addition that a proof M2 in the network was made for somebody with
  the right password (`ProofsDeserved`).  `CInv` is about the commands: what ran
  was sent, and the session whose key it has is past its number (`RanSent`) -
  that is why nothing runs twice, and after a restart the session with that key
  is gone, because a challenge belongs to one session (`SessionsDiffer`).
  `SentInOrder` and `RequestsSoFar` say which requests a program has sent, with
  the one number that may carry two of them after hostname was given up; from
  this follow `ExecutedInOrder` and `AnswerShown`.  `FInv` is about the first
  life of the server (`restarts = 0`): there is one response for each number
  (`ResponsesFirst`), each refusal has a request as its reason (`ReasonsFirst`)
  and a client past M2 has the key of its port's session (`RequestsFirst`), which
  gives `RefusedRightly`, `NobodyFails` and `SecondProgramShutOut`.
* `CapsuleNet_proofs`: `IInv` has one part for each group of variables and says
  of each queue whose capsules it may hold: in a node what began there or is at
  its destination (`Inside`), in the hand of the routing loop what began there
  (`Leaving`), on a line what goes from its origin to its destination
  (`Crossing`).  `OffersCross` is the heart: the peer of an interface is somebody
  who connects to it.  For `OneHop` this has to be the one the interface itself
  connects to, so `AtMostOneHop` assumes that links are configured at both ends
  (`Paired`), which the program does not check.
  In its second half every step is a step of `LossyLine` or a stutter
  (`NextLine`).  The step that needs an invariant is `Send`: what it writes must
  come after everything that is pending, so the connection it writes on must be
  the last of its line.  `LineInv` says that it is (`LastLive`), that a sender
  about to open has none left (`OpenIdle`), and that nothing comes of a
  connection whose first message was lost (`NothingBehind`), without which its
  end would lose capsules from the middle of the line.  One lemma for each
  action says what it does to `Pending` and `received` of each line: it keeps
  them, puts a capsule at the end, gets the one at the head, or loses some
  (`Keeps`, `Puts`, `Gets`, `Loses`); `Dies` has one for `Restart` and
  `Crash`.  `HealthyLinesKeep` reuses these with
  `HealthyInv`: while nothing breaks all connections are up and a sender that is
  connected has one, so that nothing is lost.
* `CapsuleCopies_proofs`: `NoExtraCopies` by counting.  `CopyInv` says of each
  capsule with a real destination that at its node the copies in stock (the
  node's queue and the one a terminal will inject again) and delivered are no
  more than were injected (`AtHome`); that on each line of its node those in
  stock, still due, pending and received are no more either (`OverLines`); that
  every other node has delivered or queued no more than it received (`Away`);
  and that it is on lines of its own node only, which is where `Paired` and
  `Crossing` come in (`FromHome`).  Pending copies alone would not do: a capsule
  leaves the stock once and enters every output queue that takes it.
  `ArrivesOncePerLine` then counts what came to the destination by line.

* `WireData_proofs`: the data of a session, below `Wire`'s actions.  It begins
  with strings of bytes (what is put together, what is cut out), then for each
  format what it gives has its type and its size.  The heart is the stream:
  `Messages` of what is written and not read is the list of its messages,
  `MessagesAppend` says that a frame written behind whole messages is one more
  at the end, `ReadSomeKeeps` that reading a piece of any size changes nothing
  of what is still to be read, `MessageRead` that a message that is complete was
  the first of them.  A reader's buffer, the message it collects and the pipe
  are put together again for that (`Unread`, `Begin`).  Four theorems are about
  the contents:
  `CapsuleRoundTrip` (`pack`, `unpack`, by cutting a string of six parts);
  `ShellMessagesReturn` (every message of the shell, the refusals, the packet);
  `DatagramReturns`: XOR taken bit by bit undoes itself (`XorTwice`), and the
  mask that the counter mode makes depends on how long the data are and not on
  what they are (`Masked`), nor on where the last datagram stopped, since
  `StartPos` starts anew;
  `LoginAgrees`: squaring and multiplying computes powers (`PowNext`, `PowSum`,
  `PowPow`), and both ends raise g to the same power (`SecretsAgree`).
* `Wire_proofs`: `WireInv` = types of everything both programs, the node, the
  streams and the capsules hold (`Kept`), `StreamInStep`, and `CallInv`: where
  the call that the program waits for is.  It is among the requests as the last
  of them (`Asked`), in the hands of the node (`Held`), answered (`Replied`), or
  there is none and all that is left to be done has no response (`Idle`).
  `OwnAnswer` alone is not inductive: that the node has nothing else to answer
  before it gets to the call needs to know what the requests before it are, and
  that a request to wait on its way has a body of four bytes, which the
  executor can unpack (`WaitsWhole`).  `Kept` says of all that is written that
  its length has a number the decoder can tell (`RpcFits`, `Fitting`,
  `MessageFits`): the sizes of the formats are what makes streams keep in step.
  One lemma for each action of the program, the node and the server.

The theorems of these two modules have hypotheses besides the assumptions of
the constants:

* `HashGivesBytes`, `ParameterGivesBytes`, `CipherGivesBlocks`: the hash
  function gives digests of its size, the node's parameters are strings of
  bytes, the cipher gives blocks.  SHA-1, `Parameter` of the node and AES do,
  and so do the functions of `MCWire`.  They speak of every string of bytes,
  which TLC cannot enumerate; that is why they stand in the theorems and not
  among the ASSUMEs.
* `LoginAgrees`: both ends accept what they are given (`s.ok`, `c.ok`); A has as
  many bytes as N (`LenN <= Len(srpA)`): for a shorter one the ends disagree,
  which is what `srp_padding` shows; a + u x < N, because the client adds modulo
  N, which is not the order of the group: in the program this holds, for N has
  1024 bits (`protoconst.hpp:4`), a 256 and u and x, two SHA-1 digests, 160 each;
  `N <= MaxNumber` is the model's: its numbers have three bytes.
* `CapsuleRoundTrip`: the hop count has two bytes, as its C++ type says.
* `ShellMessagesReturn`: the user's name has no 0 in it (message A ends the name
  with one).

What holds of a sequence of any length is proved by taking the least number for
which it fails (`NatLeast`), a set-theoretic form of induction: the folding
`Carried` over the connections of a server exists and is unique (`SumsExist`,
`CarriedIs`), and what it does at the two ends and in the middle of the sequence
follows (`CarriedAppend`, `CarriedFirst`, `CarriedLast`, `LiveOnWay`).  In the
same way a function defined by recursion is shown to exist (`RecursionExists`,
`MessagesFromExists`) before anything is said of its values.

Only model-checked:

* `Delivered` and `RightPassword` of `Wire`.  That a wrong password, or a
  response to an earlier login, is refused holds only as long as no two strings
  that matter have the same hash: of a hash function in general it is false,
  and an assumption that none collide is satisfied by none.  TLC checks them
  with a hash of one byte that does not collide in the instance.  `LoginAgrees`
  and `DatagramReturns` are the halves of them that hold without it: the right
  password is accepted, what was encrypted is understood.  `ShellSession_proofs`
  proves the other half for proofs and keys that cannot be guessed.
* `Aes` and `AesModes` other than counter mode: their test vectors.
* The liveness properties (`TerminatedCallReturns`, `FullQueueDrains`,
  `SendReturns`, `PortsReleased`, `ChannelsDeleted`, `InboxServed`,
  `LinesComeBack`, `CallReturns`), which need fairness and `ENABLED`, out of the
  prover's reach.

## 5. Not modelled

* The hash functions, random numbers and the big numbers of OpenSSL: constants
  of `Srp` and `Datagrams`, with small ones in the instance.
* The variants of AES that this build does not use: VIA ACE, assembler, other
  table sizes; the Windows build (`msvc`), `examples`.
* Sockets and pipes being set up and their errors there, command lines,
  configuration files, logging.
* `api/application`, `CTcpServer` and `CPortmap::unregisterPort`: nothing in the
  repository uses them.
* `BufferProcessor::readLine` and the terminal's commands as text: the terminal
  is modelled by what its commands do to the node.  It reads its pipe with the
  same function as a channel does, so leaving it with output unread is fatal to
  the node in the same way.
* SIGPIPE in a node without an interface.
* Threads that nothing terminates: the node's own and those of the interfaces.

The models of one component leave to another what that one has in detail:
`Wire` has one client and capsules that arrive in order, `ShellSession` has
several programs, late messages and restarts, `StopWait` the repetitions,
`CapsuleNet` the way of a capsule, `NodePorts` its delivery.
