----------------------------- MODULE CapsuleNet -----------------------------
(***************************************************************************)
(* Nodes and the lines between them: the routing loop of CNode::run        *)
(* (src/node/cnode.cpp), the sender thread of each interface               *)
(* (src/interfaces/tcp/ctcpinterface.cpp over src/tcp/ctcpclient.cpp), its *)
(* receiver thread (src/interfaces/tcp/ccapsulereceiver.cpp over           *)
(* src/tcp/csingletcpserver.cpp), the output queue between the node and    *)
(* the sender and the input queue all receivers of a node share, and the   *)
(* terminal of a node (src/node/cipcchannel.cpp).                          *)
(*                                                                         *)
(* The sender of interface i connects to the server of Remote[i].  A line  *)
(* has one direction and a TCP connection of its own.  Nothing is ever     *)
(* sent back on it, so when the sender's process dies the connection ends  *)
(* in order: all that was written arrives, and then the end.  When the     *)
(* network breaks it, what was under way is lost from some point on, and   *)
(* the receiver gets a reset or nothing at all.  The two ends notice       *)
(* independently - the sender when a write fails, the receiver when it has *)
(* read what did arrive - and a receiver does not survive a reset.         *)
(*                                                                         *)
(* Delivery to applications is NodePorts'; here a capsule for this node is *)
(* delivered.  The threads are never terminated (no caller of terminate()  *)
(* exists for them).                                                       *)
(***************************************************************************)
EXTENDS Integers, FiniteSets, Sequences, SequencesExt

CONSTANTS Nodes, Interfaces,
          Terminals,     \* the nodes somebody has a terminal of
          NodeOf,        \* the node of each interface
          Addr,          \* m_sanaddr of each interface
          Remote,        \* the interface whose server m_remoteIp:m_remotePort is
          Default,       \* sanDefaultAddress
          Destinations,  \* the destination addresses that capsules carry
          OutLen,        \* TCP_QUEUESIZE, 50
          InboxLen,      \* INPUT_QUEUE_SIZE, 50
          Backlog,       \* connections a server holds, CTCP_MAXCONNQUEUE and one
          Breaks,        \* the ways a connection may break: "reset", "quiet"
          MaxCapsules, MaxBreaks, MaxRestarts   \* bounds on pushes by the users, on faults

ASSUME LineAssumption ==
    /\ Terminals \subseteq Nodes
    /\ NodeOf \in [Interfaces -> Nodes] /\ Remote \in [Interfaces -> Interfaces]
    /\ \A i \in Interfaces : Addr[i] # Default
ASSUME FinitelyManyInterfaces == IsFiniteSet(Interfaces)
ASSUME LengthAssumption ==
    OutLen \in Nat \ {0} /\ InboxLen \in Nat \ {0} /\ Backlog \in Nat \ {0}
ASSUME BreakAssumption == Breaks \subseteq {"reset", "quiet"}
ASSUME BoundsAssumption ==
    MaxCapsules \in Nat /\ MaxBreaks \in Nat /\ MaxRestarts \in Nat

VARIABLES
    inbox,      \* CNode::m_inputQueue
    again,      \* CIpcChannel: the capsule it has to inject once more
    cur,        \* the capsule the node routes: empty or one
    todo,       \* the interfaces the for_each has still to visit
    delivered,  \* the capsules that reached their destination at each node
    outq,       \* CTcpInterface::m_outputQueue
    tx,         \* the sender: "open", "pop" or "send"
    hand,       \* the capsule it has popped: empty or one
    conns,      \* at each server: the connection it serves and those that wait
    rx,         \* the receiver: "accept", "first" (awaits the first message) or "run"
    peer,       \* CTcpInterface::m_peeraddr
    queued,     \* how many capsules were put in each output queue
    received,   \* the capsules that came over each line
    injected, breaks, restarts

nodeVars == <<inbox, again, cur, todo, delivered>>
txVars == <<outq, tx, hand, queued>>
rxVars == <<rx, peer, received>>
bounds == <<injected, breaks, restarts>>
vars == <<inbox, again, cur, todo, delivered, outq, tx, hand, queued, conns,
          rx, peer, received, injected, breaks, restarts>>

InterfacesOf(n) == {i \in Interfaces : NodeOf[i] = n}
AddressesOf(n) == {Addr[i] : i \in InterfacesOf(n)}
LinesTo(j) == {i \in Interfaces : Remote[i] = j}

(* What may be typed in a terminal: m_capsule has no destination at first. *)
TypedDst == Destinations \cup {Default}

(* twice: injected by a terminal. *)
Capsules == [id : 1..MaxCapsules, from : Nodes, dst : TypedDst, twice : BOOLEAN]

-----------------------------------------------------------------------------
(* Connections.  hello: the first message is unread.  After the data there *)
(* is, the receiver gets the end of it ("cut": a FIN), an error ("reset":  *)
(* a RST), or nothing more, not even an end ("quiet").                     *)

NewConn(i) == [from |-> i, st |-> "up", hello |-> TRUE, data |-> <<>>]

Live(i) == {k \in DOMAIN conns[Remote[i]] :
               conns[Remote[i]][k].from = i /\ conns[Remote[i]][k].st = "up"}

(* The sender and the receiver as getTXstate and getRXstate report them. *)
TXstatus(i) == IF tx[i] = "open" THEN "diss" ELSE "conn"
RXstatus(j) == IF rx[j] = "run" THEN "conn" ELSE "diss"

(* What "peers" shows, in the terminal and in the shell. *)
Peers(n) ==
    {[rx |-> RXstatus(i), tx |-> TXstatus(i), iadr |-> Addr[i], peer |-> peer[i]] : i \in InterfacesOf(n)}

Init ==
    /\ inbox = [n \in Nodes |-> <<>>]
    /\ again = [n \in Terminals |-> <<>>]
    /\ cur = [n \in Nodes |-> <<>>]
    /\ todo = [n \in Nodes |-> {}]
    /\ delivered = [n \in Nodes |-> <<>>]
    /\ outq = [i \in Interfaces |-> <<>>]
    /\ tx = [i \in Interfaces |-> "open"]
    /\ hand = [i \in Interfaces |-> <<>>]
    /\ conns = [j \in Interfaces |-> <<>>]
    /\ rx = [j \in Interfaces |-> "accept"]
    /\ peer = [j \in Interfaces |-> Default]
    /\ queued = [i \in Interfaces |-> 0]
    /\ received = [i \in Interfaces |-> <<>>]
    /\ injected = 0 /\ breaks = 0 /\ restarts = 0

-----------------------------------------------------------------------------
(* CNode *)

(* injectCapsule: push waits while there is no room. *)
InjectCapsule(n, c) ==
    /\ Len(inbox[n]) < InboxLen
    /\ inbox' = [inbox EXCEPT ![n] = Append(@, c)]

(* From an application. *)
Inject(n, d) ==
    /\ injected < MaxCapsules
    /\ injected' = injected + 1
    /\ InjectCapsule(n, [id |-> injected + 1, from |-> n, dst |-> d, twice |-> FALSE])
    /\ UNCHANGED <<again, cur, todo, delivered, txVars, conns, rxVars, breaks, restarts>>

(***************************************************************************)
(* The terminal.  "capsule" sets one field of m_capsule or shows it, and a *)
(* value that cannot be parsed sets none; of the fields only dst matters   *)
(* here.  "send" injects a copy of m_capsule, "sendmsg" a capsule of its   *)
(* own - and then either injects the same capsule once more.               *)
(***************************************************************************)
InjectTwice(n, d) ==
    /\ again[n] = <<>>
    /\ injected + 2 <= MaxCapsules
    /\ injected' = injected + 2
    /\ LET c == [id |-> injected + 1, from |-> n, dst |-> d, twice |-> TRUE] IN
         InjectCapsule(n, c) /\ again' = [again EXCEPT ![n] = <<c>>]
    /\ UNCHANGED <<cur, todo, delivered, txVars, conns, rxVars, breaks, restarts>>

SendTyped(n) == \E d \in TypedDst : InjectTwice(n, d)
SendMsg(n) == \E d \in Destinations : InjectTwice(n, d)

(* The second injectCapsule; when its timeout is over push waits on. *)
InjectAgain(n) ==
    /\ again[n] # <<>>
    /\ InjectCapsule(n, again[n][1])
    /\ again' = [again EXCEPT ![n] = <<>>]
    /\ UNCHANGED <<cur, todo, delivered, txVars, conns, rxVars, bounds>>

(* pop; the first for_each finds the destination among the node's own addresses. *)
Deliver(n) ==
    /\ cur[n] = <<>> /\ inbox[n] # <<>>
    /\ Head(inbox[n]).dst \in AddressesOf(n)
    /\ delivered' = [delivered EXCEPT ![n] = Append(@, Head(inbox[n]))]
    /\ inbox' = [inbox EXCEPT ![n] = Tail(@)]
    /\ UNCHANGED <<again, cur, todo, txVars, conns, rxVars, bounds>>

(* pop; the second for_each is entered, and over at once if there is no interface. *)
Route(n) ==
    /\ cur[n] = <<>> /\ inbox[n] # <<>>
    /\ Head(inbox[n]).dst \notin AddressesOf(n)
    /\ cur' = [cur EXCEPT ![n] = IF InterfacesOf(n) = {} THEN <<>> ELSE <<Head(inbox[n])>>]
    /\ todo' = [todo EXCEPT ![n] = InterfacesOf(n)]
    /\ inbox' = [inbox EXCEPT ![n] = Tail(@)]
    /\ UNCHANGED <<again, delivered, txVars, conns, rxVars, bounds>>

(* The visit to one interface ends; after the last the capsule is forgotten. *)
Visited(n, j) ==
    /\ todo' = [todo EXCEPT ![n] = @ \ {j}]
    /\ cur' = [cur EXCEPT ![n] = IF todo[n] = {j} THEN <<>> ELSE @]

(* A slip: the capsule is sent on every interface. *)
OfferFlooding(n, j) ==
    /\ j \in todo[n]
    /\ Visited(n, j)
    /\ IF Len(outq[j]) < OutLen
       THEN /\ outq' = [outq EXCEPT ![j] = @ \o cur[n]]
            /\ queued' = [queued EXCEPT ![j] = @ + 1]
       ELSE UNCHANGED <<outq, queued>>
    /\ UNCHANGED <<inbox, again, delivered, tx, hand, conns, rxVars, bounds>>

(* sendCapsule, a try_push without waiting, if this peer is the destination. *)
Offer(n, j) ==
    /\ j \in todo[n]
    /\ Visited(n, j)
    /\ IF cur[n][1].dst = peer[j] /\ Len(outq[j]) < OutLen
       THEN /\ outq' = [outq EXCEPT ![j] = @ \o cur[n]]
            /\ queued' = [queued EXCEPT ![j] = @ + 1]
       ELSE UNCHANGED <<outq, queued>>
    /\ UNCHANGED <<inbox, again, delivered, tx, hand, conns, rxVars, bounds>>

-----------------------------------------------------------------------------
(* The sender, CTcpInterface::run *)

(* open closes the old socket and connects; the first message is written. *)
Open(i) ==
    /\ tx[i] = "open"
    /\ Len(conns[Remote[i]]) < Backlog
    /\ conns' = [conns EXCEPT ![Remote[i]] = Append(@, NewConn(i))]
    /\ tx' = [tx EXCEPT ![i] = "pop"]
    /\ UNCHANGED <<nodeVars, outq, hand, queued, rxVars, bounds>>

(* try_pop takes a capsule out of the output queue. *)
Pop(i) ==
    /\ tx[i] = "pop" /\ outq[i] # <<>>
    /\ hand' = [hand EXCEPT ![i] = <<Head(outq[i])>>]
    /\ outq' = [outq EXCEPT ![i] = Tail(@)]
    /\ tx' = [tx EXCEPT ![i] = "send"]
    /\ UNCHANGED <<nodeVars, queued, conns, rxVars, bounds>>

(* try_pop timed out and the alive function cannot be written. *)
AliveFails(i) ==
    /\ tx[i] = "pop" /\ outq[i] = <<>> /\ Live(i) = {}
    /\ tx' = [tx EXCEPT ![i] = "open"]
    /\ UNCHANGED <<nodeVars, outq, hand, queued, conns, rxVars, bounds>>

Write(i) ==
    LET r == Remote[i]
        written == [k \in DOMAIN conns[r] |->
                       IF k \in Live(i) THEN [conns[r][k] EXCEPT !.data = @ \o hand[i]]
                       ELSE conns[r][k]]
    IN conns' = [conns EXCEPT ![r] = written]

(* A slip: the capsule of the last round is sent once more. *)
SendTwice(i) ==
    /\ tx[i] = "send"
    /\ Write(i)
    /\ \/ hand' = [hand EXCEPT ![i] = <<>>] /\ tx' = [tx EXCEPT ![i] = "pop"]
       \/ UNCHANGED <<hand, tx>>
    /\ UNCHANGED <<nodeVars, outq, queued, rxVars, bounds>>

(* The write succeeds - on a broken connection too, as long as nothing tells the sender. *)
Send(i) ==
    /\ tx[i] = "send"
    /\ Write(i)
    /\ hand' = [hand EXCEPT ![i] = <<>>]
    /\ tx' = [tx EXCEPT ![i] = "pop"]
    /\ UNCHANGED <<nodeVars, outq, queued, rxVars, bounds>>

(* The write fails: the capsule is gone. *)
SendFails(i) ==
    /\ tx[i] = "send" /\ Live(i) = {}
    /\ hand' = [hand EXCEPT ![i] = <<>>]
    /\ tx' = [tx EXCEPT ![i] = "open"]
    /\ UNCHANGED <<nodeVars, outq, queued, conns, rxVars, bounds>>

-----------------------------------------------------------------------------
(* The receiver, CSingleTcpServer::runProc and CCapsuleReceiver::receive: one *)
(* connection at a time; the next is accepted when receive has returned.      *)

Accept(j) ==
    /\ rx[j] = "accept" /\ conns[j] # <<>>
    /\ rx' = [rx EXCEPT ![j] = "first"]
    /\ UNCHANGED <<nodeVars, txVars, conns, peer, received, bounds>>

(* parseFirstMessage: whoever connected says who it is. *)
FirstMessage(j) ==
    /\ rx[j] = "first" /\ conns[j][1].hello
    /\ peer' = [peer EXCEPT ![j] = Addr[conns[j][1].from]]
    /\ conns' = [conns EXCEPT ![j][1].hello = FALSE]
    /\ rx' = [rx EXCEPT ![j] = "run"]
    /\ UNCHANGED <<nodeVars, txVars, received, bounds>>

(* recv returns 0 before the first message is complete: reading it fails. *)
FirstFails(j) ==
    /\ rx[j] = "first" /\ ~conns[j][1].hello /\ conns[j][1].st = "cut"
    /\ conns' = [conns EXCEPT ![j] = Tail(@)]
    /\ rx' = [rx EXCEPT ![j] = "accept"]
    /\ UNCHANGED <<nodeVars, txVars, peer, received, bounds>>

Received(j) ==
    /\ conns' = [conns EXCEPT ![j][1].data = Tail(@)]
    /\ received' = [received EXCEPT ![conns[j][1].from] = Append(@, conns[j][1].data[1])]

(* A slip: the capsule is dropped when the node's queue is full. *)
ExecuteTailDrop(j) ==
    /\ rx[j] = "run" /\ conns[j][1].data # <<>>
    /\ IF Len(inbox[NodeOf[j]]) < InboxLen
       THEN /\ Received(j)
            /\ inbox' = [inbox EXCEPT ![NodeOf[j]] = Append(@, conns[j][1].data[1])]
       ELSE conns' = [conns EXCEPT ![j][1].data = Tail(@)] /\ UNCHANGED <<inbox, received>>
    /\ UNCHANGED <<again, cur, todo, delivered, txVars, rx, peer, bounds>>

(* SendCapsuleFuncIn: push waits until the node's queue has room. *)
Execute(j) ==
    /\ rx[j] = "run" /\ conns[j][1].data # <<>>
    /\ Len(inbox[NodeOf[j]]) < InboxLen
    /\ Received(j)
    /\ inbox' = [inbox EXCEPT ![NodeOf[j]] = Append(@, conns[j][1].data[1])]
    /\ UNCHANGED <<again, cur, todo, delivered, txVars, rx, peer, bounds>>

Drained(j) == rx[j] = "run" /\ conns[j][1].data = <<>> /\ conns[j][1].st = "cut"

(* A slip: receive returns an error, and the server exits forever. *)
RunEndsForever(j) ==
    /\ Drained(j)
    /\ conns' = [conns EXCEPT ![j] = Tail(@)]
    /\ rx' = [rx EXCEPT ![j] = "exited"]
    /\ peer' = [peer EXCEPT ![j] = Default]
    /\ UNCHANGED <<nodeVars, txVars, received, bounds>>

(* A slip: the peer address is not reset. *)
RunEndsKeepingPeer(j) ==
    /\ Drained(j)
    /\ conns' = [conns EXCEPT ![j] = Tail(@)]
    /\ rx' = [rx EXCEPT ![j] = "accept"]
    /\ UNCHANGED <<nodeVars, txVars, peer, received, bounds>>

(* recv returns 0: CRpcExecutor::run returns; the peer is forgotten. *)
RunEnds(j) ==
    /\ Drained(j)
    /\ conns' = [conns EXCEPT ![j] = Tail(@)]
    /\ rx' = [rx EXCEPT ![j] = "accept"]
    /\ peer' = [peer EXCEPT ![j] = Default]
    /\ UNCHANGED <<nodeVars, txVars, received, bounds>>

-----------------------------------------------------------------------------
(* What goes wrong outside. *)

(* What can still be read of a connection. *)
Broken(c, how, h, n) == [c EXCEPT !.st = how, !.hello = h, !.data = SubSeq(@, 1, n)]

(* A connection breaks: only the first n capsules on their way arrive. *)
Break(i) ==
    /\ breaks < MaxBreaks
    /\ breaks' = breaks + 1
    /\ \E how \in Breaks, k \in Live(i) :
         LET c == conns[Remote[i]][k] IN
         \E n \in 0 .. Len(c.data), h \in BOOLEAN :
            /\ (h => c.hello) /\ (c.hello /\ ~h => n = 0)
            /\ conns' = [conns EXCEPT ![Remote[i]][k] = Broken(c, how, h, n)]
    /\ UNCHANGED <<nodeVars, txVars, rxVars, injected, restarts>>

(***************************************************************************)
(* What its peers can read of a connection when the sender's process dies. *)
(* Open has the connection and the first message in one step: a sender in  *)
(* unsaid had connected and not written it yet.                            *)
(***************************************************************************)
Ended(c, unsaid) ==
    [c EXCEPT !.st = "cut", !.hello = @ /\ (c.from \notin unsaid \/ c.data # <<>>)]

(* The process of a node dies and is started again; its sockets are closed. *)
Dies(n) ==
    LET mine == InterfacesOf(n) IN
    /\ inbox' = [inbox EXCEPT ![n] = <<>>]
    /\ again' = [m \in Terminals |-> IF m = n THEN <<>> ELSE again[m]]
    /\ cur' = [cur EXCEPT ![n] = <<>>]
    /\ todo' = [todo EXCEPT ![n] = {}]
    /\ outq' = [i \in Interfaces |-> IF i \in mine THEN <<>> ELSE outq[i]]
    /\ hand' = [i \in Interfaces |-> IF i \in mine THEN <<>> ELSE hand[i]]
    /\ tx' = [i \in Interfaces |-> IF i \in mine THEN "open" ELSE tx[i]]
    /\ rx' = [i \in Interfaces |-> IF i \in mine THEN "accept" ELSE rx[i]]
    /\ peer' = [i \in Interfaces |-> IF i \in mine THEN Default ELSE peer[i]]
    /\ \E unsaid \in SUBSET mine :
         conns' = [j \in Interfaces |->
                     IF j \in mine THEN <<>>
                     ELSE [k \in DOMAIN conns[j] |->
                             IF conns[j][k].from \in mine /\ conns[j][k].st = "up"
                             THEN Ended(conns[j][k], unsaid) ELSE conns[j][k]]]
    /\ UNCHANGED <<delivered, queued, received, injected>>

Restart(n) ==
    /\ restarts < MaxRestarts
    /\ restarts' = restarts + 1
    /\ Dies(n)
    /\ UNCHANGED breaks

(***************************************************************************)
(* recv returns -1 for a reset: sock_read_stream keeps it in an unsigned,  *)
(* compares that with < 0 and reports SUCCESS with 4294967295 bytes, which *)
(* TcpStreamRW::readSomeAppend copies out of its buffer.  The process of   *)
(* the receiving node does not survive that.                               *)
(***************************************************************************)
Crash(j) ==
    /\ \/ rx[j] = "first" /\ ~conns[j][1].hello
       \/ rx[j] = "run" /\ conns[j][1].data = <<>>
    /\ conns[j][1].st = "reset"
    /\ Dies(NodeOf[j])
    /\ UNCHANGED <<breaks, restarts>>

-----------------------------------------------------------------------------
Loop(n) == Deliver(n) \/ Route(n) \/ \E j \in InterfacesOf(n) : Offer(n, j)
Sender(i) == Open(i) \/ Pop(i) \/ AliveFails(i) \/ Send(i) \/ SendFails(i)
Receiver(j) == Accept(j) \/ FirstMessage(j) \/ FirstFails(j) \/ Execute(j) \/ RunEnds(j) \/ Crash(j)

Terminal(n) == SendTyped(n) \/ SendMsg(n) \/ InjectAgain(n)

Next ==
    \/ \E n \in Terminals : Terminal(n)
    \/ \E n \in Nodes, d \in Destinations : Inject(n, d)
    \/ \E n \in Nodes : Loop(n) \/ Restart(n)
    \/ \E i \in Interfaces : Sender(i) \/ Receiver(i) \/ Break(i)

Spec == Init /\ [][Next]_vars

(***************************************************************************)
(* Fairness: every thread runs.  A write to a broken connection fails in   *)
(* the end, which the sender finds out with the alive function: when the   *)
(* queue is empty only AliveFails is left to it.  The network need not be  *)
(* fair: it breaks a bounded number of times.                              *)
(***************************************************************************)
FairSpec ==
    /\ Spec
    /\ \A n \in Nodes : WF_vars(Loop(n))
    /\ \A i \in Interfaces : WF_vars(Sender(i)) /\ WF_vars(Receiver(i))

-----------------------------------------------------------------------------
Connections ==
    [from : Interfaces, st : {"up", "cut", "reset", "quiet"}, hello : BOOLEAN, data : Seq(Capsules)]

TypeOK ==
    /\ inbox \in [Nodes -> Seq(Capsules)] /\ again \in [Terminals -> Seq(Capsules)]
    /\ cur \in [Nodes -> Seq(Capsules)] /\ todo \in [Nodes -> SUBSET Interfaces]
    /\ delivered \in [Nodes -> Seq(Capsules)]
    /\ outq \in [Interfaces -> Seq(Capsules)] /\ hand \in [Interfaces -> Seq(Capsules)]
    /\ tx \in [Interfaces -> {"open", "pop", "send"}]
    /\ conns \in [Interfaces -> Seq(Connections)]
    /\ rx \in [Interfaces -> {"accept", "first", "run"}]
    /\ peer \in [Interfaces -> {Default} \cup {Addr[i] : i \in Interfaces}]
    /\ queued \in [Interfaces -> Nat] /\ received \in [Interfaces -> Seq(Capsules)]
    /\ injected \in 0..MaxCapsules /\ breaks \in 0..MaxBreaks /\ restarts \in 0..MaxRestarts
    /\ \A n \in Nodes :
         /\ Len(inbox[n]) <= InboxLen
         /\ (cur[n] = <<>>) <=> (todo[n] = {})
         /\ todo[n] \subseteq InterfacesOf(n)
    /\ \A n \in Terminals : Len(again[n]) <= 1
    /\ \A i \in Interfaces :
         /\ Len(outq[i]) <= OutLen
         /\ (hand[i] # <<>>) <=> (tx[i] = "send")
         /\ (peer[i] # Default) <=> (rx[i] = "run")
         /\ rx[i] # "accept" => conns[i] # <<>>
         /\ Len(conns[i]) <= Backlog
         /\ \A k \in DOMAIN conns[i] : conns[i][k].from \in LinesTo(i)

(* What is on its way over line i: on its connections, in the sender's hand, in the queue. *)
Share(c, i) == IF c.from = i THEN c.data ELSE <<>>

Carried(cs, i) ==
    LET upTo[k \in 0 .. Len(cs)] == IF k = 0 THEN <<>> ELSE upTo[k - 1] \o Share(cs[k], i)
    IN  upTo[Len(cs)]

Pending(i) == Carried(conns[Remote[i]], i) \o hand[i] \o outq[i]

(***************************************************************************)
(* A line is a queue that may lose capsules but neither repeats, invents   *)
(* nor reorders them - across reconnections, although an old connection is *)
(* still read when the sender already writes on a new one                  *)
(* (ctcpinterface.cpp:101, csingletcpserver.cpp:130).                      *)
(***************************************************************************)
Line == INSTANCE LossyLine WITH
           Lines <- Interfaces, Items <- Capsules,
           pending <- [i \in Interfaces |-> Pending(i)]
ImplementsLossyLine == Line!Spec

(***************************************************************************)
(* As long as no connection breaks and no node restarts, nothing that the  *)
(* output queue took is lost: the receivers wait for room in the node's    *)
(* queue (sendcapsulefuncin.cpp:37), only the node drops, and only before  *)
(* a full output queue.                                                    *)
(***************************************************************************)
HealthyLineKeeps ==
    breaks = 0 /\ restarts = 0 =>
        \A i \in Interfaces : queued[i] = Len(received[i]) + Len(Pending(i))

(***************************************************************************)
(* A capsule for a real address makes at most one hop: it is taken into    *)
(* the node it began at and the one it is for, and nobody else's (the      *)
(* comparison with getPeerAddress in CNode::run, cnode.cpp:167).  This     *)
(* needs links that are configured at both ends: Remote[Remote[i]] = i.    *)
(***************************************************************************)
OneHop ==
    \A n \in Nodes : \A c \in ToSet(inbox[n]) \cup ToSet(cur[n]) :
        c.dst # Default => c.from = n \/ c.dst \in AddressesOf(n)

Copies(c, s) == Cardinality({k \in DOMAIN s : s[k] = c})

LinesBetween(m, n) ==
    {i \in Interfaces : NodeOf[i] = m /\ NodeOf[Remote[i]] = n}

(***************************************************************************)
(* At its destination a capsule arrives at most once over each line from   *)
(* its origin, and twice only if a terminal sent it, since SEND injects a  *)
(* capsule twice (cipcchannel.cpp:89).                                     *)
(***************************************************************************)
NoExtraCopies ==
    \A n \in Nodes : \A c \in ToSet(delivered[n]) :
        Copies(c, delivered[n]) <=
            (IF c.twice THEN 2 ELSE 1)
              * (IF c.from = n THEN 1 ELSE Cardinality(LinesBetween(c.from, n)))

(***************************************************************************)
(* "so if the remote and disconnects it should reconnect successfully      *)
(* later" (ctcpinterface.hpp:38): after the last break or restart every    *)
(* line comes up again, for good, and "peers" shows it at both ends.  Of   *)
(* a reset this holds only because whoever runs the node that it crashed   *)
(* starts it again, as Dies has it, and it does not hold of a "quiet" end. *)
(***************************************************************************)
LinesComeBack ==
    \A i \in Interfaces :
        <>[](/\ Live(i) # {}
             /\ \E x \in Peers(NodeOf[i]) : x.iadr = Addr[i] /\ x.tx = "conn"
             /\ \E x \in Peers(NodeOf[Remote[i]]) :
                   x.iadr = Addr[Remote[i]] /\ x.rx = "conn" /\ x.peer = Addr[i])
=============================================================================
