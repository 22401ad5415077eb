------------------------------ MODULE NodePorts ------------------------------
(***************************************************************************)
(* Ports and applications of one node: CPortmap (src/node/cportmap.cpp),   *)
(* the service channels through which applications use it                  *)
(* (src/api/node/service/cnodeservicechannel.cpp and the RPC functions of  *)
(* src/interfaces), the PipeServer that creates and deletes the channels   *)
(* (src/cppl/pipeserver.cpp) and the part of CNode::run that delivers a    *)
(* capsule to the queue of the application that registered its port        *)
(* (src/node/cnode.cpp:92-128).                                            *)
(*                                                                         *)
(* Each channel is a thread and an object that owns one application queue. *)
(* The PipeServer deletes the object once the thread has finished, and its *)
(* memory may be used for the next connection: Channels are the places in  *)
(* memory, gen[c] counts the objects that lived at c.                      *)
(*                                                                         *)
(* The port map is a std::map that no mutex protects.  A method of it is   *)
(* entered in one step and takes its effect and returns in another; the    *)
(* effects of overlapping methods are taken to be atomic, the mildest      *)
(* outcome that the data race can have.                                    *)
(*                                                                         *)
(* All channels and the node are threads of one process, and one of them   *)
(* can end it.  The node has an interface, whose thread makes the process  *)
(* ignore SIGPIPE (ctcpinterface.cpp:64): a response to an application     *)
(* that is gone fails and no more.                                         *)
(***************************************************************************)
EXTENDS Integers, Sequences, FiniteSets

CONSTANTS Channels,      \* places where a CNodeServiceChannel can live
          NoQueue,       \* the NULL queue pointer
          Ports,         \* the port numbers in use
          EphBegin,      \* SAN2_BEGIN_EPHEMERAL_PORT, 40000
          EphLimit,      \* 65535
          InboxLen,      \* capacity of the node's input queue
          AppQueueLen,   \* SAN2_CNODESERVICECHANNEL_APPQUEMAXLEN, 20
          MaxGen         \* bound on the objects that live at one place

ASSUME ChannelAssumption == NoQueue \notin Channels
ASSUME PortAssumption ==
    /\ EphBegin \in Nat \ {0} /\ EphLimit \in Nat /\ EphBegin < EphLimit
    /\ Ports \subseteq 1..EphLimit /\ EphBegin .. (EphLimit - 1) \subseteq Ports
ASSUME BoundAssumption == InboxLen \in Nat /\ AppQueueLen \in Nat /\ MaxGen \in Nat

VARIABLES owner,     \* CPortmap::mapPorts: the queue registered for each port
          nextEph,   \* CPortmap::m_ephemeralPort
          th,        \* what the thread of each channel is doing
          gen,       \* how many channels have lived at this place
          app,       \* the application's end of the pipe of each channel
          told,      \* the port the last reply gave as registered, 0 if none
          queue,     \* m_applicationQueue: the destination ports of the capsules
          inbox,     \* CNode::m_inputQueue: capsules for this node
          nodePc,    \* "pop", "lookup" (in getPortQueue), "push" or "undefined";
                     \* "aborted": the process is over, the rest is how it was then
          cur,       \* destination port of the capsule in hand, 0 if there is none
          dsque      \* the queue pointer the node looked up, with its generation

chanVars == <<th, gen, app, told, queue>>
nodeVars == <<inbox, nodePc, cur, dsque>>
vars == <<owner, nextEph, th, gen, app, told, queue, inbox, nodePc, cur, dsque>>

(***************************************************************************)
(* "none": no object; "recv": in recvData, ready for a request;            *)
(* "register", "ephemeral", "freeing": inside a method of the port map;    *)
(* "pop": in WaitForCapsuleIn; "freed": run() is over, not yet deleted.    *)
(***************************************************************************)
ThreadStates == {"none", "recv", "register", "ephemeral", "pop", "freeing", "freed"}

(***************************************************************************)
(* "open": nothing to read for the application; "unread": a response lies  *)
(* there; "closed", "reset": it closed the pipe, having read everything or *)
(* with a response unread.  The kernel tells the node of the two apart.    *)
(***************************************************************************)
PipeStates == {"open", "unread", "closed", "reset"}

Running == nodePc # "aborted"

-----------------------------------------------------------------------------
(* CPortmap *)

Free(lo, hi) == {p \in lo .. hi : owner[p] = NoQueue}

Least(S) == CHOOSE p \in S : \A q \in S : p <= q

(* A slip: the second loop, from the first ephemeral port on, is missing. *)
EphemeralPortNoWrap ==
    IF Free(nextEph, EphLimit - 1) # {} THEN Least(Free(nextEph, EphLimit - 1)) ELSE 0

(* A slip: when every port is taken the last one tried is returned all the same. *)
EphemeralPortUnchecked ==
    IF Free(nextEph, EphLimit - 1) # {} THEN Least(Free(nextEph, EphLimit - 1)) ELSE EphBegin

(***************************************************************************)
(* getEphemeralPort: the first free port from m_ephemeralPort up to 65534, *)
(* else the first free one from 40000 up to m_ephemeralPort - 1, else 0.   *)
(***************************************************************************)
EphemeralPort ==
    IF Free(nextEph, EphLimit - 1) # {} THEN Least(Free(nextEph, EphLimit - 1))
    ELSE IF Free(EphBegin, nextEph - 1) # {} THEN Least(Free(EphBegin, nextEph - 1))
    ELSE 0

(* A slip: the increment after an erase skips an entry, so one port survives. *)
FreePortsSkipping(c) ==
    LET mine == {p \in Ports : owner[p] = c} IN
    [p \in Ports |-> IF p \in mine /\ p = Least(mine) THEN NoQueue ELSE owner[p]]

FreePorts(c) == [p \in Ports |-> IF owner[p] = c THEN NoQueue ELSE owner[p]]

-----------------------------------------------------------------------------
Init ==
    /\ owner = [p \in Ports |-> NoQueue]
    /\ nextEph = EphBegin
    /\ th = [c \in Channels |-> "none"]
    /\ gen = [c \in Channels |-> 0]
    /\ app = [c \in Channels |-> "closed"]
    /\ told = [c \in Channels |-> 0]
    /\ queue = [c \in Channels |-> <<>>]
    /\ inbox = <<>>
    /\ nodePc = "pop"
    /\ cur = 0
    /\ dsque = <<NoQueue, 0>>

-----------------------------------------------------------------------------
(* The life of a channel: PipeServer::runProc, CNodeServiceChannel::receive. *)

(* accept() and startThread: a new channel object and its thread. *)
Connect(c) ==
    /\ th[c] = "none"
    /\ gen[c] < MaxGen
    /\ th' = [th EXCEPT ![c] = "recv"]
    /\ gen' = [gen EXCEPT ![c] = @ + 1]
    /\ app' = [app EXCEPT ![c] = "open"]
    /\ queue' = [queue EXCEPT ![c] = <<>>]
    /\ UNCHANGED <<owner, nextEph, told, nodeVars>>

(* The application exits, is killed or closes the connector. *)
Hangup(c) ==
    /\ th[c] \notin {"none", "freed"}
    /\ app[c] \in {"open", "unread"}
    /\ app' = [app EXCEPT ![c] = IF @ = "unread" THEN "reset" ELSE "closed"]
    /\ UNCHANGED <<owner, nextEph, th, gen, told, queue, nodeVars>>

(* recv returns 0: recvData fails, CRpcExecutor::run returns, freePorts is entered. *)
RunEnds(c) ==
    /\ th[c] = "recv" /\ app[c] = "closed"
    /\ th' = [th EXCEPT ![c] = "freeing"]
    /\ told' = [told EXCEPT ![c] = 0]
    /\ UNCHANGED <<owner, nextEph, gen, app, queue, nodeVars>>

(***************************************************************************)
(* recv returns -1: cppl_nix_read keeps it in an unsigned, compares that   *)
(* with < 0 and reports SUCCESS; fillBuffer adds it to the length of the   *)
(* empty read buffer, which wraps; the assert of cppl_extract_buffer       *)
(* aborts the process, all channels and the node.                          *)
(***************************************************************************)
ReadAborts(c) ==
    /\ th[c] = "recv" /\ app[c] = "reset"
    /\ nodePc' = "aborted"
    /\ UNCHANGED <<owner, nextEph, chanVars, inbox, cur, dsque>>

Unregister(c) ==
    /\ th[c] = "freeing"
    /\ owner' = FreePorts(c)
    /\ th' = [th EXCEPT ![c] = "freed"]
    /\ UNCHANGED <<nextEph, gen, app, told, queue, nodeVars>>

(* A slip: finished threads are never looked for. *)
NeverJoin(c) == FALSE /\ UNCHANGED vars

(* CThreadManager::joinIfFinished joins the thread and deletes the object. *)
Join(c) ==
    /\ th[c] = "freed"
    /\ th' = [th EXCEPT ![c] = "none"]
    /\ queue' = [queue EXCEPT ![c] = <<>>]
    /\ UNCHANGED <<owner, nextEph, gen, app, told, nodeVars>>

-----------------------------------------------------------------------------
(* The requests of an application.  One that was in the pipe when the       *)
(* application hung up is still carried out: the end or the failure of the  *)
(* pipe is reported when everything in it was read.                         *)

Ready(c) == th[c] = "recv"

(* The thread goes to s to answer a request; what was told before is the past. *)
AwaitReply(c, s) ==
    /\ th' = [th EXCEPT ![c] = s]
    /\ told' = [told EXCEPT ![c] = 0]
    /\ UNCHANGED <<owner, nextEph, gen, app, queue, nodeVars>>

(* sendData: the response goes to the application, or fails if it is gone; run goes on. *)
Respond(c) ==
    /\ th' = [th EXCEPT ![c] = "recv"]
    /\ app' = [app EXCEPT ![c] = IF @ = "open" THEN "unread" ELSE @]

(* The application reads the response. *)
AppReads(c) ==
    /\ app[c] = "unread"
    /\ app' = [app EXCEPT ![c] = "open"]
    /\ UNCHANGED <<owner, nextEph, th, gen, told, queue, nodeVars>>

(* GetAddressesIn, GetParameterIn: nothing but a response. *)
AskNode(c) ==
    /\ Ready(c)
    /\ Respond(c)
    /\ told' = [told EXCEPT ![c] = 0]
    /\ UNCHANGED <<owner, nextEph, gen, queue, nodeVars>>

EnterRegister(c) ==
    /\ Ready(c)
    /\ AwaitReply(c, "register")

(* A slip: the map entry is assigned, where insert() leaves a taken port alone. *)
RegisterOverwrites(c, p) ==
    /\ th[c] = "register"
    /\ Respond(c)
    /\ owner' = [owner EXCEPT ![p] = c]
    /\ told' = [told EXCEPT ![c] = p]
    /\ UNCHANGED <<nextEph, gen, queue, nodeVars>>

(***************************************************************************)
(* RegisterIn::operator(): when the port is taken, returnValue is sent     *)
(* without ever having been assigned.  The application understands 3 as    *)
(* success and anything else as failure: either may be what it reads.  p   *)
(* is m_port, which came with the request.                                 *)
(***************************************************************************)
Register(c, p) ==
    /\ th[c] = "register"
    /\ Respond(c)
    /\ \/ /\ owner[p] = NoQueue
          /\ owner' = [owner EXCEPT ![p] = c]
          /\ told' = [told EXCEPT ![c] = p]
       \/ /\ owner[p] # NoQueue
          /\ told' \in {[told EXCEPT ![c] = p], told}
          /\ UNCHANGED owner
    /\ UNCHANGED <<nextEph, gen, queue, nodeVars>>

EnterEphemeral(c) ==
    /\ Ready(c)
    /\ AwaitReply(c, "ephemeral")

(* A slip: the answer 0, no port found, is not looked at. *)
RegisterEphemeralUnchecked(c) ==
    /\ th[c] = "ephemeral"
    /\ Respond(c)
    /\ owner' = [owner EXCEPT ![EphemeralPort] = c]
    /\ nextEph' = EphemeralPort + 1
    /\ told' = [told EXCEPT ![c] = EphemeralPort]
    /\ UNCHANGED <<gen, queue, nodeVars>>

(* RegisterEphemeralIn::operator(); the test for port + 1 > 65535 is never true. *)
RegisterEphemeral(c) ==
    /\ th[c] = "ephemeral"
    /\ Respond(c)
    /\ told' = [told EXCEPT ![c] = EphemeralPort]
    /\ LET p == EphemeralPort IN
         IF p = 0 THEN UNCHANGED <<owner, nextEph>>
         ELSE /\ owner' = [owner EXCEPT ![p] = c]
              /\ nextEph' = IF p + 1 > EphLimit THEN EphBegin ELSE p + 1
    /\ UNCHANGED <<gen, queue, nodeVars>>

(* SendCapsuleFuncIn: push() blocks while the node's input queue is full. *)
SendCapsule(c, p) ==
    /\ Ready(c)
    /\ Len(inbox) < InboxLen
    /\ inbox' = Append(inbox, p)
    /\ UNCHANGED <<owner, nextEph, chanVars, nodePc, cur, dsque>>

WaitForCapsule(c) ==
    /\ Ready(c)
    /\ AwaitReply(c, "pop")

(* WaitForCapsuleIn: try_pop returns a capsule, or nothing after the timeout. *)
WaitEnds(c) ==
    /\ th[c] = "pop"
    /\ Respond(c)
    /\ queue' = [queue EXCEPT ![c] = IF @ = <<>> THEN @ ELSE Tail(@)]
    /\ UNCHANGED <<owner, nextEph, gen, told, nodeVars>>

-----------------------------------------------------------------------------
(* The node. *)

(* A capsule for this node arrives on an interface. *)
Arrive(p) ==
    /\ Len(inbox) < InboxLen
    /\ inbox' = Append(inbox, p)
    /\ UNCHANGED <<owner, nextEph, chanVars, nodePc, cur, dsque>>

NodePop ==
    /\ nodePc = "pop"
    /\ inbox # <<>>
    /\ cur' = Head(inbox)
    /\ inbox' = Tail(inbox)
    /\ nodePc' = "lookup"
    /\ UNCHANGED <<owner, nextEph, chanVars, dsque>>

(* getPortQueue; a capsule for a port nobody registered is dropped. *)
NodeLookup ==
    /\ nodePc = "lookup"
    /\ IF owner[cur] = NoQueue
       THEN nodePc' = "pop" /\ cur' = 0 /\ UNCHANGED dsque
       ELSE nodePc' = "push" /\ dsque' = <<owner[cur], gen[owner[cur]]>> /\ UNCHANGED cur
    /\ UNCHANGED <<owner, nextEph, chanVars, inbox>>

(* A slip: push() with a timeout, which waits for room in the application's queue. *)
NodePushBlocking ==
    /\ nodePc = "push"
    /\ LET c == dsque[1] IN
         /\ th[c] # "none"
         /\ Len(queue[c]) < AppQueueLen
         /\ queue' = [queue EXCEPT ![c] = Append(@, cur)]
    /\ nodePc' = "pop" /\ cur' = 0 /\ dsque' = <<NoQueue, 0>>
    /\ UNCHANGED <<owner, nextEph, th, gen, app, told, inbox>>

(***************************************************************************)
(* dsque->try_push(capsule, this, 0): a full queue drops the capsule.      *)
(* dsque is used whatever has happened to its channel since the lookup.    *)
(***************************************************************************)
NodePush ==
    /\ nodePc = "push"
    /\ LET c == dsque[1] IN
         /\ th[c] # "none"
         /\ queue' = [queue EXCEPT ![c] = IF Len(@) < AppQueueLen THEN Append(@, cur) ELSE @]
    /\ nodePc' = "pop" /\ cur' = 0 /\ dsque' = <<NoQueue, 0>>
    /\ UNCHANGED <<owner, nextEph, th, gen, app, told, inbox>>

(* The channel was deleted: what the process does from here on is undefined. *)
NodePushDeleted ==
    /\ nodePc = "push"
    /\ th[dsque[1]] = "none"
    /\ nodePc' = "undefined"
    /\ UNCHANGED <<owner, nextEph, chanVars, inbox, cur, dsque>>

-----------------------------------------------------------------------------
(* What the thread of a channel does by itself, and what it does when asked to. *)
ThreadStep(c) ==
    \/ RunEnds(c) \/ ReadAborts(c) \/ Unregister(c) \/ RegisterEphemeral(c) \/ WaitEnds(c)
    \/ \E p \in Ports : Register(c, p)

Request(c) ==
    \/ AskNode(c) \/ EnterRegister(c) \/ EnterEphemeral(c) \/ WaitForCapsule(c)
    \/ \E p \in Ports : SendCapsule(c, p)

NodeStep == NodePop \/ NodeLookup \/ NodePush \/ NodePushDeleted

Next ==
    /\ Running
    /\ \/ \E c \in Channels :
            Connect(c) \/ AppReads(c) \/ Hangup(c) \/ Join(c) \/ ThreadStep(c) \/ Request(c)
       \/ \E p \in Ports : Arrive(p)
       \/ NodeStep

Spec == Init /\ [][Next]_vars

(***************************************************************************)
(* Fairness: the threads of the node and of the channels run, a wait for a *)
(* capsule ends within its timeout, and the accept loop of the PipeServer  *)
(* wakes up at least every TIME_CON and joins the threads that finished.   *)
(* A pipe that was hung up holds finitely many requests, so recv reports   *)
(* its end or its failure at last.  Applications need never ask for        *)
(* anything, read a response, nor hang up.                                 *)
(***************************************************************************)
FairSpec ==
    /\ Spec
    /\ \A c \in Channels :
         /\ WF_vars(Running /\ ThreadStep(c)) /\ WF_vars(Running /\ Join(c))
         /\ SF_vars(Running /\ RunEnds(c)) /\ SF_vars(Running /\ ReadAborts(c))
    /\ WF_vars(NodeStep)

-----------------------------------------------------------------------------
TypeOK ==
    /\ owner \in [Ports -> Channels \cup {NoQueue}]
    /\ nextEph \in EphBegin .. EphLimit
    /\ th \in [Channels -> ThreadStates]
    /\ gen \in [Channels -> 0..MaxGen]
    /\ app \in [Channels -> PipeStates]
    /\ told \in [Channels -> Ports \cup {0}]
    /\ queue \in [Channels -> Seq(Ports)]
    /\ inbox \in Seq(Ports)
    /\ nodePc \in {"pop", "lookup", "push", "undefined", "aborted"}
    /\ cur \in Ports \cup {0}
    /\ dsque \in (Channels \cup {NoQueue}) \X (0..MaxGen)

(***************************************************************************)
(* The port map never leads to the queue of a channel that is over: every  *)
(* registered port belongs to a channel that has still to run freePorts.   *)
(***************************************************************************)
PortsLive ==
    \A p \in Ports : owner[p] # NoQueue => th[owner[p]] \notin {"none", "freed"}

(***************************************************************************)
(* A port, once it is somebody's, stays his until his own channel runs     *)
(* freePorts, whatever others register, free or are given in the meantime: *)
(* neither registration nor the search for an ephemeral port takes it over.*)
(***************************************************************************)
PortKept ==
    [][\A p \in Ports : \A c \in Channels :
         owner[p] = c /\ owner'[p] # c => th[c] = "freeing" /\ th'[c] = "freed"]_vars

(***************************************************************************)
(* getEphemeralPort fails only when every ephemeral port is taken, however *)
(* the ports that are taken lie around m_ephemeralPort.                    *)
(***************************************************************************)
EphemeralFound ==
    [][\A c \in Channels :
         th[c] = "ephemeral" /\ th'[c] = "recv" /\ owner' = owner
            => \A p \in EphBegin .. (EphLimit - 1) : owner[p] # NoQueue]_vars

(***************************************************************************)
(* Between the lookup and the push the node may come to hold a queue that  *)
(* is not the one registered for the port any more, but only when the      *)
(* channel it found is over.  As long as that channel lives, the capsule   *)
(* goes to the application that owns the port.                             *)
(***************************************************************************)
DeliveredToOwner ==
    nodePc = "push" =>
        LET c == dsque[1] IN
        \/ owner[cur] = c
        \/ th[c] \in {"none", "freed"}
        \/ gen[c] # dsque[2]

(* The process was ended by an application that left a response unread. *)
Aborted == nodePc = "aborted" /\ \E c \in Channels : app[c] = "reset"

Over(c) == app[c] \in {"closed", "reset"}

(***************************************************************************)
(* The ports of an application that hung up become available again, even   *)
(* if its channel was waiting for a capsule or was inside the port map at  *)
(* that moment - or the whole node is gone, because some application went  *)
(* with a response unread.  Nothing else keeps a port from being released. *)
(***************************************************************************)
PortsReleased ==
    \A c \in Channels : \A p \in Ports :
        (Over(c) /\ owner[p] = c) ~> (owner[p] # c \/ Aborted)

(* Its channel is deleted, so that threads and queues do not pile up, or the node is gone. *)
ChannelsDeleted == \A c \in Channels : Over(c) ~> (th[c] = "none" \/ Aborted)

(***************************************************************************)
(* An application that does not read never stops the node: the input queue *)
(* is served again, as the node drops what does not fit in an application  *)
(* queue, if its process has not ended.                                    *)
(***************************************************************************)
InboxServed ==
    (InboxLen > 0 /\ Len(inbox) = InboxLen)
        ~> (Len(inbox) < InboxLen \/ nodePc = "undefined" \/ Aborted)

-----------------------------------------------------------------------------
(* Claims of the repository that the code does not keep. *)

(***************************************************************************)
(* "must be mutexed inside portmapper!!!" (src/interfaces/registerin.hpp): *)
(* at most one thread is inside the port map at a time.                    *)
(***************************************************************************)
PortmapMutexed ==
    LET inside == {c \in Channels : th[c] \in {"register", "ephemeral", "freeing"}}
    IN  Cardinality(inside) + (IF nodePc = "lookup" THEN 1 ELSE 0) <= 1

(***************************************************************************)
(* "Check if dstport is registered" (src/node/cnode.cpp): the queue a      *)
(* capsule is put in is one that is registered for its port.               *)
(***************************************************************************)
PushedOnlyIfRegistered == nodePc = "push" => owner[cur] = dsque[1]

(***************************************************************************)
(* "ALREADY TAKEN" (src/interfaces/registerin.cpp): an application is not  *)
(* told that it registered a port which is somebody else's.                *)
(***************************************************************************)
RegisteredPortsOwned ==
    \A c \in Channels : told[c] # 0 => owner[told[c]] = c
=============================================================================
