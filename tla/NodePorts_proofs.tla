--------------------------- MODULE NodePorts_proofs ---------------------------
(***************************************************************************)
(* What holds of the port map and of the delivery of capsules for any      *)
(* number of channels, any ports, any queue lengths, and any number of     *)
(* channels that live one after the other at the same place in memory.     *)
(***************************************************************************)
EXTENDS NodePorts, WellFoundedInduction, TLAPS

(***************************************************************************)
(* The inductive invariant.  DeliveredToOwner needs GenGrows: a channel    *)
(* that replaces the one the node looked up is told apart from it for      *)
(* ever.                                                                   *)
(***************************************************************************)
GenGrows ==
    nodePc = "push" => dsque[1] \in Channels /\ dsque[2] <= gen[dsque[1]]

Holding == nodePc \in {"lookup", "push"} => cur \in Ports

IInv == TypeOK /\ PortsLive /\ Holding /\ GenGrows /\ DeliveredToOwner

-----------------------------------------------------------------------------
(* The search for an ephemeral port. *)

LEMMA LeastIsMember ==
    ASSUME NEW S \in SUBSET Nat, S # {}
    PROVE  Least(S) \in S /\ \A q \in S : Least(S) <= q
<1>1. PICK m \in S : \A q \in S : ~(<<q, m>> \in OpToRel(<, Nat))
  BY WFMin, NatLessThanWellFounded, Zenon
<1>2. \A q \in S : m <= q
  <2> SUFFICES ASSUME NEW q \in S PROVE m <= q
    OBVIOUS
  <2>1. m \in Nat /\ q \in Nat
    OBVIOUS
  <2>2. q < m => <<q, m>> \in OpToRel(<, Nat)
    BY <2>1, Zenon DEF OpToRel
  <2>3. ~(q < m)
    BY <2>2, <1>1, Zenon
  <2> QED
    BY <2>1, <2>3
<1>3. QED
  BY <1>2, Zenon DEF Least
(* getEphemeralPort answers 0 or an ephemeral port that is free. *)
LEMMA EphemeralPortIsFree ==
    ASSUME TypeOK
    PROVE  \/ EphemeralPort = 0 /\ \A p \in EphBegin .. (EphLimit - 1) : owner[p] # NoQueue
           \/ /\ EphemeralPort \in EphBegin .. (EphLimit - 1)
              /\ EphemeralPort \in Ports
              /\ owner[EphemeralPort] = NoQueue
<1> DEFINE above == Free(nextEph, EphLimit - 1)
           below == Free(EphBegin, nextEph - 1)
<1>1. /\ EphBegin \in Nat \ {0} /\ EphLimit \in Nat /\ nextEph \in EphBegin .. EphLimit
      /\ EphBegin .. (EphLimit - 1) \subseteq Ports
    BY PortAssumption DEF TypeOK
<1>2. above \in SUBSET Nat /\ below \in SUBSET Nat
    BY <1>1 DEF Free
<1>3. CASE above # {}
  <2>1. EphemeralPort = Least(above)
    BY <1>3 DEF EphemeralPort
  <2>2. Least(above) \in above
    BY <1>2, <1>3, LeastIsMember
  <2> QED
    BY <2>1, <2>2, <1>1 DEF Free
<1>4. CASE above = {} /\ below # {}
  <2>1. EphemeralPort = Least(below)
    BY <1>4 DEF EphemeralPort
  <2>2. Least(below) \in below
    BY <1>2, <1>4, LeastIsMember
  <2> QED
    BY <2>1, <2>2, <1>1 DEF Free
<1>5. CASE above = {} /\ below = {}
  <2>1. EphemeralPort = 0
    BY <1>5 DEF EphemeralPort
  <2> QED
    BY <2>1, <1>1, <1>5 DEF Free
<1> QED
    BY <1>3, <1>4, <1>5

-----------------------------------------------------------------------------
LEMMA InitIInv == Init => IInv
<1> SUFFICES ASSUME Init PROVE IInv
    OBVIOUS
<1>1. TypeOK
    BY PortAssumption, BoundAssumption DEF Init, TypeOK, ThreadStates, PipeStates
<1>2. PortsLive /\ Holding /\ GenGrows /\ DeliveredToOwner
    BY DEF Init, PortsLive, Holding, GenGrows, DeliveredToOwner
<1> QED
    BY <1>1, <1>2 DEF IInv

(***************************************************************************)
(* A step that leaves the port map and the node alone, and neither creates *)
(* nor ends a channel.                                                     *)
(***************************************************************************)
LEMMA QuietStep ==
    ASSUME IInv, TypeOK', UNCHANGED <<owner, gen, nodePc, cur, dsque>>,
           \A c \in Channels :
               th'[c] \in {"none", "freed"} <=> th[c] \in {"none", "freed"}
    PROVE  IInv'
<1>1. PortsLive'
    BY DEF IInv, TypeOK, PortsLive
<1>2. Holding' /\ GenGrows'
    BY DEF IInv, Holding, GenGrows
<1>3. DeliveredToOwner'
    BY DEF IInv, GenGrows, DeliveredToOwner
<1> QED
    BY <1>1, <1>2, <1>3 DEF IInv

(* A response lies unread, or goes nowhere. *)
LEMMA ResponseTyped ==
    ASSUME NEW c \in Channels, Respond(c), app \in [Channels -> PipeStates]
    PROVE  app' \in [Channels -> PipeStates]
BY DEF Respond, PipeStates

LEMMA QuietThread ==
    ASSUME IInv, NEW c \in Channels,
           \/ Hangup(c) \/ AppReads(c) \/ RunEnds(c) \/ AskNode(c) \/ EnterRegister(c)
           \/ EnterEphemeral(c) \/ WaitForCapsule(c) \/ WaitEnds(c)
    PROVE  IInv'
<1>1. TypeOK'
  <2>1. queue[c] # <<>> => Tail(queue[c]) \in Seq(Ports)
    BY DEF IInv, TypeOK
  <2>2. CASE Hangup(c) \/ AppReads(c)
    BY <2>2 DEF IInv, TypeOK, PipeStates, nodeVars, Hangup, AppReads
  <2>3. CASE RunEnds(c) \/ EnterRegister(c) \/ EnterEphemeral(c) \/ WaitForCapsule(c)
    BY <2>3 DEF IInv, TypeOK, ThreadStates, nodeVars, RunEnds, EnterRegister,
              EnterEphemeral, WaitForCapsule, AwaitReply
  <2>4. CASE WaitEnds(c)
    <3>1. queue' \in [Channels -> Seq(Ports)]
      BY <2>1, <2>4 DEF IInv, TypeOK, WaitEnds
    <3>2. app' \in [Channels -> PipeStates]
      BY <2>4, ResponseTyped DEF IInv, TypeOK, WaitEnds
    <3> QED
      BY <2>4, <3>1, <3>2 DEF IInv, TypeOK, ThreadStates, nodeVars, WaitEnds, Respond
  <2>5. CASE AskNode(c)
    <3>1. app' \in [Channels -> PipeStates]
      BY <2>5, ResponseTyped DEF IInv, TypeOK, AskNode
    <3> QED
      BY <2>5, <3>1 DEF IInv, TypeOK, ThreadStates, nodeVars, AskNode, Respond
  <2> QED
    BY <2>2, <2>3, <2>4, <2>5
<1>2. /\ UNCHANGED <<owner, gen, nodePc, cur, dsque>>
      /\ \A d \in Channels :
            th'[d] \in {"none", "freed"} <=> th[d] \in {"none", "freed"}
    BY DEF IInv, TypeOK, nodeVars, Ready, Hangup, AppReads, RunEnds, AskNode, EnterRegister,
           EnterEphemeral, WaitForCapsule, AwaitReply, WaitEnds, Respond
<1> QED
    BY <1>1, <1>2, QuietStep

(* The process ends with everything as it was. *)
LEMMA AbortStep ==
    ASSUME IInv, NEW c \in Channels, ReadAborts(c)
    PROVE  IInv'
<1> USE DEF IInv, ReadAborts, chanVars
<1>1. TypeOK'
    BY DEF TypeOK
<1>2. PortsLive' /\ Holding' /\ GenGrows' /\ DeliveredToOwner'
    BY DEF PortsLive, Holding, GenGrows, DeliveredToOwner
<1> QED
    BY <1>1, <1>2

LEMMA CapsuleArrives ==
    ASSUME IInv, NEW p \in Ports, Arrive(p) \/ \E c \in Channels : SendCapsule(c, p)
    PROVE  IInv'
<1>1. TypeOK'
  <2>1. inbox' \in Seq(Ports)
    <3>1. inbox' = Append(inbox, p)
      BY DEF Arrive, SendCapsule
    <3>2. inbox \in Seq(Ports)
      BY DEF IInv, TypeOK
    <3> QED
      BY <3>1, <3>2
  <2>2. UNCHANGED <<owner, nextEph, chanVars, nodePc, cur, dsque>>
    BY DEF Arrive, SendCapsule
  <2> QED
    BY <2>1, <2>2 DEF IInv, TypeOK, chanVars
<1>2. UNCHANGED <<owner, gen, nodePc, cur, dsque, th>>
    BY DEF Arrive, SendCapsule, chanVars
<1> QED
    BY <1>1, <1>2, QuietStep

LEMMA ConnectStep ==
    ASSUME IInv, NEW c \in Channels, Connect(c)
    PROVE  IInv'
<1> USE DEF IInv, Connect, nodeVars
<1>1. TypeOK'
  <2>1. gen[c] + 1 \in 0..MaxGen
    BY BoundAssumption DEF TypeOK
  <2> QED
    BY <2>1 DEF TypeOK, ThreadStates, PipeStates
<1>2. PortsLive'
    BY DEF TypeOK, PortsLive
<1>3. Holding' /\ GenGrows'
    BY BoundAssumption DEF TypeOK, Holding, GenGrows
<1>4. DeliveredToOwner'
  <2> SUFFICES ASSUME nodePc = "push", dsque[1] = c, owner[cur] # c
               PROVE  gen'[c] # dsque[2]
    BY DEF TypeOK, DeliveredToOwner, GenGrows
  <2>1. dsque[2] <= gen[c] /\ gen[c] \in Nat /\ dsque[2] \in Nat
    BY BoundAssumption DEF TypeOK, GenGrows
  <2> QED
    BY <2>1 DEF TypeOK
<1> QED
    BY <1>1, <1>2, <1>3, <1>4

(* The port map changes owner only where it says so. *)
LEMMA UnregisterStep ==
    ASSUME IInv, NEW c \in Channels, Unregister(c)
    PROVE  IInv'
<1> USE DEF IInv, Unregister, FreePorts, nodeVars
<1>1. TypeOK'
    BY DEF TypeOK, ThreadStates
<1>2. PortsLive'
    BY ChannelAssumption DEF TypeOK, PortsLive
<1>3. Holding' /\ GenGrows'
    BY DEF TypeOK, Holding, GenGrows
<1>4. DeliveredToOwner'
  <2> SUFFICES ASSUME nodePc = "push"
               PROVE  LET d == dsque[1] IN
                        \/ owner'[cur] = d
                        \/ th'[d] \in {"none", "freed"}
                        \/ gen[d] # dsque[2]
    BY DEF DeliveredToOwner
  <2>1. dsque[1] \in Channels /\ cur \in Ports
    BY DEF GenGrows, Holding
  <2>2. CASE dsque[1] = c
    BY <2>1, <2>2 DEF TypeOK
  <2>3. CASE dsque[1] # c
    BY <2>1, <2>3 DEF TypeOK, DeliveredToOwner
  <2> QED
    BY <2>2, <2>3
<1> QED
    BY <1>1, <1>2, <1>3, <1>4

LEMMA JoinStep ==
    ASSUME IInv, NEW c \in Channels, Join(c)
    PROVE  IInv'
<1>1. TypeOK'
    BY DEF IInv, TypeOK, ThreadStates, Join, nodeVars
<1>2. /\ UNCHANGED <<owner, gen, nodePc, cur, dsque>>
      /\ \A d \in Channels :
            th'[d] \in {"none", "freed"} <=> th[d] \in {"none", "freed"}
    BY DEF IInv, TypeOK, Join, nodeVars
<1> QED
    BY <1>1, <1>2, QuietStep

(***************************************************************************)
(* A step of a channel that lives and goes on living, which takes at most  *)
(* one port, and that from nobody.                                         *)
(***************************************************************************)
LEMMA TakePort ==
    ASSUME IInv, TypeOK', NEW c \in Channels, UNCHANGED <<gen, nodePc, cur, dsque>>,
           th[c] \notin {"none", "freed"}, th' = [th EXCEPT ![c] = "recv"],
           \A p \in Ports : owner'[p] = owner[p] \/ (owner[p] = NoQueue /\ owner'[p] = c)
    PROVE  IInv'
<1> USE DEF IInv
<1>1. PortsLive'
    BY ChannelAssumption DEF TypeOK, PortsLive
<1>2. Holding' /\ GenGrows'
    BY DEF Holding, GenGrows
<1>3. DeliveredToOwner'
  <2> SUFFICES ASSUME nodePc = "push", NEW d, d = dsque[1]
               PROVE  \/ owner'[cur] = d
                      \/ th'[d] \in {"none", "freed"}
                      \/ gen[d] # dsque[2]
    BY DEF DeliveredToOwner
  <2>1. d \in Channels /\ cur \in Ports
    BY DEF GenGrows, Holding
  <2>2. CASE owner[cur] = d
    BY <2>1, <2>2, ChannelAssumption
  <2>3. CASE owner[cur] # d
    BY <2>1, <2>3 DEF TypeOK, DeliveredToOwner
  <2> QED
    BY <2>2, <2>3
<1> QED
    BY <1>1, <1>2, <1>3

LEMMA RegisterStep ==
    ASSUME IInv, NEW c \in Channels, NEW p \in Ports, Register(c, p)
    PROVE  IInv'
<1>1. /\ TypeOK /\ th[c] = "register" /\ th' = [th EXCEPT ![c] = "recv"]
      /\ app' \in [Channels -> PipeStates]
      /\ UNCHANGED <<nextEph, gen, queue, inbox, nodePc, cur, dsque>>
  <2>1. Respond(c) /\ app \in [Channels -> PipeStates]
    BY DEF IInv, TypeOK, Register
  <2>2. app' \in [Channels -> PipeStates]
    BY <2>1, ResponseTyped
  <2> QED
    BY <2>1, <2>2 DEF IInv, Register, Respond, nodeVars
<1>2. \/ owner[p] = NoQueue /\ owner' = [owner EXCEPT ![p] = c]
      \/ owner' = owner
    BY DEF Register
<1>3. told' \in [Channels -> Ports \cup {0}]
  <2>1. told' = [told EXCEPT ![c] = p] \/ told' = told
    BY DEF Register
  <2>2. told \in [Channels -> Ports \cup {0}]
    BY <1>1 DEF TypeOK
  <2> QED
    BY <2>1, <2>2
<1>4. owner' \in [Ports -> Channels \cup {NoQueue}]
    BY <1>1, <1>2 DEF TypeOK
<1>5. th' \in [Channels -> ThreadStates]
    BY <1>1 DEF TypeOK, ThreadStates
<1>6. TypeOK'
    BY <1>1, <1>3, <1>4, <1>5 DEF TypeOK
<1>7. \A q \in Ports : owner'[q] = owner[q] \/ (owner[q] = NoQueue /\ owner'[q] = c)
  <2>1. owner \in [Ports -> Channels \cup {NoQueue}]
    BY <1>1 DEF TypeOK
  <2>2. CASE owner' = owner
    BY <2>2
  <2>3. CASE owner[p] = NoQueue /\ owner' = [owner EXCEPT ![p] = c]
    BY <2>1, <2>3
  <2> QED
    BY <1>2, <2>2, <2>3
<1> QED
    BY <1>1, <1>6, <1>7, TakePort

LEMMA RegisterEphemeralStep ==
    ASSUME IInv, NEW c \in Channels, RegisterEphemeral(c)
    PROVE  IInv'
<1> DEFINE e == EphemeralPort
<1>1. /\ TypeOK /\ th[c] = "ephemeral" /\ th' = [th EXCEPT ![c] = "recv"]
      /\ app' \in [Channels -> PipeStates]
      /\ UNCHANGED <<gen, queue, inbox, nodePc, cur, dsque>>
  <2> HIDE DEF e
  <2>1. Respond(c) /\ app \in [Channels -> PipeStates]
    BY DEF IInv, TypeOK, RegisterEphemeral
  <2>2. app' \in [Channels -> PipeStates]
    BY <2>1, ResponseTyped
  <2> QED
    BY <2>1, <2>2 DEF IInv, RegisterEphemeral, Respond, nodeVars
<1>2. \/ UNCHANGED <<owner, nextEph>>
      \/ /\ e \in Ports /\ owner[e] = NoQueue /\ owner' = [owner EXCEPT ![e] = c]
         /\ nextEph' \in EphBegin .. EphLimit
  <2>1. CASE e = 0
    BY <2>1 DEF RegisterEphemeral
  <2>2. CASE e # 0
    <3>1. e \in EphBegin .. (EphLimit - 1) /\ e \in Ports /\ owner[e] = NoQueue
      BY <1>1, <2>2, EphemeralPortIsFree
    <3> QED
      BY <2>2, <3>1, PortAssumption DEF RegisterEphemeral
  <2> QED
    BY <2>1, <2>2
<1>7. told' \in [Channels -> Ports \cup {0}]
  <2>1. e \in Ports \cup {0}
    BY <1>1, EphemeralPortIsFree
  <2>2. told' = [told EXCEPT ![c] = e]
    BY DEF RegisterEphemeral
  <2> HIDE DEF e
  <2> QED
    BY <1>1, <2>1, <2>2 DEF TypeOK
<1> HIDE DEF e
<1>3. owner' \in [Ports -> Channels \cup {NoQueue}] /\ nextEph' \in EphBegin .. EphLimit
    BY <1>1, <1>2 DEF TypeOK
<1>4. th' \in [Channels -> ThreadStates]
    BY <1>1 DEF TypeOK, ThreadStates
<1>5. TypeOK'
    BY <1>1, <1>7, <1>3, <1>4 DEF TypeOK
<1>6. \A q \in Ports : owner'[q] = owner[q] \/ (owner[q] = NoQueue /\ owner'[q] = c)
  <2>1. owner \in [Ports -> Channels \cup {NoQueue}]
    BY <1>1 DEF TypeOK
  <2>2. CASE owner' = owner
    BY <2>2
  <2>3. CASE owner[e] = NoQueue /\ owner' = [owner EXCEPT ![e] = c]
    BY <2>1, <2>3
  <2> QED
    BY <1>2, <2>2, <2>3
<1> QED
    BY <1>1, <1>5, <1>6, TakePort

-----------------------------------------------------------------------------
(* The steps of the node. *)

LEMMA NodeStepKeeps ==
    ASSUME IInv, NodeStep
    PROVE  IInv'
<1> USE DEF IInv, chanVars
<1>1. CASE NodePop
  <2>1. Head(inbox) \in Ports /\ Tail(inbox) \in Seq(Ports)
    BY <1>1 DEF TypeOK, NodePop
  <2>2. TypeOK'
    BY <1>1, <2>1 DEF TypeOK, NodePop
  <2>3. PortsLive' /\ Holding' /\ GenGrows' /\ DeliveredToOwner'
    BY <1>1, <2>1 DEF NodePop, PortsLive, Holding, GenGrows, DeliveredToOwner
  <2> QED
    BY <2>2, <2>3
<1>2. CASE NodeLookup
  <2>1. cur \in Ports
    BY <1>2 DEF NodeLookup, Holding
  <2>2. CASE owner[cur] = NoQueue
    BY <1>2, <2>2 DEF TypeOK, NodeLookup, PortsLive, Holding, GenGrows, DeliveredToOwner
  <2>3. CASE owner[cur] # NoQueue
    <3>1. owner[cur] \in Channels /\ gen[owner[cur]] \in 0..MaxGen
      BY <2>1, <2>3 DEF TypeOK
    <3>2. /\ dsque' = <<owner[cur], gen[owner[cur]]>> /\ nodePc' = "push"
          /\ UNCHANGED <<owner, nextEph, th, gen, app, told, queue, inbox, cur>>
      BY <1>2, <2>3 DEF NodeLookup
    <3>3. TypeOK'
      BY <3>1, <3>2 DEF TypeOK
    <3>4. PortsLive' /\ Holding' /\ GenGrows' /\ DeliveredToOwner'
      BY <2>1, <3>1, <3>2, BoundAssumption
         DEF PortsLive, Holding, GenGrows, DeliveredToOwner
    <3> QED
      BY <3>3, <3>4
  <2> QED
    BY <2>2, <2>3
<1>3. CASE NodePush
  <2>1. dsque[1] \in Channels /\ cur \in Ports
    BY <1>3 DEF NodePush, GenGrows, Holding
  <2>2. queue' \in [Channels -> Seq(Ports)]
    BY <1>3, <2>1 DEF TypeOK, NodePush
  <2>3. TypeOK'
    BY <1>3, <2>2, BoundAssumption DEF TypeOK, NodePush
  <2>4. PortsLive' /\ Holding' /\ GenGrows' /\ DeliveredToOwner'
    BY <1>3 DEF NodePush, PortsLive, Holding, GenGrows, DeliveredToOwner
  <2> QED
    BY <2>3, <2>4
<1>4. CASE NodePushDeleted
    BY <1>4 DEF NodePushDeleted, TypeOK, PortsLive, Holding, GenGrows, DeliveredToOwner
<1> QED
    BY <1>1, <1>2, <1>3, <1>4 DEF NodeStep

LEMMA NextIInv ==
    ASSUME IInv, [Next]_vars
    PROVE  IInv'
<1>1. CASE UNCHANGED vars
    BY <1>1 DEF vars, IInv, TypeOK, PortsLive, Holding, GenGrows, DeliveredToOwner
<1>2. ASSUME NEW c \in Channels,
             Connect(c) \/ AppReads(c) \/ Hangup(c) \/ Join(c) \/ ThreadStep(c)
      PROVE  IInv'
    BY <1>2, ConnectStep, QuietThread, JoinStep, AbortStep, UnregisterStep, RegisterStep,
       RegisterEphemeralStep DEF ThreadStep
<1>3. ASSUME NEW c \in Channels, Request(c)
      PROVE  IInv'
    BY <1>3, QuietThread, CapsuleArrives DEF Request
<1>4. ASSUME NEW p \in Ports, Arrive(p)
      PROVE  IInv'
    BY <1>4, CapsuleArrives
<1>5. CASE NodeStep
    BY <1>5, NodeStepKeeps
<1> QED
    BY <1>1, <1>2, <1>3, <1>4, <1>5 DEF Next

LEMMA InvariantHolds == Spec => []IInv
BY InitIInv, NextIInv, PTL DEF Spec

-----------------------------------------------------------------------------
(* The port map, the channels and the node keep their types. *)
THEOREM TypeCorrect == Spec => []TypeOK
<1>1. IInv => TypeOK
    BY DEF IInv
<1> QED
    BY <1>1, InvariantHolds, PTL

(***************************************************************************)
(* No port is ever registered for a queue whose channel has run freePorts  *)
(* (CNodeServiceChannel::receive) or was deleted by the PipeServer.        *)
(***************************************************************************)
THEOREM PortsOfTheLiving == Spec => []PortsLive
<1>1. IInv => PortsLive
    BY DEF IInv
<1> QED
    BY <1>1, InvariantHolds, PTL

(***************************************************************************)
(* CNode::run puts a capsule in the queue of the application that owns its *)
(* port, unless the channel it looked up is over when it comes to push.    *)
(***************************************************************************)
THEOREM DeliveryToOwner == Spec => []DeliveredToOwner
<1>1. IInv => DeliveredToOwner
    BY DEF IInv
<1> QED
    BY <1>1, InvariantHolds, PTL

(***************************************************************************)
(* CPortmap takes a port from a channel only when that channel itself      *)
(* runs freePorts.                                                         *)
(***************************************************************************)
THEOREM PortsKept == Spec => PortKept
<1> DEFINE Kept == \A p \in Ports : \A c \in Channels :
         owner[p] = c /\ owner'[p] # c => th[c] = "freeing" /\ th'[c] = "freed"
<1>1. IInv /\ [Next]_vars => [Kept]_vars
  <2> SUFFICES ASSUME IInv, Next, NEW p \in Ports, NEW c \in Channels,
                      owner[p] = c, owner'[p] # c
               PROVE  th[c] = "freeing" /\ th'[c] = "freed"
    BY Zenon
  <2>1. owner[p] # NoQueue
    BY ChannelAssumption
  <2>2. ASSUME NEW d \in Channels, Unregister(d)
        PROVE  th[c] = "freeing" /\ th'[c] = "freed"
    BY <2>2 DEF IInv, TypeOK, Unregister, FreePorts
  <2>3. ASSUME NEW d \in Channels, NEW q \in Ports, Register(d, q)
        PROVE  FALSE
    BY <2>1, <2>3 DEF IInv, TypeOK, Register
  <2>4. ASSUME NEW d \in Channels, RegisterEphemeral(d)
        PROVE  FALSE
    <3>1. EphemeralPort # 0 => owner[EphemeralPort] = NoQueue
      BY EphemeralPortIsFree DEF IInv
    <3>2. owner' = owner \/ (EphemeralPort # 0 /\ owner' = [owner EXCEPT ![EphemeralPort] = d])
      BY <2>4 DEF RegisterEphemeral
    <3> QED
      BY <2>1, <3>1, <3>2 DEF IInv, TypeOK
  <2>5. ASSUME owner' # owner
        PROVE  \E d \in Channels : \/ Unregister(d) \/ RegisterEphemeral(d)
                                   \/ \E q \in Ports : Register(d, q)
    BY <2>5 DEF Next, ThreadStep, Request, NodeStep, Connect, AppReads, Hangup, Join, RunEnds,
       ReadAborts, WaitEnds, AskNode, EnterRegister, EnterEphemeral, WaitForCapsule, AwaitReply, SendCapsule,
       Arrive,
       NodePop, NodeLookup, NodePush, NodePushDeleted
  <2> QED
    BY <2>2, <2>3, <2>4, <2>5
<1> QED
    BY <1>1, InvariantHolds, PTL DEF Spec, PortKept

(***************************************************************************)
(* CPortmap::getEphemeralPort finds a free ephemeral port if there is one, *)
(* wherever m_ephemeralPort stands.                                        *)
(***************************************************************************)
THEOREM EphemeralPortFound == Spec => EphemeralFound
<1> DEFINE Found ==
       \A c \in Channels :
         th[c] = "ephemeral" /\ th'[c] = "recv" /\ owner' = owner
            => \A p \in EphBegin .. (EphLimit - 1) : owner[p] # NoQueue
<1>1. IInv /\ [Next]_vars => [Found]_vars
  <2> SUFFICES ASSUME IInv, Next, NEW c \in Channels,
                      th[c] = "ephemeral", th'[c] = "recv", owner' = owner
               PROVE  \A p \in EphBegin .. (EphLimit - 1) : owner[p] # NoQueue
    BY Zenon
  <2>1. RegisterEphemeral(c)
    <3>1. ASSUME NEW d \in Channels,
                 \/ Connect(d) \/ AppReads(d) \/ Hangup(d) \/ Join(d) \/ RunEnds(d)
                 \/ ReadAborts(d) \/ Unregister(d) \/ WaitEnds(d) \/ AskNode(d) \/ EnterRegister(d)
                 \/ EnterEphemeral(d) \/ WaitForCapsule(d)
          PROVE  FALSE
      BY <3>1 DEF IInv, TypeOK, Ready, Connect, AppReads, Hangup, Join, RunEnds,
         ReadAborts, chanVars, Unregister, WaitEnds, Respond, AskNode, EnterRegister, EnterEphemeral,
         WaitForCapsule, AwaitReply
    <3>2. ASSUME NEW d \in Channels, NEW p \in Ports, Register(d, p) \/ SendCapsule(d, p)
          PROVE  FALSE
      BY <3>2 DEF IInv, TypeOK, Register, Respond, SendCapsule, chanVars
    <3>3. ASSUME NEW d \in Channels, RegisterEphemeral(d)
          PROVE  d = c
      BY <3>3 DEF IInv, TypeOK, RegisterEphemeral, Respond
    <3>4. ASSUME NodeStep \/ \E p \in Ports : Arrive(p)
          PROVE  FALSE
      BY <3>4 DEF NodeStep, NodePop, NodeLookup, NodePush, NodePushDeleted, Arrive, chanVars
    <3> QED
      BY <3>1, <3>2, <3>3, <3>4 DEF Next, ThreadStep, Request
  <2>2. EphemeralPort = 0
    <3>1. CASE EphemeralPort # 0
      <4>1. /\ EphemeralPort \in Ports /\ owner[EphemeralPort] = NoQueue
            /\ owner' = [owner EXCEPT ![EphemeralPort] = c]
        BY <2>1, <3>1, EphemeralPortIsFree DEF IInv, RegisterEphemeral
      <4> QED
        BY <4>1, ChannelAssumption DEF IInv, TypeOK
    <3> QED
      BY <3>1
  <2>3. ~(EphemeralPort \in EphBegin .. (EphLimit - 1))
    BY <2>2, PortAssumption
  <2> QED
    BY <2>2, <2>3, EphemeralPortIsFree DEF IInv
<1> QED
    BY <1>1, InvariantHolds, PTL DEF Spec, EphemeralFound
=============================================================================
