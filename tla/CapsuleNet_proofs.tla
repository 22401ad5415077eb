--------------------------- MODULE CapsuleNet_proofs ---------------------------
(***************************************************************************)
(* What holds of nodes and lines for any network: any number of nodes,     *)
(* interfaces and terminals, any addresses and any lengths of the queues,  *)
(* whatever breaks and whoever restarts: where a capsule may be, and that  *)
(* a line is a queue that may lose some of its capsules (LossyLine), and   *)
(* one that keeps them all as long as nothing breaks.                      *)
(***************************************************************************)
EXTENDS CapsuleNet, SequenceTheorems, WellFoundedInduction, TLAPS

(***************************************************************************)
(* A link is configured at both ends: the interface whose server the       *)
(* sender connects to has its sender connect to this one's.  The program   *)
(* does not check it, and OneHop needs it: a node believes that what it    *)
(* sends on an interface reaches the peer that connected to it.            *)
(***************************************************************************)
Paired == \A i \in Interfaces : Remote[Remote[i]] = i

(***************************************************************************)
(* Where a capsule with a real destination may be.  In a node: it began    *)
(* there, or it is at its destination.  In the hand of the routing loop:   *)
(* at the node it began at.  On a line: from the node it began at to its   *)
(* destination.                                                            *)
(***************************************************************************)
Own(n) == {c \in Capsules : c.from = n}

Inside(n) ==
    {c \in Capsules : Paired /\ c.dst # Default => c.from = n \/ c.dst \in AddressesOf(n)}

Leaving(n) == {c \in Inside(n) : c.dst \notin AddressesOf(n)}

Crossing(i) ==
    {c \in Capsules :
        Paired /\ c.dst # Default =>
            c.from = NodeOf[i] /\ c.dst \in AddressesOf(NodeOf[Remote[i]])}

Links(j) == {c \in Connections : c.from \in LinesTo(j) /\ c.data \in Seq(Crossing(c.from))}

-----------------------------------------------------------------------------
(* The inductive invariant: one part for each group of variables. *)

Inboxes ==
    /\ inbox \in [Nodes -> Seq(Capsules)]
    /\ \A n \in Nodes : inbox[n] \in Seq(Inside(n)) /\ Len(inbox[n]) <= InboxLen

Repeats ==
    /\ again \in [Terminals -> Seq(Capsules)]
    /\ \A n \in Terminals : again[n] \in Seq(Own(n)) /\ Len(again[n]) <= 1

Routing ==
    /\ cur \in [Nodes -> Seq(Capsules)] /\ todo \in [Nodes -> SUBSET Interfaces]
    /\ \A n \in Nodes :
         /\ cur[n] \in Seq(Leaving(n)) /\ Len(cur[n]) <= 1
         /\ (cur[n] = <<>>) <=> (todo[n] = {})
         /\ todo[n] \subseteq InterfacesOf(n)

Outputs ==
    /\ outq \in [Interfaces -> Seq(Capsules)]
    /\ \A i \in Interfaces : outq[i] \in Seq(Crossing(i)) /\ Len(outq[i]) <= OutLen

Senders ==
    /\ hand \in [Interfaces -> Seq(Capsules)] /\ tx \in [Interfaces -> {"open", "pop", "send"}]
    /\ \A i \in Interfaces :
         /\ hand[i] \in Seq(Crossing(i))
         /\ (hand[i] # <<>>) <=> (tx[i] = "send")

(* The peer of a server is somebody who connects to it. *)
Receivers ==
    /\ conns \in [Interfaces -> Seq(Connections)]
    /\ rx \in [Interfaces -> {"accept", "first", "run"}]
    /\ peer \in [Interfaces -> {Default} \cup {Addr[i] : i \in Interfaces}]
    /\ \A j \in Interfaces :
         /\ conns[j] \in Seq(Links(j)) /\ Len(conns[j]) <= Backlog
         /\ rx[j] # "accept" => conns[j] # <<>>
         /\ (peer[j] # Default) <=> (rx[j] = "run")
         /\ peer[j] # Default => \E i \in LinesTo(j) : peer[j] = Addr[i]

Records ==
    /\ delivered \in [Nodes -> Seq(Capsules)] /\ received \in [Interfaces -> Seq(Capsules)]
    /\ queued \in [Interfaces -> Nat]
    /\ injected \in 0..MaxCapsules /\ breaks \in 0..MaxBreaks /\ restarts \in 0..MaxRestarts

IInv == Inboxes /\ Repeats /\ Routing /\ Outputs /\ Senders /\ Receivers /\ Records

-----------------------------------------------------------------------------
(* Sequences. *)

LEMMA EmptyIsSeq == ASSUME NEW S PROVE <<>> \in Seq(S) /\ Len(<<>>) = 0
BY EmptySeq

LEMMA SingletonIsSeq ==
    ASSUME NEW S, NEW e \in S PROVE <<e>> \in Seq(S) /\ Len(<<e>>) = 1 /\ <<e>> # <<>>
OBVIOUS

(* A function on 1..n is a sequence. *)
LEMMA FunIsSeq ==
    ASSUME NEW S, NEW n \in Nat, NEW f \in [1..n -> S]
    PROVE  f \in Seq(S) /\ Len(f) = n
OBVIOUS

(* The part of a sequence that comes first. *)
LEMMA FirstPart ==
    ASSUME NEW S, NEW s \in Seq(S), NEW n \in 0..Len(s)
    PROVE  SubSeq(s, 1, n) \in Seq(S)
BY LenProperties, ElementOfSeq, SubSeqProperties

LEMMA Kinds ==
    /\ \A n : Own(n) \subseteq Capsules /\ Own(n) \subseteq Inside(n)
    /\ \A n : Leaving(n) \subseteq Inside(n) /\ Inside(n) \subseteq Capsules
    /\ \A i : Crossing(i) \subseteq Capsules
    /\ \A j : Links(j) \subseteq Connections
BY DEF Own, Inside, Leaving, Crossing, Links

(* What arrives at an interface may be in its node. *)
LEMMA ArrivesInside ==
    ASSUME NEW j \in Interfaces, NEW i \in LinesTo(j), NEW c \in Crossing(i)
    PROVE  c \in Inside(NodeOf[j])
BY LineAssumption DEF Crossing, Inside, LinesTo

LEMMA InitIInv == Init => IInv
<1> SUFFICES ASSUME Init PROVE IInv
    OBVIOUS
<1> USE DEF Init
<1>1. Inboxes /\ Repeats
    BY EmptyIsSeq, LengthAssumption DEF Inboxes, Repeats
<1>2. Routing /\ Outputs
    BY EmptyIsSeq, LengthAssumption DEF Routing, Outputs
<1>3. Senders
    BY EmptyIsSeq DEF Senders
<1>4. Receivers
    BY EmptyIsSeq, LengthAssumption DEF Receivers
<1>5. Records
    BY EmptyIsSeq, BoundsAssumption DEF Records
<1> QED
    BY <1>1, <1>2, <1>3, <1>4, <1>5 DEF IInv

(* A part of the invariant depends on its own variables only. *)
LEMMA Kept ==
    /\ Inboxes /\ UNCHANGED inbox => Inboxes'
    /\ Repeats /\ UNCHANGED again => Repeats'
    /\ Routing /\ UNCHANGED <<cur, todo>> => Routing'
    /\ Outputs /\ UNCHANGED outq => Outputs'
    /\ Senders /\ UNCHANGED <<hand, tx>> => Senders'
    /\ Receivers /\ UNCHANGED <<conns, rx, peer>> => Receivers'
    /\ Records /\ UNCHANGED <<delivered, received, queued, injected, breaks, restarts>> => Records'
BY DEF Inboxes, Repeats, Routing, Outputs, Senders, Receivers, Records

-----------------------------------------------------------------------------
(* What the actions do to one queue. *)

LEMMA InboxPush ==
    ASSUME Inboxes, NEW n \in Nodes, NEW c \in Inside(n), InjectCapsule(n, c)
    PROVE  Inboxes'
<1>1. inbox[n] \in Seq(Capsules) /\ inbox[n] \in Seq(Inside(n)) /\ Len(inbox[n]) < InboxLen
    BY DEF Inboxes, InjectCapsule
<1>2. /\ Append(inbox[n], c) \in Seq(Capsules) /\ Append(inbox[n], c) \in Seq(Inside(n))
      /\ Len(Append(inbox[n], c)) <= InboxLen
    BY <1>1, Kinds, AppendProperties, LenProperties, LengthAssumption
<1>3. inbox' = [inbox EXCEPT ![n] = Append(inbox[n], c)]
    BY DEF InjectCapsule
<1> QED
    BY <1>2, <1>3 DEF Inboxes

LEMMA InboxPop ==
    ASSUME Inboxes, NEW n \in Nodes, inbox[n] # <<>>, inbox' = [inbox EXCEPT ![n] = Tail(@)]
    PROVE  Inboxes' /\ Head(inbox[n]) \in Inside(n)
<1>1. inbox[n] \in Seq(Capsules) /\ inbox[n] \in Seq(Inside(n)) /\ Len(inbox[n]) <= InboxLen
    BY DEF Inboxes
<1>2. /\ Tail(inbox[n]) \in Seq(Capsules) /\ Tail(inbox[n]) \in Seq(Inside(n))
      /\ Len(Tail(inbox[n])) <= InboxLen
    BY <1>1, HeadTailProperties, LenProperties, LengthAssumption
<1>3. Head(inbox[n]) \in Inside(n)
    BY <1>1, HeadTailProperties
<1> QED
    BY <1>2, <1>3 DEF Inboxes

(* A receiver or a sender does something to the connections of one server. *)
LEMMA OneServer ==
    ASSUME Receivers, NEW j \in Interfaces,
           NEW s \in Seq(Links(j)), Len(s) <= Backlog, conns' = [conns EXCEPT ![j] = s],
           NEW r \in {"accept", "first", "run"}, rx' = [rx EXCEPT ![j] = r],
           NEW q, peer' = [peer EXCEPT ![j] = q],
           r # "accept" => s # <<>>,
           (q # Default) <=> (r = "run"),
           q # Default => \E i \in LinesTo(j) : q = Addr[i]
    PROVE  Receivers'
<1>1. s \in Seq(Connections)
    BY Kinds, SeqMonotonic
<1>2. q \in {Default} \cup {Addr[i] : i \in Interfaces}
    BY DEF LinesTo
<1>3. /\ conns' \in [Interfaces -> Seq(Connections)]
      /\ rx' \in [Interfaces -> {"accept", "first", "run"}]
      /\ peer' \in [Interfaces -> {Default} \cup {Addr[i] : i \in Interfaces}]
    BY <1>1, <1>2 DEF Receivers
<1>4. ASSUME NEW k \in Interfaces
      PROVE  /\ conns'[k] \in Seq(Links(k)) /\ Len(conns'[k]) <= Backlog
             /\ rx'[k] # "accept" => conns'[k] # <<>>
             /\ (peer'[k] # Default) <=> (rx'[k] = "run")
             /\ peer'[k] # Default => \E i \in LinesTo(k) : peer'[k] = Addr[i]
    <2>1. CASE k = j
        BY <2>1 DEF Receivers
    <2>2. CASE k # j
        BY <2>2 DEF Receivers
    <2> QED
        BY <2>1, <2>2
<1> QED
    BY <1>3, <1>4 DEF Receivers

LEMMA OneServerConns ==
    ASSUME Receivers, NEW j \in Interfaces,
           NEW s \in Seq(Links(j)), Len(s) <= Backlog, conns' = [conns EXCEPT ![j] = s],
           rx[j] # "accept" => s # <<>>, UNCHANGED <<rx, peer>>
    PROVE  Receivers'
<1>1. rx' = [rx EXCEPT ![j] = rx[j]] /\ peer' = [peer EXCEPT ![j] = peer[j]]
    BY DEF Receivers
<1>2. /\ rx[j] \in {"accept", "first", "run"}
      /\ (peer[j] # Default) <=> (rx[j] = "run")
      /\ peer[j] # Default => \E i \in LinesTo(j) : peer[j] = Addr[i]
    BY DEF Receivers
<1> QED
    BY <1>1, <1>2, OneServer

-----------------------------------------------------------------------------
(* Users and nodes. *)

LEMMA NewCapsule ==
    ASSUME Records, NEW n \in Nodes, NEW d \in TypedDst, NEW t \in BOOLEAN,
           injected < MaxCapsules
    PROVE  [id |-> injected + 1, from |-> n, dst |-> d, twice |-> t] \in Own(n)
<1>1. injected + 1 \in 1..MaxCapsules
    BY BoundsAssumption DEF Records
<1> QED
    BY <1>1 DEF Own, Capsules

LEMMA InjectStep ==
    ASSUME IInv, NEW n \in Nodes, NEW d \in Destinations, Inject(n, d)
    PROVE  IInv'
<1> DEFINE c == [id |-> injected + 1, from |-> n, dst |-> d, twice |-> FALSE]
<1>1. /\ injected < MaxCapsules /\ injected' = injected + 1
      /\ InjectCapsule(n, c)
      /\ UNCHANGED <<again, cur, todo, delivered, outq, tx, hand, queued, conns,
                      rx, peer, received, breaks, restarts>>
    BY DEF Inject, txVars, rxVars
<1>2. c \in Inside(n)
    BY <1>1, NewCapsule, Kinds DEF IInv, TypedDst
<1> HIDE DEF c
<1>3. Inboxes'
    BY <1>1, <1>2, InboxPush DEF IInv
<1>4. Records'
    BY <1>1, BoundsAssumption DEF IInv, Records
<1>5. Repeats' /\ Routing' /\ Outputs' /\ Senders' /\ Receivers'
    BY <1>1, Kept DEF IInv
<1> QED
    BY <1>3, <1>4, <1>5 DEF IInv

LEMMA InjectTwiceStep ==
    ASSUME IInv, NEW n \in Terminals, NEW d \in TypedDst, InjectTwice(n, d)
    PROVE  IInv'
<1> DEFINE c == [id |-> injected + 1, from |-> n, dst |-> d, twice |-> TRUE]
<1>1. /\ injected + 2 <= MaxCapsules /\ injected' = injected + 2
      /\ InjectCapsule(n, c) /\ again' = [again EXCEPT ![n] = <<c>>]
      /\ UNCHANGED <<cur, todo, delivered, outq, tx, hand, queued, conns,
                      rx, peer, received, breaks, restarts>>
    BY DEF InjectTwice, txVars, rxVars
<1>2. injected < MaxCapsules /\ n \in Nodes
    BY <1>1, BoundsAssumption, LineAssumption DEF IInv, Records
<1>3. c \in Own(n)
    BY <1>2, NewCapsule DEF IInv
<1> HIDE DEF c
<1>4. Inboxes'
    BY <1>1, <1>2, <1>3, Kinds, InboxPush DEF IInv
<1>5. <<c>> \in Seq(Capsules) /\ <<c>> \in Seq(Own(n)) /\ Len(<<c>>) <= 1
    BY <1>3, Kinds, SingletonIsSeq
<1>6. Repeats'
    BY <1>1, <1>5 DEF IInv, Repeats
<1>7. Records'
    BY <1>1, BoundsAssumption DEF IInv, Records
<1>8. Routing' /\ Outputs' /\ Senders' /\ Receivers'
    BY <1>1, Kept DEF IInv
<1> QED
    BY <1>4, <1>6, <1>7, <1>8 DEF IInv

LEMMA InjectAgainStep ==
    ASSUME IInv, NEW n \in Terminals, InjectAgain(n)
    PROVE  IInv'
<1>1. /\ again[n] # <<>> /\ InjectCapsule(n, again[n][1])
      /\ again' = [again EXCEPT ![n] = <<>>]
      /\ UNCHANGED <<cur, todo, delivered, outq, tx, hand, queued, conns,
                      rx, peer, received, injected, breaks, restarts>>
    BY DEF InjectAgain, txVars, rxVars, bounds
<1>2. n \in Nodes
    BY LineAssumption
<1>3. again[n] \in Seq(Own(n))
    BY DEF IInv, Repeats
<1>4. again[n][1] \in Inside(n)
    BY <1>1, <1>3, Kinds, EmptySeq, ElementOfSeq
<1>5. Inboxes'
    BY <1>1, <1>2, <1>4, InboxPush DEF IInv
<1>6. Repeats'
    BY <1>1, EmptyIsSeq DEF IInv, Repeats
<1>7. Routing' /\ Outputs' /\ Senders' /\ Receivers' /\ Records'
    BY <1>1, Kept DEF IInv
<1> QED
    BY <1>5, <1>6, <1>7 DEF IInv

LEMMA DeliverStep ==
    ASSUME IInv, NEW n \in Nodes, Deliver(n)
    PROVE  IInv'
<1>1. /\ inbox[n] # <<>> /\ inbox' = [inbox EXCEPT ![n] = Tail(@)]
      /\ delivered' = [delivered EXCEPT ![n] = Append(@, Head(inbox[n]))]
      /\ UNCHANGED <<again, cur, todo, outq, tx, hand, queued, conns,
                      rx, peer, received, injected, breaks, restarts>>
    BY DEF Deliver, txVars, rxVars, bounds
<1>2. Inboxes' /\ Head(inbox[n]) \in Capsules
    BY <1>1, InboxPop, Kinds DEF IInv
<1>3. Append(delivered[n], Head(inbox[n])) \in Seq(Capsules)
    BY <1>2, AppendProperties DEF IInv, Records
<1>4. Records'
    BY <1>1, <1>3 DEF IInv, Records
<1>5. Repeats' /\ Routing' /\ Outputs' /\ Senders' /\ Receivers'
    BY <1>1, Kept DEF IInv
<1> QED
    BY <1>2, <1>4, <1>5 DEF IInv

LEMMA RouteStep ==
    ASSUME IInv, NEW n \in Nodes, Route(n)
    PROVE  IInv'
<1> DEFINE c == Head(inbox[n])
           s == IF InterfacesOf(n) = {} THEN <<>> ELSE <<c>>
<1>1. /\ inbox[n] # <<>> /\ inbox' = [inbox EXCEPT ![n] = Tail(@)]
      /\ c.dst \notin AddressesOf(n)
      /\ cur' = [cur EXCEPT ![n] = s] /\ todo' = [todo EXCEPT ![n] = InterfacesOf(n)]
      /\ UNCHANGED <<again, delivered, outq, tx, hand, queued, conns,
                      rx, peer, received, injected, breaks, restarts>>
    BY DEF Route, txVars, rxVars, bounds
<1>2. Inboxes' /\ c \in Inside(n)
    BY <1>1, InboxPop DEF IInv
<1>3. c \in Leaving(n) /\ c \in Capsules
    BY <1>1, <1>2, Kinds DEF Leaving
<1> HIDE DEF c
<1>4. /\ s \in Seq(Leaving(n)) /\ s \in Seq(Capsules) /\ Len(s) <= 1
      /\ s = <<>> <=> InterfacesOf(n) = {}
    BY <1>3, EmptyIsSeq, SingletonIsSeq
<1>5. InterfacesOf(n) \in SUBSET Interfaces
    BY DEF InterfacesOf
<1> HIDE DEF s
<1>6. Routing'
    BY <1>1, <1>4, <1>5 DEF IInv, Routing
<1>7. Repeats' /\ Outputs' /\ Senders' /\ Receivers' /\ Records'
    BY <1>1, Kept DEF IInv
<1> QED
    BY <1>2, <1>6, <1>7 DEF IInv

(***************************************************************************)
(* The heart of OneHop: what is put in the output queue of an interface    *)
(* began at this node and is for the peer, which is at the other end.      *)
(***************************************************************************)
LEMMA OffersCross ==
    ASSUME IInv, NEW n \in Nodes, NEW j \in InterfacesOf(n),
           NEW c \in Leaving(n), c.dst = peer[j]
    PROVE  c \in Crossing(j)
<1>1. c \in Capsules /\ c \in Inside(n) /\ c.dst \notin AddressesOf(n)
    BY Kinds DEF Leaving
<1>2. j \in Interfaces /\ NodeOf[j] = n
    BY DEF InterfacesOf
<1>3. ASSUME Paired, c.dst # Default
      PROVE  c.from = n /\ c.dst \in AddressesOf(NodeOf[Remote[j]])
    <2>1. c.from = n
        BY <1>1, <1>3 DEF Inside
    <2>2. PICK i \in LinesTo(j) : c.dst = Addr[i]
        BY <1>2, <1>3 DEF IInv, Receivers
    <2>3. i \in Interfaces /\ Remote[j] = i
        BY <1>3, <2>2 DEF LinesTo, Paired
    <2>4. Addr[i] \in AddressesOf(NodeOf[i])
        BY <2>3, LineAssumption DEF AddressesOf, InterfacesOf
    <2> QED
        BY <2>1, <2>2, <2>3, <2>4
<1> QED
    BY <1>1, <1>2, <1>3 DEF Crossing

LEMMA OfferStep ==
    ASSUME IInv, NEW n \in Nodes, NEW j \in InterfacesOf(n), Offer(n, j)
    PROVE  IInv'
<1>1. /\ j \in todo[n] /\ Visited(n, j)
      /\ UNCHANGED <<inbox, again, delivered, tx, hand, conns, rx, peer, received,
                      injected, breaks, restarts>>
    BY DEF Offer, rxVars, bounds
<1>2. j \in Interfaces
    BY DEF InterfacesOf
<1>3. /\ cur[n] \in Seq(Leaving(n)) /\ cur[n] \in Seq(Capsules) /\ cur[n] # <<>>
      /\ Len(cur[n]) <= 1 /\ todo[n] \subseteq InterfacesOf(n) /\ todo[n] \subseteq Interfaces
    BY <1>1 DEF IInv, Routing
<1>4. Routing'
    <2> DEFINE s == IF todo[n] = {j} THEN <<>> ELSE cur[n]
    <2>1. cur' = [cur EXCEPT ![n] = s] /\ todo' = [todo EXCEPT ![n] = todo[n] \ {j}]
        BY <1>1 DEF Visited, IInv, Routing
    <2>2. /\ s \in Seq(Leaving(n)) /\ s \in Seq(Capsules) /\ Len(s) <= 1
          /\ s = <<>> <=> todo[n] \ {j} = {}
        BY <1>1, <1>3, EmptyIsSeq
    <2>3. todo[n] \ {j} \in SUBSET Interfaces /\ todo[n] \ {j} \subseteq InterfacesOf(n)
        BY <1>3
    <2> HIDE DEF s
    <2> QED
        BY <2>1, <2>2, <2>3 DEF IInv, Routing
<1>5. Inboxes' /\ Repeats' /\ Senders' /\ Receivers'
    BY <1>1, Kept DEF IInv
<1>6. CASE UNCHANGED <<outq, queued>>
    BY <1>1, <1>4, <1>5, <1>6, Kept DEF IInv
<1>7. CASE /\ cur[n][1].dst = peer[j] /\ Len(outq[j]) < OutLen
           /\ outq' = [outq EXCEPT ![j] = @ \o cur[n]]
           /\ queued' = [queued EXCEPT ![j] = @ + 1]
    <2> DEFINE c == cur[n][1]
    <2>1. c \in Leaving(n) /\ cur[n] = <<c>>
        BY <1>3, EmptySeq, ElementOfSeq, LenProperties
    <2>2. c \in Crossing(j) /\ c \in Capsules
        BY <1>7, <2>1, OffersCross, Kinds
    <2> HIDE DEF c
    <2>3. /\ cur[n] \in Seq(Crossing(j)) /\ cur[n] \in Seq(Capsules) /\ Len(cur[n]) = 1
        BY <2>1, <2>2, SingletonIsSeq
    <2>4. /\ outq[j] \in Seq(Crossing(j)) /\ outq[j] \in Seq(Capsules) /\ Len(outq[j]) < OutLen
        BY <1>2, <1>7 DEF IInv, Outputs
    <2>5. /\ outq[j] \o cur[n] \in Seq(Crossing(j)) /\ outq[j] \o cur[n] \in Seq(Capsules)
          /\ Len(outq[j] \o cur[n]) <= OutLen
        <3>1. /\ outq[j] \o cur[n] \in Seq(Crossing(j)) /\ outq[j] \o cur[n] \in Seq(Capsules)
              /\ Len(outq[j] \o cur[n]) = Len(outq[j]) + Len(cur[n])
            BY <2>3, <2>4, ConcatProperties
        <3>2. Len(outq[j]) \in Nat /\ OutLen \in Nat
            BY <2>4, LenProperties, LengthAssumption
        <3> QED
            BY <2>3, <2>4, <3>1, <3>2
    <2>6. Outputs'
        BY <1>2, <1>7, <2>5 DEF IInv, Outputs
    <2>7. Records'
        BY <1>1, <1>2, <1>7 DEF IInv, Records
    <2> QED
        BY <1>4, <1>5, <2>6, <2>7 DEF IInv
<1> QED
    BY <1>6, <1>7 DEF Offer

-----------------------------------------------------------------------------
(* The sender of an interface. *)

LEMMA RemoteServer ==
    ASSUME NEW i \in Interfaces
    PROVE  Remote[i] \in Interfaces /\ i \in LinesTo(Remote[i])
BY LineAssumption DEF LinesTo

LEMMA OpenStep ==
    ASSUME IInv, NEW i \in Interfaces, Open(i)
    PROVE  IInv'
<1> DEFINE j == Remote[i]
<1>1. /\ tx[i] = "open" /\ Len(conns[j]) < Backlog
      /\ conns' = [conns EXCEPT ![j] = Append(@, NewConn(i))]
      /\ tx' = [tx EXCEPT ![i] = "pop"]
      /\ UNCHANGED <<inbox, again, cur, todo, delivered, outq, hand, queued, rx, peer, received,
                      injected, breaks, restarts>>
    BY DEF Open, nodeVars, rxVars, bounds
<1>2. j \in Interfaces /\ i \in LinesTo(j)
    BY RemoteServer
<1>3. NewConn(i) \in Links(j)
    BY <1>2, EmptyIsSeq DEF NewConn, Links, Connections
<1> HIDE DEF j
<1>4. conns[j] \in Seq(Links(j)) /\ Len(conns[j]) \in Nat /\ Backlog \in Nat
    BY <1>2, LenProperties, LengthAssumption DEF IInv, Receivers
<1> DEFINE s == Append(conns[j], NewConn(i))
<1>5. s \in Seq(Links(j)) /\ s # <<>> /\ Len(s) <= Backlog
    BY <1>1, <1>3, <1>4, AppendProperties
<1>6. conns' = [conns EXCEPT ![j] = s]
    BY <1>1, <1>2 DEF IInv, Receivers
<1> HIDE DEF s
<1>7. Receivers'
    BY <1>1, <1>2, <1>5, <1>6, OneServerConns DEF IInv
<1>8. Senders'
    BY <1>1 DEF IInv, Senders
<1>9. Inboxes' /\ Repeats' /\ Routing' /\ Outputs' /\ Records'
    BY <1>1, Kept DEF IInv
<1> QED
    BY <1>7, <1>8, <1>9 DEF IInv

LEMMA PopStep ==
    ASSUME IInv, NEW i \in Interfaces, Pop(i)
    PROVE  IInv'
<1> DEFINE c == Head(outq[i])
<1>1. /\ outq[i] # <<>>
      /\ hand' = [hand EXCEPT ![i] = <<c>>]
      /\ outq' = [outq EXCEPT ![i] = Tail(@)]
      /\ tx' = [tx EXCEPT ![i] = "send"]
      /\ UNCHANGED <<inbox, again, cur, todo, delivered, queued, conns, rx, peer, received,
                      injected, breaks, restarts>>
    BY DEF Pop, nodeVars, rxVars, bounds
<1>2. /\ outq[i] \in Seq(Crossing(i)) /\ outq[i] \in Seq(Capsules) /\ Len(outq[i]) <= OutLen
      /\ Len(outq[i]) \in Nat /\ OutLen \in Nat
    BY LenProperties, LengthAssumption DEF IInv, Outputs
<1>3. /\ Tail(outq[i]) \in Seq(Crossing(i)) /\ Tail(outq[i]) \in Seq(Capsules)
      /\ Len(Tail(outq[i])) <= OutLen
    BY <1>1, <1>2, HeadTailProperties
<1>4. Outputs'
    BY <1>1, <1>3 DEF IInv, Outputs
<1>5. c \in Crossing(i) /\ c \in Capsules
    BY <1>1, <1>2, HeadTailProperties
<1> HIDE DEF c
<1>6. <<c>> \in Seq(Crossing(i)) /\ <<c>> \in Seq(Capsules) /\ <<c>> # <<>>
    BY <1>5, SingletonIsSeq
<1>7. Senders'
    BY <1>1, <1>6 DEF IInv, Senders
<1>8. Inboxes' /\ Repeats' /\ Routing' /\ Receivers' /\ Records'
    BY <1>1, Kept DEF IInv
<1> QED
    BY <1>4, <1>7, <1>8 DEF IInv

LEMMA AliveFailsStep ==
    ASSUME IInv, NEW i \in Interfaces, AliveFails(i)
    PROVE  IInv'
<1>1. /\ tx[i] = "pop" /\ tx' = [tx EXCEPT ![i] = "open"]
      /\ UNCHANGED <<inbox, again, cur, todo, delivered, outq, hand, queued, conns, rx, peer,
                      received, injected, breaks, restarts>>
    BY DEF AliveFails, nodeVars, rxVars, bounds
<1>2. Senders'
    BY <1>1 DEF IInv, Senders
<1>3. Inboxes' /\ Repeats' /\ Routing' /\ Outputs' /\ Receivers' /\ Records'
    BY <1>1, Kept DEF IInv
<1> QED
    BY <1>2, <1>3 DEF IInv

(* The hand is empty when the sender does not send. *)
LEMMA HandEmptied ==
    ASSUME Senders, NEW i \in Interfaces, NEW t \in {"open", "pop"},
           hand' = [hand EXCEPT ![i] = <<>>], tx' = [tx EXCEPT ![i] = t]
    PROVE  Senders'
BY EmptyIsSeq DEF Senders

LEMMA SendFailsStep ==
    ASSUME IInv, NEW i \in Interfaces, SendFails(i)
    PROVE  IInv'
<1>1. /\ hand' = [hand EXCEPT ![i] = <<>>] /\ tx' = [tx EXCEPT ![i] = "open"]
      /\ UNCHANGED <<inbox, again, cur, todo, delivered, outq, queued, conns, rx, peer,
                      received, injected, breaks, restarts>>
    BY DEF SendFails, nodeVars, rxVars, bounds
<1>2. Senders'
    BY <1>1, HandEmptied DEF IInv
<1>3. Inboxes' /\ Repeats' /\ Routing' /\ Outputs' /\ Receivers' /\ Records'
    BY <1>1, Kept DEF IInv
<1> QED
    BY <1>2, <1>3 DEF IInv

(***************************************************************************)
(* What is in the sender's hand is appended to a connection of its own.    *)
(***************************************************************************)
LEMMA WriteKeepsLinks ==
    ASSUME IInv, NEW i \in Interfaces, Write(i)
    PROVE  \E s \in Seq(Links(Remote[i])) :
              /\ conns' = [conns EXCEPT ![Remote[i]] = s]
              /\ Len(s) = Len(conns[Remote[i]])
<1> DEFINE j == Remote[i]
           e(k) == IF k \in Live(i) THEN [conns[j][k] EXCEPT !.data = @ \o hand[i]] ELSE conns[j][k]
           s == [k \in DOMAIN conns[j] |-> e(k)]
<1>1. j \in Interfaces
    BY RemoteServer
<1>2. /\ conns[j] \in Seq(Links(j)) /\ Len(conns[j]) \in Nat
      /\ DOMAIN conns[j] = 1..Len(conns[j])
    BY <1>1, LenProperties DEF IInv, Receivers
<1>3. hand[i] \in Seq(Crossing(i)) /\ hand[i] \in Seq(Capsules)
    BY DEF IInv, Senders
<1>4. ASSUME NEW k \in 1..Len(conns[j])
      PROVE  e(k) \in Links(j)
    <2>1. conns[j][k] \in Links(j)
        BY <1>2, ElementOfSeq
    <2>2. CASE k \in Live(i)
        <3> DEFINE c == conns[j][k]
                   d == [c EXCEPT !.data = @ \o hand[i]]
        <3>1. c.from = i
            BY <2>2 DEF Live
        <3>2. c \in Connections /\ c.data \in Seq(Capsules) /\ c.data \in Seq(Crossing(i))
              /\ i \in LinesTo(j)
            BY <2>1, <3>1 DEF Links, Connections
        <3> HIDE DEF c
        <3>3. c.data \o hand[i] \in Seq(Capsules) /\ c.data \o hand[i] \in Seq(Crossing(i))
            BY <1>3, <3>2, ConcatProperties
        <3>4. d \in Connections /\ d.from = i /\ d.data = c.data \o hand[i]
            BY <3>1, <3>2, <3>3 DEF Connections
        <3>5. d \in Links(j)
            BY <3>2, <3>3, <3>4 DEF Links
        <3> QED
            BY <2>2, <3>5 DEF c
    <2>3. CASE k \notin Live(i)
        BY <2>1, <2>3
    <2> QED
        BY <2>2, <2>3
<1>5. s \in [1..Len(conns[j]) -> Links(j)]
    BY <1>2, <1>4
<1>6. s \in Seq(Links(j)) /\ Len(s) = Len(conns[j])
    BY <1>2, <1>5, FunIsSeq
<1>7. conns' = [conns EXCEPT ![j] = s]
    BY <1>1 DEF Write
<1> QED
    BY <1>6, <1>7

LEMMA SendStep ==
    ASSUME IInv, NEW i \in Interfaces, Send(i)
    PROVE  IInv'
<1>1. /\ Write(i)
      /\ hand' = [hand EXCEPT ![i] = <<>>] /\ tx' = [tx EXCEPT ![i] = "pop"]
      /\ UNCHANGED <<inbox, again, cur, todo, delivered, outq, queued, rx, peer,
                      received, injected, breaks, restarts>>
    BY DEF Send, nodeVars, rxVars, bounds
<1>2. PICK s \in Seq(Links(Remote[i])) :
          /\ conns' = [conns EXCEPT ![Remote[i]] = s]
          /\ Len(s) = Len(conns[Remote[i]])
    BY <1>1, WriteKeepsLinks
<1>3. /\ Remote[i] \in Interfaces /\ Len(conns[Remote[i]]) <= Backlog
      /\ conns[Remote[i]] \in Seq(Links(Remote[i]))
      /\ rx[Remote[i]] # "accept" => conns[Remote[i]] # <<>>
    BY RemoteServer DEF IInv, Receivers
<1>4. rx[Remote[i]] # "accept" => s # <<>>
    BY <1>2, <1>3, EmptySeq
<1>5. Receivers'
    BY <1>1, <1>2, <1>3, <1>4, OneServerConns DEF IInv
<1>6. Senders'
    BY <1>1, HandEmptied DEF IInv
<1>7. Inboxes' /\ Repeats' /\ Routing' /\ Outputs' /\ Records'
    BY <1>1, Kept DEF IInv
<1> QED
    BY <1>5, <1>6, <1>7 DEF IInv

-----------------------------------------------------------------------------
(* The receiver of an interface. *)

(* The connection that is served. *)
LEMMA Served ==
    ASSUME Receivers, NEW j \in Interfaces, conns[j] # <<>>
    PROVE  /\ conns[j] \in Seq(Links(j)) /\ Len(conns[j]) <= Backlog
           /\ 1 \in 1..Len(conns[j]) /\ DOMAIN conns[j] = 1..Len(conns[j])
           /\ conns[j][1] \in Links(j)
<1>1. conns[j] \in Seq(Links(j)) /\ Len(conns[j]) <= Backlog
    BY DEF Receivers
<1>2. 1 \in 1..Len(conns[j]) /\ DOMAIN conns[j] = 1..Len(conns[j])
    BY <1>1, EmptySeq, LenProperties
<1> QED
    BY <1>1, <1>2, ElementOfSeq

(* The server is done with it. *)
LEMMA ServedOver ==
    ASSUME Receivers, NEW j \in Interfaces, conns[j] # <<>>
    PROVE  Tail(conns[j]) \in Seq(Links(j)) /\ Len(Tail(conns[j])) <= Backlog
<1>1. /\ conns[j] \in Seq(Links(j)) /\ Len(conns[j]) <= Backlog
      /\ Len(conns[j]) \in Nat /\ Backlog \in Nat
    BY Served, LenProperties, LengthAssumption
<1> QED
    BY <1>1, HeadTailProperties

(* Something of it has changed. *)
LEMMA ServedChanged ==
    ASSUME Receivers, NEW j \in Interfaces, conns[j] # <<>>, NEW c \in Links(j)
    PROVE  /\ [conns[j] EXCEPT ![1] = c] \in Seq(Links(j))
           /\ Len([conns[j] EXCEPT ![1] = c]) <= Backlog
           /\ [conns[j] EXCEPT ![1] = c] # <<>>
<1>1. conns[j] \in Seq(Links(j)) /\ 1 \in 1..Len(conns[j]) /\ Len(conns[j]) <= Backlog
    BY Served
<1>2. /\ [conns[j] EXCEPT ![1] = c] \in Seq(Links(j))
      /\ Len([conns[j] EXCEPT ![1] = c]) = Len(conns[j])
    BY <1>1, ExceptSeq
<1> QED
    BY <1>1, <1>2, EmptyIsSeq

LEMMA AcceptStep ==
    ASSUME IInv, NEW j \in Interfaces, Accept(j)
    PROVE  IInv'
<1>1. /\ rx[j] = "accept" /\ conns[j] # <<>> /\ rx' = [rx EXCEPT ![j] = "first"]
      /\ UNCHANGED <<inbox, again, cur, todo, delivered, outq, tx, hand, queued, conns, peer,
                      received, injected, breaks, restarts>>
    BY DEF Accept, nodeVars, txVars, bounds
<1>2. Receivers'
    BY <1>1 DEF IInv, Receivers
<1>3. Inboxes' /\ Repeats' /\ Routing' /\ Outputs' /\ Senders' /\ Records'
    BY <1>1, Kept DEF IInv
<1> QED
    BY <1>2, <1>3 DEF IInv

LEMMA FirstMessageStep ==
    ASSUME IInv, NEW j \in Interfaces, FirstMessage(j)
    PROVE  IInv'
<1> DEFINE c == [conns[j][1] EXCEPT !.hello = FALSE]
<1>1. /\ rx[j] = "first" /\ rx' = [rx EXCEPT ![j] = "run"]
      /\ peer' = [peer EXCEPT ![j] = Addr[conns[j][1].from]]
      /\ UNCHANGED <<inbox, again, cur, todo, delivered, outq, tx, hand, queued,
                      received, injected, breaks, restarts>>
    BY DEF FirstMessage, nodeVars, txVars, bounds
<1>2. conns[j] # <<>>
    BY <1>1 DEF IInv, Receivers
<1>3. conns' = [conns EXCEPT ![j] = [conns[j] EXCEPT ![1] = c]]
    BY DEF FirstMessage
<1>4. conns[j][1] \in Links(j)
    BY <1>2, Served DEF IInv
<1>5. conns[j][1].from \in LinesTo(j) /\ conns[j][1].from \in Interfaces
    BY <1>4 DEF Links, LinesTo
<1>6. c \in Links(j)
    BY <1>4 DEF Links, Connections
<1>7. Addr[conns[j][1].from] # Default
    BY <1>5, LineAssumption
<1> HIDE DEF c
<1>8. Receivers'
    <2> DEFINE s == [conns[j] EXCEPT ![1] = c]
               q == Addr[conns[j][1].from]
    <2>1. s \in Seq(Links(j)) /\ Len(s) <= Backlog /\ s # <<>>
        BY <1>2, <1>6, ServedChanged DEF IInv
    <2>2. q # Default /\ \E i \in LinesTo(j) : q = Addr[i]
        BY <1>5, <1>7
    <2>3. conns' = [conns EXCEPT ![j] = s] /\ peer' = [peer EXCEPT ![j] = q]
        BY <1>1, <1>3
    <2> HIDE DEF s, q
    <2> QED
        BY <1>1, <2>1, <2>2, <2>3, OneServer DEF IInv
<1>9. Inboxes' /\ Repeats' /\ Routing' /\ Outputs' /\ Senders' /\ Records'
    BY <1>1, Kept DEF IInv
<1> QED
    BY <1>8, <1>9 DEF IInv

LEMMA FirstFailsStep ==
    ASSUME IInv, NEW j \in Interfaces, FirstFails(j)
    PROVE  IInv'
<1>1. /\ rx[j] = "first" /\ rx' = [rx EXCEPT ![j] = "accept"]
      /\ conns' = [conns EXCEPT ![j] = Tail(@)]
      /\ UNCHANGED <<inbox, again, cur, todo, delivered, outq, tx, hand, queued, peer,
                      received, injected, breaks, restarts>>
    BY DEF FirstFails, nodeVars, txVars, bounds
<1>2. conns[j] # <<>> /\ peer[j] = Default /\ peer' = [peer EXCEPT ![j] = Default]
    BY <1>1 DEF IInv, Receivers
<1>3. conns' = [conns EXCEPT ![j] = Tail(conns[j])]
    BY <1>1
<1>4. Receivers'
    BY <1>1, <1>2, <1>3, ServedOver, OneServer DEF IInv
<1>5. Inboxes' /\ Repeats' /\ Routing' /\ Outputs' /\ Senders' /\ Records'
    BY <1>1, Kept DEF IInv
<1> QED
    BY <1>4, <1>5 DEF IInv

LEMMA RunEndsStep ==
    ASSUME IInv, NEW j \in Interfaces, RunEnds(j)
    PROVE  IInv'
<1>1. /\ rx[j] = "run" /\ rx' = [rx EXCEPT ![j] = "accept"]
      /\ conns' = [conns EXCEPT ![j] = Tail(@)]
      /\ peer' = [peer EXCEPT ![j] = Default]
      /\ UNCHANGED <<inbox, again, cur, todo, delivered, outq, tx, hand, queued,
                      received, injected, breaks, restarts>>
    BY DEF RunEnds, Drained, nodeVars, txVars, bounds
<1>2. conns[j] # <<>>
    BY <1>1 DEF IInv, Receivers
<1>3. conns' = [conns EXCEPT ![j] = Tail(conns[j])]
    BY <1>1
<1>4. Receivers'
    BY <1>1, <1>2, <1>3, ServedOver, OneServer DEF IInv
<1>5. Inboxes' /\ Repeats' /\ Routing' /\ Outputs' /\ Senders' /\ Records'
    BY <1>1, Kept DEF IInv
<1> QED
    BY <1>4, <1>5 DEF IInv

LEMMA ExecuteStep ==
    ASSUME IInv, NEW j \in Interfaces, Execute(j)
    PROVE  IInv'
<1> DEFINE c == conns[j][1]
           d == [c EXCEPT !.data = Tail(@)]
           x == c.data[1]
<1>1. /\ rx[j] = "run" /\ c.data # <<>> /\ InjectCapsule(NodeOf[j], x)
      /\ received' = [received EXCEPT ![c.from] = Append(@, x)]
      /\ UNCHANGED <<again, cur, todo, delivered, outq, tx, hand, queued, rx, peer,
                      injected, breaks, restarts>>
    BY DEF Execute, Received, InjectCapsule, txVars, bounds
<1>2. conns[j] # <<>>
    BY <1>1 DEF IInv, Receivers
<1>3. conns' = [conns EXCEPT ![j] = [conns[j] EXCEPT ![1] = d]]
    BY DEF Execute, Received
<1>4. c \in Links(j)
    BY <1>2, Served DEF IInv
<1> HIDE DEF c
<1>5. /\ c.from \in LinesTo(j) /\ c.from \in Interfaces
      /\ c.data \in Seq(Capsules) /\ c.data \in Seq(Crossing(c.from))
    BY <1>4 DEF Links, Connections, LinesTo
<1>6. x \in Crossing(c.from) /\ x \in Capsules
    BY <1>1, <1>5, EmptySeq, ElementOfSeq
<1>7. Tail(c.data) \in Seq(Capsules) /\ Tail(c.data) \in Seq(Crossing(c.from))
    BY <1>1, <1>5, HeadTailProperties
<1>8. d \in Links(j)
    BY <1>4, <1>5, <1>7 DEF Links, Connections
<1> HIDE DEF d, x
<1>9. Receivers'
    BY <1>1, <1>2, <1>3, <1>8, ServedChanged, OneServerConns DEF IInv
<1>10. NodeOf[j] \in Nodes /\ x \in Inside(NodeOf[j])
    BY <1>5, <1>6, ArrivesInside, LineAssumption
<1>11. Inboxes'
    BY <1>1, <1>10, InboxPush DEF IInv
<1>12. Append(received[c.from], x) \in Seq(Capsules)
    BY <1>5, <1>6, AppendProperties DEF IInv, Records
<1>13. Records'
    BY <1>1, <1>5, <1>12 DEF IInv, Records
<1>14. Repeats' /\ Routing' /\ Outputs' /\ Senders'
    BY <1>1, Kept DEF IInv
<1> QED
    BY <1>9, <1>11, <1>13, <1>14 DEF IInv

-----------------------------------------------------------------------------
(* What goes wrong outside. *)

LEMMA BreakStep ==
    ASSUME IInv, NEW i \in Interfaces, Break(i)
    PROVE  IInv'
<1> DEFINE j == Remote[i]
<1>1. /\ breaks < MaxBreaks /\ breaks' = breaks + 1
      /\ UNCHANGED <<inbox, again, cur, todo, delivered, outq, tx, hand, queued, rx, peer,
                      received, injected, restarts>>
    BY DEF Break, nodeVars, txVars, rxVars
<1>2. PICK how \in Breaks, k \in Live(i) :
          \E n \in 0 .. Len(conns[j][k].data), h \in BOOLEAN :
             /\ (h => conns[j][k].hello) /\ (conns[j][k].hello /\ ~h => n = 0)
             /\ conns' = [conns EXCEPT ![j][k] = Broken(conns[j][k], how, h, n)]
    BY DEF Break
<1>n. PICK n \in 0 .. Len(conns[j][k].data), h \in BOOLEAN :
          conns' = [conns EXCEPT ![j][k] = Broken(conns[j][k], how, h, n)]
    BY <1>2
<1> DEFINE c == conns[j][k]
           p == SubSeq(c.data, 1, n)
           d == [c EXCEPT !.st = how, !.hello = h, !.data = p]
           s == [conns[j] EXCEPT ![k] = d]
<1>3. conns' = [conns EXCEPT ![j] = s]
    BY <1>n DEF Broken
<1>4. j \in Interfaces
    BY RemoteServer
<1>5. /\ conns[j] \in Seq(Links(j)) /\ Len(conns[j]) <= Backlog
      /\ rx[j] # "accept" => conns[j] # <<>>
    BY <1>4 DEF IInv, Receivers
<1>6. k \in 1..Len(conns[j])
    BY <1>5, LenProperties DEF Live
<1>7. c \in Links(j)
    BY <1>5, <1>6, ElementOfSeq
<1> HIDE DEF c
<1>8. /\ c \in Connections /\ c.from \in LinesTo(j) /\ how \in {"up", "reset", "quiet"}
      /\ c.data \in Seq(Capsules) /\ c.data \in Seq(Crossing(c.from))
    BY <1>7, BreakAssumption DEF Links, Connections
<1>9. n \in 0..Len(c.data)
    BY <1>n DEF c
<1>10. p \in Seq(Capsules) /\ p \in Seq(Crossing(c.from))
    BY <1>8, <1>9, FirstPart
<1> HIDE DEF p
<1>11. d \in Connections /\ d.from = c.from /\ d.data = p
    BY <1>8, <1>10 DEF Connections
<1>12. d \in Links(j)
    BY <1>8, <1>10, <1>11 DEF Links
<1> HIDE DEF d
<1>13. s \in Seq(Links(j)) /\ Len(s) = Len(conns[j])
    BY <1>5, <1>6, <1>12, ExceptSeq
<1>14. s # <<>>
    BY <1>6, <1>13, EmptyIsSeq
<1> HIDE DEF s
<1>15. Receivers'
    BY <1>1, <1>3, <1>4, <1>5, <1>13, <1>14, OneServerConns DEF IInv
<1>16. Records'
    BY <1>1, BoundsAssumption DEF IInv, Records
<1>17. Inboxes' /\ Repeats' /\ Routing' /\ Outputs' /\ Senders'
    BY <1>1, Kept DEF IInv
<1> QED
    BY <1>15, <1>16, <1>17 DEF IInv

(* What is left of a connection whose sender died, for any of its parts. *)
LEMMA EndedConn ==
    ASSUME NEW c \in Connections, NEW unsaid
    PROVE  /\ Ended(c, unsaid) \in Connections
           /\ Ended(c, unsaid).from = c.from /\ Ended(c, unsaid).data = c.data
           /\ Ended(c, unsaid).st = "cut"
           /\ ~Ended(c, unsaid).hello => ~c.hello \/ c.data = <<>>
<1>1. PICK h \in BOOLEAN : /\ h <=> c.hello /\ (c.from \notin unsaid \/ c.data # <<>>)
                          /\ Ended(c, unsaid) = [c EXCEPT !.st = "cut", !.hello = h]
    BY Zenon DEF Ended
<1> QED
    BY <1>1 DEF Connections

LEMMA DiesStep ==
    ASSUME IInv, NEW n \in Nodes, Dies(n), breaks' = breaks, restarts' \in 0 .. MaxRestarts
    PROVE  IInv'
<1>u. PICK unsaid \in SUBSET InterfacesOf(n) :
          conns' = [j \in Interfaces |->
                      IF j \in InterfacesOf(n) THEN <<>>
                      ELSE [k \in DOMAIN conns[j] |->
                              IF conns[j][k].from \in InterfacesOf(n) /\ conns[j][k].st = "up"
                              THEN Ended(conns[j][k], unsaid) ELSE conns[j][k]]]
    BY DEF Dies
<1> DEFINE mine == InterfacesOf(n)
           after(j) == IF j \in mine THEN <<>>
                       ELSE [k \in DOMAIN conns[j] |->
                               IF conns[j][k].from \in mine /\ conns[j][k].st = "up"
                               THEN Ended(conns[j][k], unsaid) ELSE conns[j][k]]
<1>1. /\ inbox' = [inbox EXCEPT ![n] = <<>>]
      /\ again' = [m \in Terminals |-> IF m = n THEN <<>> ELSE again[m]]
      /\ cur' = [cur EXCEPT ![n] = <<>>] /\ todo' = [todo EXCEPT ![n] = {}]
      /\ UNCHANGED <<delivered, queued, received, injected>>
    BY DEF Dies
<1>2. /\ outq' = [i \in Interfaces |-> IF i \in mine THEN <<>> ELSE outq[i]]
      /\ hand' = [i \in Interfaces |-> IF i \in mine THEN <<>> ELSE hand[i]]
      /\ tx' = [i \in Interfaces |-> IF i \in mine THEN "open" ELSE tx[i]]
    BY DEF Dies
<1>3. /\ rx' = [i \in Interfaces |-> IF i \in mine THEN "accept" ELSE rx[i]]
      /\ peer' = [i \in Interfaces |-> IF i \in mine THEN Default ELSE peer[i]]
      /\ conns' = [j \in Interfaces |-> after(j)]
    BY <1>u DEF Dies
<1>4. Inboxes'
    BY <1>1, EmptyIsSeq, LengthAssumption DEF IInv, Inboxes
<1>5. Repeats'
    BY <1>1, EmptyIsSeq DEF IInv, Repeats
<1>6. Routing'
    BY <1>1, EmptyIsSeq DEF IInv, Routing
<1>7. Outputs'
    BY <1>2, EmptyIsSeq, LengthAssumption DEF IInv, Outputs
<1>8. Senders'
    BY <1>2, EmptyIsSeq DEF IInv, Senders
<1>9. ASSUME NEW j \in Interfaces
      PROVE  /\ after(j) \in Seq(Links(j)) /\ Len(after(j)) <= Backlog
             /\ j \notin mine /\ conns[j] # <<>> => after(j) # <<>>
    <2>1. CASE j \in mine
        BY <2>1, EmptyIsSeq, LengthAssumption
    <2>2. CASE j \notin mine
        <3>1. /\ conns[j] \in Seq(Links(j)) /\ Len(conns[j]) <= Backlog
              /\ Len(conns[j]) \in Nat /\ DOMAIN conns[j] = 1..Len(conns[j])
            BY LenProperties DEF IInv, Receivers
        <3> DEFINE e(k) == IF conns[j][k].from \in mine /\ conns[j][k].st = "up"
                           THEN Ended(conns[j][k], unsaid) ELSE conns[j][k]
        <3>2. ASSUME NEW k \in 1..Len(conns[j])
              PROVE  e(k) \in Links(j)
            <4>1. conns[j][k] \in Links(j)
                BY <3>1, ElementOfSeq
            <4>2. Ended(conns[j][k], unsaid) \in Links(j)
                BY <4>1, EndedConn DEF Links
            <4> QED
                BY <4>1, <4>2
        <3>3. after(j) = [k \in 1..Len(conns[j]) |-> e(k)]
            BY <2>2, <3>1
        <3> HIDE DEF after
        <3>4. after(j) \in [1..Len(conns[j]) -> Links(j)]
            BY <3>2, <3>3
        <3>5. after(j) \in Seq(Links(j)) /\ Len(after(j)) = Len(conns[j])
            BY <3>1, <3>4, FunIsSeq
        <3> QED
            BY <2>2, <3>1, <3>5, EmptySeq
    <2> QED
        BY <2>1, <2>2
<1> HIDE DEF after
<1>10. Receivers'
    <2>1. /\ conns' \in [Interfaces -> Seq(Connections)]
          /\ rx' \in [Interfaces -> {"accept", "first", "run"}]
          /\ peer' \in [Interfaces -> {Default} \cup {Addr[i] : i \in Interfaces}]
        <3>1. \A j \in Interfaces : after(j) \in Seq(Connections)
            BY <1>9, Kinds, SeqMonotonic
        <3> QED
            BY <1>3, <3>1 DEF IInv, Receivers
    <2>2. ASSUME NEW j \in Interfaces
          PROVE  /\ conns'[j] \in Seq(Links(j)) /\ Len(conns'[j]) <= Backlog
                 /\ rx'[j] # "accept" => conns'[j] # <<>>
                 /\ (peer'[j] # Default) <=> (rx'[j] = "run")
                 /\ peer'[j] # Default => \E i \in LinesTo(j) : peer'[j] = Addr[i]
        <3>1. conns'[j] = after(j)
            BY <1>3
        <3> QED
            BY <1>3, <1>9, <3>1 DEF IInv, Receivers
    <2> QED
        BY <2>1, <2>2 DEF Receivers
<1>11. Records'
    BY <1>1 DEF IInv, Records
<1> QED
    BY <1>4, <1>5, <1>6, <1>7, <1>8, <1>10, <1>11 DEF IInv

LEMMA RestartStep ==
    ASSUME IInv, NEW n \in Nodes, Restart(n)
    PROVE  IInv'
<1>1. breaks' = breaks /\ restarts' \in 0 .. MaxRestarts
    BY BoundsAssumption DEF IInv, Records, Restart
<1> QED
    BY <1>1, DiesStep DEF Restart

LEMMA CrashStep ==
    ASSUME IInv, NEW j \in Interfaces, Crash(j)
    PROVE  IInv'
<1>1. NodeOf[j] \in Nodes
    BY LineAssumption
<1>2. breaks' = breaks /\ restarts' \in 0 .. MaxRestarts
    BY DEF IInv, Records, Crash
<1> QED
    BY <1>1, <1>2, DiesStep DEF Crash

-----------------------------------------------------------------------------
LEMMA NextIInv == IInv /\ [Next]_vars => IInv'
<1> SUFFICES ASSUME IInv, [Next]_vars PROVE IInv'
    OBVIOUS
<1>1. CASE \E n \in Terminals : Terminal(n)
    BY <1>1, InjectTwiceStep, InjectAgainStep DEF Terminal, SendTyped, SendMsg, TypedDst
<1>2. CASE \E n \in Nodes, d \in Destinations : Inject(n, d)
    BY <1>2, InjectStep
<1>3. CASE \E n \in Nodes : Loop(n) \/ Restart(n)
    BY <1>3, DeliverStep, RouteStep, OfferStep, RestartStep DEF Loop
<1>4. CASE \E i \in Interfaces : Sender(i)
    BY <1>4, OpenStep, PopStep, AliveFailsStep, SendStep, SendFailsStep DEF Sender
<1>5. CASE \E j \in Interfaces : Receiver(j)
    BY <1>5, AcceptStep, FirstMessageStep, FirstFailsStep, ExecuteStep, RunEndsStep,
       CrashStep DEF Receiver
<1>6. CASE \E i \in Interfaces : Break(i)
    BY <1>6, BreakStep
<1>7. CASE UNCHANGED vars
    BY <1>7, Kept DEF IInv, vars
<1> QED
    BY <1>1, <1>2, <1>3, <1>4, <1>5, <1>6, <1>7 DEF Next

(* The parts of the invariant hold together in every state. *)
THEOREM Inductive == Spec => []IInv
BY InitIInv, NextIInv, PTL DEF Spec

(* The queues keep their lengths, every thread is where its queues say it  *)
(* is, and a server knows a peer exactly while it receives from it         *)
(* (CCapsuleReceiver::receive).                                            *)
THEOREM TypeCorrect == Spec => []TypeOK
<1>1. IInv => TypeOK
    <2> SUFFICES ASSUME IInv PROVE TypeOK
        OBVIOUS
    <2>1. \A j \in Interfaces : \A k \in DOMAIN conns[j] : conns[j][k].from \in LinesTo(j)
        <3> SUFFICES ASSUME NEW j \in Interfaces, NEW k \in DOMAIN conns[j]
                     PROVE  conns[j][k].from \in LinesTo(j)
            OBVIOUS
        <3>1. conns[j] \in Seq(Links(j))
            BY DEF IInv, Receivers
        <3>2. conns[j][k] \in Links(j)
            BY <3>1, LenProperties, ElementOfSeq
        <3> QED
            BY <3>2 DEF Links
    <2> QED
        BY <2>1 DEF IInv, TypeOK, Inboxes, Repeats, Routing, Outputs, Senders, Receivers, Records
<1> QED
    BY <1>1, Inductive, PTL

(* A capsule for a real address makes one hop at most, from the node where *)
(* it began to the node whose address it is for, if links are configured   *)
(* alike at both ends (CNode::run compares with getPeerAddress).           *)
THEOREM AtMostOneHop ==
    ASSUME Paired
    PROVE  Spec => []OneHop
<1>1. IInv => OneHop
    <2> SUFFICES ASSUME IInv, NEW n \in Nodes, NEW c \in ToSet(inbox[n]) \cup ToSet(cur[n]),
                        c.dst # Default
                 PROVE  c.from = n \/ c.dst \in AddressesOf(n)
        BY DEF OneHop
    <2>1. inbox[n] \in Seq(Inside(n)) /\ cur[n] \in Seq(Inside(n))
        BY Kinds, SeqMonotonic DEF IInv, Inboxes, Routing
    <2>2. c \in Inside(n)
        BY <2>1, LenProperties, ElementOfSeq DEF ToSet
    <2> QED
        BY <2>2, Paired DEF Inside
<1> QED
    BY <1>1, Inductive, PTL

-----------------------------------------------------------------------------
(* What a sequence of connections carries for one line. *)

(* The induction over a sequence: a set of numbers has a least element. *)
LEMMA NatLeast ==
    ASSUME NEW T, T \subseteq Nat, T # {}
    PROVE  \E x \in T : \A y \in T : x <= y
<1> DEFINE R == {ss \in Nat \X Nat : ss[1] < ss[2]}
<1>1. IsWellFoundedOn(R, Nat)
    BY NatLessThanWellFounded DEF OpToRel
<1> HIDE DEF R
<1>2. PICK x \in T : \A y \in T : ~ (<<y, x>> \in R)
    BY <1>1, WFMin
<1>3. ASSUME NEW y \in T
      PROVE  x <= y
    <2>1. x \in Nat /\ y \in Nat
        OBVIOUS
    <2>2. y < x => <<y, x>> \in R
        BY <2>1 DEF R
    <2> QED
        BY <1>2, <2>1, <2>2
<1> QED
    BY <1>3

LEMMA ShareIsSeq == ASSUME NEW c \in Connections, NEW i PROVE Share(c, i) \in Seq(Capsules)
<1>1. c.data \in Seq(Capsules)
    BY DEF Connections
<1> QED
    BY <1>1, EmptyIsSeq DEF Share

(* f[k] is what the first k connections of cs carry. *)
Sums(f, cs, i) ==
    /\ f \in [0 .. Len(cs) -> Seq(Capsules)] /\ f[0] = <<>>
    /\ \A k \in 1 .. Len(cs) : f[k] = f[k - 1] \o Share(cs[k], i)

Equation(f, cs, i) ==
    f = [k \in 0 .. Len(cs) |-> IF k = 0 THEN <<>> ELSE f[k - 1] \o Share(cs[k], i)]

LEMMA CarriedIs ==
    ASSUME NEW cs \in Seq(Connections), NEW i, NEW f, Sums(f, cs, i)
    PROVE  Carried(cs, i) = f[Len(cs)] /\ Carried(cs, i) \in Seq(Capsules)
<1> DEFINE g == CHOOSE x : Equation(x, cs, i)
<1>1. Len(cs) \in Nat
    BY LenProperties
<1>2. Equation(f, cs, i)
    <2>1. f = [k \in 0 .. Len(cs) |-> f[k]]
        BY DEF Sums
    <2>2. ASSUME NEW k \in 0 .. Len(cs)
          PROVE  f[k] = IF k = 0 THEN <<>> ELSE f[k - 1] \o Share(cs[k], i)
        <3>1. k = 0 \/ k \in 1 .. Len(cs)
            BY <1>1
        <3> QED
            BY <3>1 DEF Sums
    <2> QED
        BY <2>1, <2>2, Zenon DEF Equation
<1>3. Equation(g, cs, i)
    BY <1>2
<1>4. Carried(cs, i) = g[Len(cs)]
    BY DEF Carried, Equation
<1> HIDE DEF g
<1>5. ASSUME {k \in 0 .. Len(cs) : g[k] # f[k]} # {}
      PROVE  FALSE
    <2> DEFINE T == {k \in 0 .. Len(cs) : g[k] # f[k]}
    <2>1. T \subseteq Nat
        BY <1>1
    <2> HIDE DEF T
    <2>2. PICK x \in T : \A y \in T : x <= y
        BY <1>5, <2>1, NatLeast DEF T
    <2>3. x \in 0 .. Len(cs) /\ g[x] # f[x]
        BY <2>2 DEF T
    <2>4. x # 0
        BY <1>1, <1>2, <1>3, <2>3 DEF Equation
    <2>5. x - 1 \in 0 .. Len(cs) /\ x - 1 \notin T
        BY <1>1, <2>2, <2>3, <2>4
    <2>6. g[x - 1] = f[x - 1]
        BY <2>5 DEF T
    <2> QED
        BY <1>1, <1>2, <1>3, <2>3, <2>4, <2>6 DEF Equation
<1>6. g[Len(cs)] = f[Len(cs)]
    BY <1>1, <1>5
<1> QED
    BY <1>1, <1>4, <1>6 DEF Sums

(* There is such an f. *)
LEMMA SumsExist ==
    ASSUME NEW cs \in Seq(Connections), NEW i
    PROVE  \E f : Sums(f, cs, i)
<1> DEFINE UpTo(n, f) == /\ f \in [0 .. n -> Seq(Capsules)] /\ f[0] = <<>>
                         /\ \A k \in 1 .. n : f[k] = f[k - 1] \o Share(cs[k], i)
           T == {n \in 0 .. Len(cs) : ~ \E f : UpTo(n, f)}
<1>1. Len(cs) \in Nat
    BY LenProperties
<1>2. ASSUME T # {}
      PROVE  FALSE
    <2> HIDE DEF UpTo
    <2>1. T \subseteq Nat
        BY <1>1
    <2> HIDE DEF T
    <2>2. PICK x \in T : \A y \in T : x <= y
        BY <1>2, <2>1, NatLeast
    <2>3. x \in 0 .. Len(cs) /\ ~ \E f : UpTo(x, f)
        BY <2>2 DEF T
    <2>4. UpTo(0, [k \in 0 .. 0 |-> <<>>])
        BY EmptyIsSeq DEF UpTo
    <2>5. x # 0
        BY <2>3, <2>4
    <2>6. x - 1 \in 0 .. Len(cs) /\ x - 1 \notin T
        BY <1>1, <2>2, <2>3, <2>5
    <2>7. PICK f : UpTo(x - 1, f)
        BY <2>6 DEF T
    <2> USE DEF UpTo
    <2> DEFINE last == f[x - 1] \o Share(cs[x], i)
               g == [k \in 0 .. x |-> IF k = x THEN last ELSE f[k]]
    <2>8. last \in Seq(Capsules)
        <3>1. f[x - 1] \in Seq(Capsules)
            BY <1>1, <2>3, <2>5, <2>7
        <3>2. cs[x] \in Connections
            BY <2>3, <2>5, <1>1, ElementOfSeq
        <3> QED
            BY <3>1, <3>2, ShareIsSeq, ConcatProperties
    <2>9. UpTo(x, g)
        <3>1. g \in [0 .. x -> Seq(Capsules)]
            <4> HIDE DEF last
            <4> QED BY <1>1, <2>3, <2>5, <2>7, <2>8
        <3>2. g[0] = <<>>
            BY <1>1, <2>3, <2>5, <2>7
        <3>3. ASSUME NEW k \in 1 .. x
              PROVE  g[k] = g[k - 1] \o Share(cs[k], i)
            <4>1. /\ k \in 0 .. x /\ k - 1 \in 0 .. x /\ k - 1 # x
                  /\ k # x => k \in 1 .. x - 1
                BY <1>1, <2>3
            <4>2. g[k - 1] = f[k - 1]
                BY <4>1
            <4>3. CASE k = x
                BY <4>1, <4>2, <4>3
            <4>4. CASE k # x
                <5>1. g[k] = f[k]
                    BY <4>1, <4>4
                <5> QED
                    BY <2>7, <4>1, <4>2, <4>4, <5>1
            <4> QED
                BY <4>3, <4>4
        <3> QED
            BY <3>1, <3>2, <3>3
    <2> QED
        BY <2>3, <2>9
<1>3. Len(cs) \notin T
    BY <1>2
<1> HIDE DEF UpTo
<1>4. PICK f : UpTo(Len(cs), f)
    BY <1>1, <1>3
<1> QED
    BY <1>4 DEF Sums, UpTo

LEMMA CarriedIsSeq ==
    ASSUME NEW cs \in Seq(Connections), NEW i
    PROVE  Carried(cs, i) \in Seq(Capsules)
BY SumsExist, CarriedIs

LEMMA CarriedByNone == ASSUME NEW i PROVE Carried(<<>>, i) = <<>>
<1> DEFINE f == [k \in 0 .. 0 |-> <<>>]
<1>1. <<>> \in Seq(Connections) /\ Len(<<>>) = 0
    BY EmptyIsSeq
<1>2. Sums(f, <<>>, i)
    BY <1>1, EmptyIsSeq DEF Sums
<1> HIDE DEF f
<1>3. Carried(<<>>, i) = f[0]
    BY <1>1, <1>2, CarriedIs
<1> QED
    BY <1>3 DEF f

(* Connections that carry the same carry the same together. *)
LEMMA CarriedAlike ==
    ASSUME NEW cs \in Seq(Connections), NEW ds \in Seq(Connections), NEW i,
           Len(ds) = Len(cs), \A k \in 1 .. Len(cs) : Share(ds[k], i) = Share(cs[k], i)
    PROVE  Carried(ds, i) = Carried(cs, i)
<1>1. PICK f : Sums(f, cs, i)
    BY SumsExist
<1>2. Sums(f, ds, i)
    BY <1>1 DEF Sums
<1>3. Carried(cs, i) = f[Len(cs)]
    BY <1>1, CarriedIs
<1>4. Carried(ds, i) = f[Len(ds)]
    BY <1>2, CarriedIs
<1> QED
    BY <1>3, <1>4

(* A new connection comes last. *)
LEMMA CarriedAppend ==
    ASSUME NEW cs \in Seq(Connections), NEW c \in Connections, NEW i
    PROVE  Carried(Append(cs, c), i) = Carried(cs, i) \o Share(c, i)
<1> DEFINE n == Len(cs)
           ds == Append(cs, c)
<1>1. PICK f : Sums(f, cs, i)
    BY SumsExist
<1>2. n \in Nat
    BY LenProperties
<1>3. /\ ds \in Seq(Connections) /\ Len(ds) = n + 1
      /\ \A k \in 1 .. n : ds[k] = cs[k]
      /\ ds[n + 1] = c
    BY AppendProperties
<1> DEFINE last == f[n] \o Share(c, i)
           g == [k \in 0 .. n + 1 |-> IF k = n + 1 THEN last ELSE f[k]]
<1>4. last \in Seq(Capsules)
    <2>1. f[n] \in Seq(Capsules)
        BY <1>1, <1>2 DEF Sums
    <2> QED
        BY <2>1, ShareIsSeq, ConcatProperties
<1> HIDE DEF ds, n
<1>5. Sums(g, ds, i)
    <2>1. g \in [0 .. n + 1 -> Seq(Capsules)]
        <3> HIDE DEF last
        <3> QED
            BY <1>1, <1>2, <1>4 DEF Sums, n
    <2>2. g[0] = <<>>
        BY <1>1, <1>2 DEF Sums
    <2>3. ASSUME NEW k \in 1 .. n + 1
          PROVE  g[k] = g[k - 1] \o Share(ds[k], i)
        <3>1. k - 1 \in 0 .. n + 1 /\ k - 1 # n + 1 /\ k \in 0 .. n + 1
            BY <1>2
        <3>2. g[k - 1] = f[k - 1]
            BY <3>1
        <3>3. CASE k = n + 1
            <4>1. k - 1 = n /\ ds[k] = c
                BY <1>2, <1>3, <3>3 DEF n
            <4>2. g[k] = last
                BY <3>1, <3>3
            <4> QED
                BY <3>2, <4>1, <4>2
        <3>4. CASE k # n + 1
            <4>1. g[k] = f[k] /\ k \in 1 .. n
                BY <1>2, <3>1, <3>4
            <4> QED
                BY <1>1, <1>3, <3>2, <4>1 DEF Sums, n
        <3> QED
            BY <3>3, <3>4
    <2> QED
        BY <1>3, <2>1, <2>2, <2>3 DEF Sums
<1>6. Carried(ds, i) = g[n + 1]
    <2> HIDE DEF g
    <2> QED
        BY <1>3, <1>5, CarriedIs
<1>7. g[n + 1] = last
    BY <1>2
<1>8. Carried(cs, i) = f[n]
    BY <1>1, CarriedIs DEF n
<1> QED
    BY <1>6, <1>7, <1>8 DEF ds

(* What the first connection carries comes first. *)
LEMMA CarriedFirst ==
    ASSUME NEW cs \in Seq(Connections), cs # <<>>, NEW i
    PROVE  Carried(cs, i) = Share(cs[1], i) \o Carried(Tail(cs), i)
<1> DEFINE n == Len(cs)
           ds == Tail(cs)
           p == Share(cs[1], i)
<1>1. /\ n \in Nat \ {0} /\ ds \in Seq(Connections) /\ Len(ds) = n - 1
      /\ \A k \in 1 .. n - 1 : ds[k] = cs[k + 1]
    BY EmptySeq, HeadTailProperties
<1>2. \A k \in 1 .. n : cs[k] \in Connections
    BY ElementOfSeq
<1>3. p \in Seq(Capsules)
    BY <1>1, <1>2, ShareIsSeq
<1>4. PICK f : Sums(f, ds, i)
    BY <1>1, SumsExist
<1> HIDE DEF n, ds, p
<1>5. /\ f \in [0 .. n - 1 -> Seq(Capsules)] /\ f[0] = <<>>
      /\ \A k \in 1 .. n - 1 : f[k] = f[k - 1] \o Share(cs[k + 1], i)
    BY <1>1, <1>4 DEF Sums
<1> DEFINE g == [k \in 0 .. n |-> IF k = 0 THEN <<>> ELSE p \o f[k - 1]]
<1>6. Sums(g, cs, i)
    <2>1. ASSUME NEW k \in 1 .. n
          PROVE  k - 1 \in 0 .. n - 1 /\ f[k - 1] \in Seq(Capsules) /\ g[k] = p \o f[k - 1]
        <3>1. k - 1 \in 0 .. n - 1 /\ k \in 0 .. n /\ k # 0
            BY <1>1
        <3> QED
            BY <1>5, <3>1
    <2>2. ASSUME NEW k \in 0 .. n
          PROVE  g[k] \in Seq(Capsules)
        <3>1. CASE k = 0
            BY <3>1, EmptyIsSeq
        <3>2. CASE k # 0
            <4>1. k \in 1 .. n
                BY <1>1, <3>2
            <4> HIDE DEF g
            <4> QED
                BY <1>3, <2>1, <4>1, ConcatProperties
        <3> QED
            BY <3>1, <3>2
    <2>3. g[0] = <<>>
        BY <1>1
    <2>4. ASSUME NEW k \in 1 .. n
          PROVE  g[k] = g[k - 1] \o Share(cs[k], i)
        <3>1. CASE k = 1
            <4>1. g[k] = p \o <<>>
                <5>1. f[k - 1] = <<>>
                    BY <1>5, <3>1
                <5> HIDE DEF g
                <5> QED
                    BY <2>1, <5>1
            <4>2. g[k] = p
                BY <1>3, <4>1, ConcatEmptySeq
            <4>3. g[k - 1] = <<>>
                BY <2>3, <3>1
            <4> QED
                BY <1>3, <3>1, <4>2, <4>3, ConcatEmptySeq DEF p
        <3>2. CASE k # 1
            <4>1. /\ k - 1 \in 1 .. n - 1 /\ k - 1 \in 1 .. n /\ k - 2 \in 0 .. n - 1
                  /\ (k - 1) - 1 = k - 2 /\ (k - 1) + 1 = k
                BY <1>1, <3>2
            <4>2. f[k - 1] = f[k - 2] \o Share(cs[k], i)
                BY <1>5, <4>1
            <4>3. g[k - 1] = p \o f[k - 2]
                <5> HIDE DEF g
                <5> QED
                    BY <2>1, <4>1
            <4>4. f[k - 2] \in Seq(Capsules) /\ Share(cs[k], i) \in Seq(Capsules)
                BY <1>2, <1>5, <4>1, ShareIsSeq
            <4>5. g[k] = p \o f[k - 1]
                BY <2>1
            <4>6. (p \o f[k - 2]) \o Share(cs[k], i) = p \o (f[k - 2] \o Share(cs[k], i))
                <5> DEFINE a == f[k - 2]
                           b == Share(cs[k], i)
                <5>1. a \in Seq(Capsules) /\ b \in Seq(Capsules)
                    BY <4>4
                <5> HIDE DEF a, b
                <5>2. (p \o a) \o b = p \o (a \o b)
                    BY <1>3, <5>1, ConcatAssociative
                <5> QED
                    BY <5>2 DEF a, b
            <4> HIDE DEF g
            <4> QED
                BY <4>2, <4>3, <4>5, <4>6
        <3> QED
            BY <3>1, <3>2
    <2>5. g \in [0 .. n -> Seq(Capsules)]
        BY <2>2
    <2> HIDE DEF g
    <2> QED
        BY <2>3, <2>4, <2>5 DEF Sums, n
<1>7. Carried(cs, i) = g[n]
    <2> HIDE DEF g
    <2> QED
        BY <1>6, CarriedIs DEF n
<1>8. Carried(ds, i) = f[n - 1]
    BY <1>1, <1>4, CarriedIs
<1>9. g[n] = p \o f[n - 1]
    BY <1>1
<1> QED
    BY <1>7, <1>8, <1>9 DEF p, ds

(* What the last connection of the line carries comes last. *)
LEMMA CarriedLast ==
    ASSUME NEW cs \in Seq(Connections), NEW k \in 1 .. Len(cs), NEW i,
           \A m \in k + 1 .. Len(cs) : cs[m].from # i
    PROVE  \E p \in Seq(Capsules) : \A ds \in Seq(Connections) :
              Len(ds) = Len(cs) /\ (\A m \in 1 .. Len(cs) : m # k => ds[m] = cs[m])
                 => Carried(ds, i) = p \o Share(ds[k], i)
<1> DEFINE n == Len(cs)
<1>1. n \in Nat /\ k \in 1 .. n
    BY LenProperties
<1>2. PICK f : Sums(f, cs, i)
    BY SumsExist
<1> DEFINE p == f[k - 1]
<1>3. p \in Seq(Capsules)
    BY <1>1, <1>2 DEF Sums
<1>4. ASSUME NEW ds \in Seq(Connections), Len(ds) = n,
             \A m \in 1 .. n : m # k => ds[m] = cs[m]
      PROVE  Carried(ds, i) = p \o Share(ds[k], i)
    <2> DEFINE q == p \o Share(ds[k], i)
               g == [m \in 0 .. n |-> IF m < k THEN f[m] ELSE q]
    <2>1. q \in Seq(Capsules)
        <3>1. ds[k] \in Connections
            BY <1>1, <1>4, ElementOfSeq
        <3> QED
            BY <1>3, <3>1, ShareIsSeq, ConcatProperties
    <2> HIDE DEF n
    <2>2. g \in [0 .. n -> Seq(Capsules)]
        <3> HIDE DEF q
        <3> QED
            BY <1>1, <1>2, <2>1 DEF Sums, n
    <2>3. g[0] = <<>>
        BY <1>1, <1>2 DEF Sums
    <2>4. ASSUME NEW m \in 1 .. n
          PROVE  g[m] = g[m - 1] \o Share(ds[m], i)
        <3>1. m \in 0 .. n /\ m - 1 \in 0 .. n /\ (m < k => m - 1 < k)
            BY <1>1
        <3>2. CASE m < k
            <4>1. g[m] = f[m] /\ g[m - 1] = f[m - 1] /\ ds[m] = cs[m]
                BY <1>1, <1>4, <3>1, <3>2
            <4> QED
                BY <1>2, <4>1 DEF Sums, n
        <3>3. CASE m = k
            <4>1. g[m] = q
                <5> HIDE DEF q
                <5> QED
                    BY <1>1, <3>1, <3>3
            <4>2. g[m - 1] = p
                BY <1>1, <3>1, <3>3
            <4> QED
                BY <3>3, <4>1, <4>2
        <3>4. CASE m > k
            <4>1. g[m] = q /\ g[m - 1] = q /\ ds[m] = cs[m] /\ m \in k + 1 .. n
                BY <1>1, <1>4, <3>1, <3>4
            <4>2. Share(ds[m], i) = <<>>
                BY <4>1 DEF Share, n
            <4> HIDE DEF g, q
            <4> QED
                BY <2>1, <4>1, <4>2, ConcatEmptySeq
        <3>5. m < k \/ m = k \/ m > k
            BY <1>1
        <3> QED
            BY <3>2, <3>3, <3>4, <3>5, Zenon
    <2>5. Sums(g, ds, i)
        <3> HIDE DEF g
        <3> QED
            BY <1>4, <2>2, <2>3, <2>4 DEF Sums
    <2>6. Carried(ds, i) = g[n]
        <3> HIDE DEF g
        <3> QED
            BY <1>4, <2>5, CarriedIs
    <2>7. g[n] = q
        <3> HIDE DEF q
        <3> QED
            BY <1>1
    <2> QED
        BY <2>6, <2>7
<1> HIDE DEF p
<1> QED
    BY <1>3, <1>4

-----------------------------------------------------------------------------
(* The connections of one server. *)

LiveIn(s, i) == {k \in DOMAIN s : s[k].from = i /\ s[k].st = "up"}

(* The connection that the sender of a line has open is its last. *)
LiveLast(s) ==
    \A k, m \in DOMAIN s : k < m /\ s[k].st = "up" => s[m].from # s[k].from

(* Of a connection whose first message is lost there comes nothing; r is what its server does. *)
Behind(s, r) ==
    \A k \in DOMAIN s :
        ~s[k].hello /\ (k > 1 \/ r # "run") => s[k].data = <<>> /\ s[k].st # "up"

LastLive == \A j \in Interfaces : LiveLast(conns[j])
OpenIdle == \A i \in Interfaces : tx[i] = "open" => LiveIn(conns[Remote[i]], i) = {}
NothingBehind == \A j \in Interfaces : Behind(conns[j], rx[j])

LineInv == LastLive /\ OpenIdle /\ NothingBehind

LEMMA LiveIs == ASSUME NEW i PROVE Live(i) = LiveIn(conns[Remote[i]], i)
BY DEF Live, LiveIn

LEMMA ServerConns ==
    ASSUME IInv, NEW j \in Interfaces
    PROVE  /\ conns[j] \in Seq(Connections) /\ Len(conns[j]) \in Nat
           /\ DOMAIN conns[j] = 1 .. Len(conns[j])
           /\ \A k \in 1 .. Len(conns[j]) : conns[j][k] \in Connections
<1>1. conns[j] \in Seq(Connections)
    BY DEF IInv, Receivers
<1> QED
    BY <1>1, LenProperties, ElementOfSeq

(* When they keep who they are from and none comes up. *)
LEMMA ConnsKept ==
    ASSUME NEW s \in Seq(Connections), NEW t \in Seq(Connections), Len(t) = Len(s),
           \A k \in 1 .. Len(s) : t[k].from = s[k].from /\ (t[k].st = "up" => s[k].st = "up")
    PROVE  /\ LiveLast(s) => LiveLast(t)
           /\ \A i : LiveIn(t, i) \subseteq LiveIn(s, i)
<1>1. DOMAIN s = 1 .. Len(s) /\ DOMAIN t = 1 .. Len(s)
    BY LenProperties
<1> QED
    BY <1>1 DEF LiveLast, LiveIn

(* When the first goes. *)
LEMMA ConnsTail ==
    ASSUME NEW s \in Seq(Connections), s # <<>>
    PROVE  /\ LiveLast(s) => LiveLast(Tail(s))
           /\ \A i : LiveIn(s, i) = {} => LiveIn(Tail(s), i) = {}
           /\ \A r, q : Behind(s, r) => Behind(Tail(s), q)
<1>1. /\ Len(s) \in Nat \ {0} /\ DOMAIN s = 1 .. Len(s)
      /\ DOMAIN Tail(s) = 1 .. Len(s) - 1
      /\ \A k \in 1 .. Len(s) - 1 : Tail(s)[k] = s[k + 1]
    BY EmptySeq, HeadTailProperties, LenProperties
<1> DEFINE t == Tail(s)
<1> HIDE DEF t
<1>2. /\ DOMAIN t = 1 .. Len(s) - 1
      /\ \A k \in DOMAIN t : t[k] = s[k + 1] /\ k + 1 \in DOMAIN s /\ k + 1 > 1
      /\ \A k, m \in DOMAIN t : k < m => k + 1 < m + 1
    BY <1>1 DEF t
<1>3. LiveLast(s) => LiveLast(t)
    BY <1>2 DEF LiveLast
<1>4. \A i : LiveIn(s, i) = {} => LiveIn(t, i) = {}
    BY <1>2 DEF LiveIn
<1>5. \A r, q : Behind(s, r) => Behind(t, q)
    BY <1>2 DEF Behind
<1> QED
    BY <1>3, <1>4, <1>5 DEF t

(* Something happens to the connections of server j alone. *)
LEMMA LinesOfOneServer ==
    ASSUME IInv, LineInv, NEW j \in Interfaces, NEW s, conns' = [conns EXCEPT ![j] = s],
           LiveLast(s), Behind(s, rx'[j]), \A k \in Interfaces \ {j} : rx'[k] = rx[k],
           \A i \in Interfaces : tx'[i] = "open" =>
              IF Remote[i] = j THEN LiveIn(s, i) = {} ELSE tx[i] = "open"
    PROVE  LineInv'
<1>1. /\ conns'[j] = s
      /\ \A k \in Interfaces \ {j} : conns'[k] = conns[k]
    BY DEF IInv, Receivers
<1>2. LastLive'
    BY <1>1 DEF LineInv, LastLive
<1>3. NothingBehind'
    BY <1>1 DEF LineInv, NothingBehind
<1>4. OpenIdle'
    BY <1>1, RemoteServer DEF LineInv, OpenIdle
<1> QED
    BY <1>2, <1>3, <1>4 DEF LineInv

LEMMA LineInvKept ==
    ASSUME LineInv, UNCHANGED conns,
           \A j \in Interfaces : rx'[j] = "run" <=> rx[j] = "run",
           \A i \in Interfaces : tx'[i] = "open" => tx[i] = "open" \/ Live(i) = {}
    PROVE  LineInv'
BY LiveIs DEF LineInv, LastLive, OpenIdle, NothingBehind, Behind

LEMMA InitLineInv == Init => LineInv
<1>1. Len(<<>>) = 0 /\ DOMAIN <<>> = {}
    OBVIOUS
<1> QED
    BY <1>1, RemoteServer
    DEF Init, LineInv, LastLive, OpenIdle, NothingBehind, LiveLast, LiveIn, Behind

(* Its sender opens a new one when the old one is broken. *)
LEMMA OpenLineInv ==
    ASSUME IInv, LineInv, NEW i \in Interfaces, Open(i)
    PROVE  LineInv'
<1> DEFINE j == Remote[i]
           s == conns[j]
           t == Append(s, NewConn(i))
           n == Len(s)
<1>1. /\ tx[i] = "open" /\ conns' = [conns EXCEPT ![j] = Append(@, NewConn(i))]
      /\ tx' = [tx EXCEPT ![i] = "pop"] /\ rx' = rx
    BY DEF Open, rxVars
<1>2. j \in Interfaces
    BY RemoteServer
<1>3. conns' = [conns EXCEPT ![j] = t]
    BY <1>1, <1>2 DEF IInv, Receivers
<1>4. s \in Seq(Connections) /\ n \in Nat /\ DOMAIN s = 1 .. n
    BY <1>2, ServerConns
<1>5. NewConn(i) \in Connections /\ NewConn(i).from = i /\ NewConn(i).hello
    BY EmptyIsSeq DEF NewConn, Connections
<1>6. /\ DOMAIN t = 1 .. n + 1 /\ t[n + 1] = NewConn(i)
      /\ \A k \in 1 .. n : t[k] = s[k]
    <2>1. t \in Seq(Connections) /\ Len(t) = n + 1
        BY <1>4, <1>5, AppendProperties
    <2> QED
        BY <1>4, <1>5, <2>1, AppendProperties, LenProperties
<1>7. LiveIn(s, i) = {} /\ LiveLast(s) /\ Behind(s, rx[j])
    BY <1>1, <1>2 DEF LineInv, OpenIdle, LastLive, NothingBehind
<1> HIDE DEF t, s, n, j
<1>8. LiveLast(t)
    <2> SUFFICES ASSUME NEW k \in 1 .. n + 1, NEW m \in 1 .. n + 1, k < m, t[k].st = "up"
                 PROVE  t[m].from # t[k].from
        BY <1>6 DEF LiveLast
    <2>1. k \in 1 .. n /\ t[k] = s[k]
        BY <1>4, <1>6
    <2>2. CASE m = n + 1
        BY <1>4, <1>5, <1>6, <1>7, <2>1, <2>2 DEF LiveIn
    <2>3. CASE m # n + 1
        <3>1. m \in 1 .. n /\ t[m] = s[m]
            BY <1>4, <1>6, <2>3
        <3> QED
            BY <1>4, <1>7, <2>1, <3>1 DEF LiveLast
    <2> QED
        BY <2>2, <2>3
<1>9. Behind(t, rx[j])
    BY <1>4, <1>5, <1>6, <1>7 DEF Behind
<1>10. ASSUME NEW o \in Interfaces, tx'[o] = "open"
       PROVE  IF Remote[o] = j THEN LiveIn(t, o) = {} ELSE tx[o] = "open"
    <2>1. o # i /\ tx[o] = "open"
        BY <1>1, <1>10 DEF IInv, Senders
    <2>2. CASE Remote[o] = j
        <3>1. LiveIn(s, o) = {}
            BY <2>1, <2>2 DEF LineInv, OpenIdle, s
        <3>2. LiveIn(t, o) = {}
            BY <1>4, <1>5, <1>6, <2>1, <3>1 DEF LiveIn
        <3> QED
            BY <2>2, <3>2
    <2> QED
        BY <2>1, <2>2
<1> QED
    BY <1>1, <1>2, <1>3, <1>8, <1>9, <1>10, LinesOfOneServer

(* The connections of a server change, but not where they come from, and none comes up. *)
LEMMA ConnsChange ==
    ASSUME IInv, LineInv, NEW j \in Interfaces, NEW t \in Seq(Connections),
           conns' = [conns EXCEPT ![j] = t], Len(t) = Len(conns[j]),
           \A k \in 1 .. Len(conns[j]) :
              t[k].from = conns[j][k].from /\ (t[k].st = "up" => conns[j][k].st = "up"),
           Behind(t, rx'[j]), \A k \in Interfaces \ {j} : rx'[k] = rx[k],
           \A i \in Interfaces : tx'[i] = "open" => tx[i] = "open"
    PROVE  LineInv'
<1>1. conns[j] \in Seq(Connections)
    BY ServerConns
<1>2. LiveLast(t) /\ \A i : LiveIn(t, i) \subseteq LiveIn(conns[j], i)
    BY <1>1, ConnsKept DEF LineInv, LastLive
<1>3. ASSUME NEW i \in Interfaces, tx'[i] = "open"
      PROVE  IF Remote[i] = j THEN LiveIn(t, i) = {} ELSE tx[i] = "open"
    <2>1. tx[i] = "open" /\ LiveIn(conns[Remote[i]], i) = {}
        BY <1>3 DEF LineInv, OpenIdle
    <2> QED
        BY <1>2, <2>1
<1> QED
    BY <1>2, <1>3, LinesOfOneServer

(* What a successful write makes of the connections of the server. *)
LEMMA SendChange ==
    ASSUME IInv, NEW i \in Interfaces, Send(i)
    PROVE  LET j == Remote[i] s == conns[j] t == conns'[j] IN
           /\ conns' = [conns EXCEPT ![j] = t] /\ t \in Seq(Connections) /\ Len(t) = Len(s)
           /\ \A k \in 1 .. Len(s) :
                /\ t[k].from = s[k].from /\ t[k].st = s[k].st /\ t[k].hello = s[k].hello
                /\ k \in Live(i) => t[k].data = s[k].data \o hand[i]
                /\ k \notin Live(i) => t[k] = s[k]
<1> DEFINE j == Remote[i]
           s == conns[j]
           t == conns'[j]
           e(k) == IF k \in Live(i) THEN [s[k] EXCEPT !.data = @ \o hand[i]] ELSE s[k]
           w == [k \in DOMAIN s |-> e(k)]
<1>1. conns' = [conns EXCEPT ![j] = w]
    BY DEF Send, Write
<1>2. j \in Interfaces
    BY RemoteServer
<1>3. /\ s \in Seq(Connections) /\ Len(s) \in Nat /\ DOMAIN s = 1 .. Len(s)
      /\ \A k \in 1 .. Len(s) : s[k] \in Connections
    BY <1>2, ServerConns
<1>4. hand[i] \in Seq(Capsules)
    BY DEF IInv, Senders
<1>5. ASSUME NEW k \in 1 .. Len(s)
      PROVE  /\ e(k) \in Connections /\ e(k).from = s[k].from /\ e(k).st = s[k].st
             /\ e(k).hello = s[k].hello
             /\ k \in Live(i) => e(k).data = s[k].data \o hand[i]
             /\ k \notin Live(i) => e(k) = s[k]
    <2>1. s[k] \in Connections
        BY <1>3
    <2>2. CASE k \in Live(i)
        <3> DEFINE c == s[k]
        <3>1. c.data \o hand[i] \in Seq(Capsules)
            BY <1>4, <2>1, ConcatProperties DEF Connections
        <3>2. [c EXCEPT !.data = @ \o hand[i]] \in Connections
            BY <2>1, <3>1 DEF Connections
        <3> QED
            BY <2>1, <2>2, <3>1, <3>2 DEF Connections
    <2>3. CASE k \notin Live(i)
        BY <2>1, <2>3
    <2> QED
        BY <2>2, <2>3
<1>6. w \in [1 .. Len(s) -> Connections] /\ \A k \in 1 .. Len(s) : w[k] = e(k)
    BY <1>3, <1>5
<1> HIDE DEF w, e
<1>7. w \in Seq(Connections) /\ Len(w) = Len(s)
    BY <1>3, <1>6, FunIsSeq
<1>8. t = w
    BY <1>1, <1>2 DEF IInv, Receivers
<1>9. conns' = [conns EXCEPT ![j] = t]
    BY <1>1, <1>8
<1> HIDE DEF t, s
<1>10. /\ t \in Seq(Connections) /\ Len(t) = Len(s)
       /\ \A k \in 1 .. Len(s) :
            /\ t[k].from = s[k].from /\ t[k].st = s[k].st /\ t[k].hello = s[k].hello
            /\ k \in Live(i) => t[k].data = s[k].data \o hand[i]
            /\ k \notin Live(i) => t[k] = s[k]
    BY <1>5, <1>6, <1>7, <1>8
<1> QED
    BY <1>9, <1>10, Zenon DEF t, s

LEMMA SendLineInv ==
    ASSUME IInv, LineInv, NEW i \in Interfaces, Send(i)
    PROVE  LineInv'
<1> DEFINE j == Remote[i]
           s == conns[j]
           t == conns'[j]
<1>1. /\ conns' = [conns EXCEPT ![j] = t]
      /\ t \in Seq(Connections) /\ Len(t) = Len(s)
      /\ \A k \in 1 .. Len(s) :
           /\ t[k].from = s[k].from /\ t[k].st = s[k].st /\ t[k].hello = s[k].hello
           /\ k \in Live(i) => t[k].data = s[k].data \o hand[i]
           /\ k \notin Live(i) => t[k] = s[k]
    BY SendChange, Zenon
<1> HIDE DEF t
<1>2. j \in Interfaces /\ tx' = [tx EXCEPT ![i] = "pop"] /\ rx' = rx
    BY RemoteServer DEF Send, rxVars
<1>3. s \in Seq(Connections) /\ Len(s) \in Nat /\ DOMAIN s = 1 .. Len(s) /\ DOMAIN t = 1 .. Len(s)
    BY <1>1, <1>2, ServerConns, LenProperties
<1>4. Behind(t, rx[j])
    <2>1. Behind(s, rx[j])
        BY <1>2 DEF LineInv, NothingBehind
    <2>2. \A k \in 1 .. Len(s) : k \in Live(i) => s[k].st = "up"
        BY DEF Live
    <2> QED
        BY <1>1, <1>3, <2>1, <2>2 DEF Behind
<1>5. \A o \in Interfaces : tx'[o] = "open" => tx[o] = "open"
    BY <1>2 DEF IInv, Senders
<1> QED
    BY <1>1, <1>2, <1>4, <1>5, ConnsChange, ZenonT(30)

(* The connection that is served changes. *)
LEMMA ServedLineInv ==
    ASSUME IInv, LineInv, NEW j \in Interfaces, conns[j] # <<>>, NEW d \in Connections,
           conns' = [conns EXCEPT ![j] = [conns[j] EXCEPT ![1] = d]],
           d.from = conns[j][1].from, d.st = conns[j][1].st,
           rx' = [rx EXCEPT ![j] = "run"], UNCHANGED tx
    PROVE  LineInv'
<1> DEFINE s == conns[j]
           t == [s EXCEPT ![1] = d]
<1>1. /\ s \in Seq(Connections) /\ Len(s) \in Nat /\ DOMAIN s = 1 .. Len(s)
      /\ \A k \in 1 .. Len(s) : s[k] \in Connections
    BY ServerConns
<1>2. 1 \in 1 .. Len(s)
    BY Served DEF IInv
<1>3. /\ t \in Seq(Connections) /\ Len(t) = Len(s) /\ DOMAIN t = 1 .. Len(s)
      /\ \A k \in 1 .. Len(s) : t[k] = IF k = 1 THEN d ELSE s[k]
    <2>1. /\ t \in Seq(Connections) /\ Len(t) = Len(s)
          /\ \A k \in 1 .. Len(s) : t[k] = IF k = 1 THEN d ELSE s[k]
        BY <1>1, <1>2, ExceptSeq
    <2> QED
        BY <2>1, LenProperties
<1>4. conns' = [conns EXCEPT ![j] = t]
    OBVIOUS
<1> HIDE DEF t
<1>5. Behind(t, "run")
    <2>1. Behind(s, rx[j])
        BY DEF LineInv, NothingBehind
    <2> QED
        BY <1>1, <1>3, <2>1 DEF Behind
<1>6. \A k \in 1 .. Len(s) : t[k].from = s[k].from /\ (t[k].st = "up" => s[k].st = "up")
    BY <1>3
<1>7. rx'[j] = "run" /\ \A k \in Interfaces \ {j} : rx'[k] = rx[k]
    BY DEF IInv, Receivers
<1> QED
    BY <1>3, <1>4, <1>5, <1>6, <1>7, ConnsChange

(* It is over. *)
LEMMA OverLineInv ==
    ASSUME IInv, LineInv, NEW j \in Interfaces, conns[j] # <<>>,
           conns' = [conns EXCEPT ![j] = Tail(conns[j])],
           rx' = [rx EXCEPT ![j] = "accept"], UNCHANGED tx
    PROVE  LineInv'
<1>1. conns[j] \in Seq(Connections)
    BY ServerConns
<1>2. LiveLast(conns[j]) /\ Behind(conns[j], rx[j])
    BY DEF LineInv, LastLive, NothingBehind
<1>3. /\ LiveLast(Tail(conns[j])) /\ Behind(Tail(conns[j]), "accept")
      /\ \A i : LiveIn(conns[j], i) = {} => LiveIn(Tail(conns[j]), i) = {}
    BY <1>1, <1>2, ConnsTail
<1>4. rx'[j] = "accept" /\ \A k \in Interfaces \ {j} : rx'[k] = rx[k]
    BY DEF IInv, Receivers
<1>5. \A i \in Interfaces : tx'[i] = "open" =>
         IF Remote[i] = j THEN LiveIn(Tail(conns[j]), i) = {} ELSE tx[i] = "open"
    BY <1>3 DEF LineInv, OpenIdle
<1> QED
    BY <1>3, <1>4, <1>5, LinesOfOneServer

(* What a break makes of the connections: only one that was up changes, and is not up then. *)
LEMMA BreakChange ==
    ASSUME IInv, NEW i \in Interfaces, Break(i)
    PROVE  \E k \in Live(i) : \E d \in Connections : \E n \in 0 .. Len(conns[Remote[i]][k].data) :
              /\ conns' = [conns EXCEPT ![Remote[i]] = [conns[Remote[i]] EXCEPT ![k] = d]]
              /\ k \in 1 .. Len(conns[Remote[i]])
              /\ d.from = i /\ d.st # "up"
              /\ d.data = SubSeq(conns[Remote[i]][k].data, 1, n)
              /\ ~d.hello /\ conns[Remote[i]][k].hello => d.data = <<>>
<1> DEFINE j == Remote[i]
<1>1. PICK how \in Breaks, k \in Live(i) :
          \E n \in 0 .. Len(conns[j][k].data), h \in BOOLEAN :
             /\ (h => conns[j][k].hello) /\ (conns[j][k].hello /\ ~h => n = 0)
             /\ conns' = [conns EXCEPT ![j][k] = Broken(conns[j][k], how, h, n)]
    BY DEF Break
<1>2. PICK n \in 0 .. Len(conns[j][k].data), h \in BOOLEAN :
             /\ (h => conns[j][k].hello) /\ (conns[j][k].hello /\ ~h => n = 0)
             /\ conns' = [conns EXCEPT ![j][k] = Broken(conns[j][k], how, h, n)]
    BY <1>1
<1> DEFINE c == conns[j][k]
           d == Broken(c, how, h, n)
<1>3. j \in Interfaces
    BY RemoteServer
<1>4. k \in 1 .. Len(conns[j]) /\ c \in Connections /\ c.from = i
    BY <1>3, ServerConns DEF Live
<1>5. c.data \in Seq(Capsules)
    BY <1>4 DEF Connections
<1>6. SubSeq(c.data, 1, n) \in Seq(Capsules)
    BY <1>2, <1>5, FirstPart
<1>7. how \in {"reset", "quiet"}
    BY BreakAssumption
<1>8. /\ d \in Connections /\ d.from = i /\ d.st = how /\ d.hello = h
      /\ d.data = SubSeq(c.data, 1, n)
    BY <1>2, <1>4, <1>6, <1>7 DEF Broken, Connections
<1>9. ~d.hello /\ c.hello => d.data = <<>>
    BY <1>2, <1>8, SubSeqEmpty
<1>10. conns' = [conns EXCEPT ![j] = [conns[j] EXCEPT ![k] = d]]
    BY <1>2
<1> HIDE DEF d
<1> QED
    BY <1>2, <1>4, <1>7, <1>8, <1>9, <1>10

LEMMA BreakLineInv ==
    ASSUME IInv, LineInv, NEW i \in Interfaces, Break(i)
    PROVE  LineInv'
<1> DEFINE j == Remote[i]
           s == conns[j]
<1>1. PICK k \in Live(i) : \E d \in Connections : \E n \in 0 .. Len(s[k].data) :
          /\ conns' = [conns EXCEPT ![j] = [s EXCEPT ![k] = d]]
          /\ k \in 1 .. Len(s)
          /\ d.from = i /\ d.st # "up"
          /\ d.data = SubSeq(s[k].data, 1, n)
          /\ ~d.hello /\ s[k].hello => d.data = <<>>
    BY BreakChange
<1>2. PICK d \in Connections :
          /\ conns' = [conns EXCEPT ![j] = [s EXCEPT ![k] = d]]
          /\ k \in 1 .. Len(s)
          /\ d.from = i /\ d.st # "up"
          /\ ~d.hello /\ s[k].hello => d.data = <<>>
    BY <1>1
<1> DEFINE t == [s EXCEPT ![k] = d]
<1>3. j \in Interfaces /\ UNCHANGED <<tx, rx>>
    BY RemoteServer DEF Break, txVars, rxVars
<1>4. s \in Seq(Connections) /\ Len(s) \in Nat /\ DOMAIN s = 1 .. Len(s)
    BY <1>3, ServerConns
<1>5. /\ t \in Seq(Connections) /\ Len(t) = Len(s) /\ DOMAIN t = 1 .. Len(s)
      /\ \A m \in 1 .. Len(s) : t[m] = IF m = k THEN d ELSE s[m]
    <2>1. /\ t \in Seq(Connections) /\ Len(t) = Len(s)
          /\ \A m \in 1 .. Len(s) : t[m] = IF m = k THEN d ELSE s[m]
        BY <1>2, <1>4, ExceptSeq
    <2> QED
        BY <2>1, LenProperties
<1>6. s[k].from = i /\ s[k].st = "up"
    BY <1>1 DEF Live
<1> HIDE DEF t
<1>7. Behind(t, rx[j])
    <2>1. Behind(s, rx[j])
        BY <1>3 DEF LineInv, NothingBehind
    <2> QED
        BY <1>2, <1>4, <1>5, <1>6, <2>1 DEF Behind
<1>8. \A m \in 1 .. Len(s) : t[m].from = s[m].from /\ (t[m].st = "up" => s[m].st = "up")
    BY <1>2, <1>5, <1>6
<1> QED
    BY <1>2, <1>3, <1>5, <1>7, <1>8, ConnsChange DEF t

(* What the death of a node makes of the connections of the servers of other nodes. *)
LEMMA DiesChange ==
    ASSUME IInv, NEW n \in Nodes, Dies(n), NEW j \in Interfaces
    PROVE  /\ NodeOf[j] = n => conns'[j] = <<>>
           /\ NodeOf[j] # n =>
                /\ conns'[j] \in Seq(Connections) /\ Len(conns'[j]) = Len(conns[j])
                /\ \A k \in 1 .. Len(conns[j]) :
                     /\ conns'[j][k].from = conns[j][k].from
                     /\ conns'[j][k].data = conns[j][k].data
                     /\ conns'[j][k].st = "up" =>
                          conns[j][k].st = "up" /\ NodeOf[conns[j][k].from] # n
                     /\ ~conns'[j][k].hello =>
                          \/ ~conns[j][k].hello
                          \/ conns'[j][k].data = <<>> /\ conns'[j][k].st # "up"
<1>u. PICK unsaid \in SUBSET InterfacesOf(n) :
          conns' = [i \in Interfaces |->
                      IF i \in InterfacesOf(n) THEN <<>>
                      ELSE [k \in DOMAIN conns[i] |->
                              IF conns[i][k].from \in InterfacesOf(n) /\ conns[i][k].st = "up"
                              THEN Ended(conns[i][k], unsaid) ELSE conns[i][k]]]
    BY DEF Dies
<1> DEFINE mine == InterfacesOf(n)
           s == conns[j]
           e(k) == IF s[k].from \in mine /\ s[k].st = "up" THEN Ended(s[k], unsaid) ELSE s[k]
           t == [k \in DOMAIN s |-> e(k)]
<1>1. conns'[j] = IF j \in mine THEN <<>> ELSE t
    BY <1>u
<1>2. j \in mine <=> NodeOf[j] = n
    BY DEF InterfacesOf
<1>3. /\ s \in Seq(Connections) /\ Len(s) \in Nat /\ DOMAIN s = 1 .. Len(s)
      /\ \A k \in 1 .. Len(s) : s[k] \in Connections
    BY ServerConns
<1>4. ASSUME NEW k \in 1 .. Len(s)
      PROVE  /\ e(k) \in Connections
             /\ e(k).from = s[k].from /\ e(k).data = s[k].data
             /\ e(k).st = "up" => s[k].st = "up" /\ NodeOf[s[k].from] # n
             /\ ~e(k).hello => ~s[k].hello \/ (e(k).data = <<>> /\ e(k).st # "up")
    <2>1. s[k] \in Connections
        BY <1>3
    <2>2. s[k].from \in mine <=> NodeOf[s[k].from] = n
        BY <2>1 DEF Connections, InterfacesOf
    <2>3. CASE s[k].from \in mine /\ s[k].st = "up"
        BY <2>1, <2>3, EndedConn
    <2>4. CASE ~(s[k].from \in mine /\ s[k].st = "up")
        BY <2>1, <2>2, <2>4
    <2> QED
        BY <2>3, <2>4
<1>5. t \in [1 .. Len(s) -> Connections] /\ \A k \in 1 .. Len(s) : t[k] = e(k)
    BY <1>3, <1>4
<1> HIDE DEF t, e
<1>6. t \in Seq(Connections) /\ Len(t) = Len(s)
    BY <1>3, <1>5, FunIsSeq
<1> QED
    BY <1>1, <1>2, <1>4, <1>5, <1>6

LEMMA DiesLineInv ==
    ASSUME IInv, LineInv, NEW n \in Nodes, Dies(n)
    PROVE  LineInv'
<1>1. ASSUME NEW j \in Interfaces
      PROVE  LiveLast(conns'[j]) /\ Behind(conns'[j], rx'[j])
    <2>1. CASE NodeOf[j] = n
        <3>1. conns'[j] = <<>> /\ DOMAIN <<>> = {}
            BY <2>1, DiesChange
        <3> QED
            BY <3>1 DEF LiveLast, Behind
    <2>2. CASE NodeOf[j] # n
        <3>1. conns[j] \in Seq(Connections) /\ DOMAIN conns[j] = 1 .. Len(conns[j])
            BY ServerConns
        <3>2. /\ conns'[j] \in Seq(Connections) /\ Len(conns'[j]) = Len(conns[j])
              /\ \A k \in 1 .. Len(conns[j]) :
                     /\ conns'[j][k].from = conns[j][k].from
                     /\ conns'[j][k].data = conns[j][k].data
                     /\ conns'[j][k].st = "up" => conns[j][k].st = "up"
                     /\ ~conns'[j][k].hello =>
                          \/ ~conns[j][k].hello
                          \/ conns'[j][k].data = <<>> /\ conns'[j][k].st # "up"
            BY <2>2, DiesChange
        <3>3. DOMAIN conns'[j] = 1 .. Len(conns[j])
            BY <3>2, LenProperties
        <3>4. LiveLast(conns[j]) /\ Behind(conns[j], rx[j])
            BY DEF LineInv, LastLive, NothingBehind
        <3>5. LiveLast(conns'[j])
            BY <3>1, <3>2, <3>4, ConnsKept
        <3>6. rx'[j] = rx[j]
            BY <2>2 DEF Dies, InterfacesOf
        <3> QED
            BY <3>1, <3>2, <3>3, <3>4, <3>5, <3>6 DEF Behind
    <2> QED
        BY <2>1, <2>2
<1>2. ASSUME NEW i \in Interfaces, tx'[i] = "open"
      PROVE  LiveIn(conns'[Remote[i]], i) = {}
    <2> DEFINE j == Remote[i]
    <2>1. j \in Interfaces /\ conns[j] \in Seq(Connections) /\ DOMAIN conns[j] = 1 .. Len(conns[j])
        BY RemoteServer, ServerConns
    <2>2. CASE NodeOf[j] = n
        <3>1. conns'[j] = <<>> /\ DOMAIN <<>> = {}
            BY <2>1, <2>2, DiesChange
        <3> QED
            BY <3>1 DEF LiveIn
    <2>3. CASE NodeOf[j] # n
        <3>1. /\ conns'[j] \in Seq(Connections) /\ Len(conns'[j]) = Len(conns[j])
              /\ \A k \in 1 .. Len(conns[j]) :
                     /\ conns'[j][k].from = conns[j][k].from
                     /\ conns'[j][k].st = "up" =>
                          conns[j][k].st = "up" /\ NodeOf[conns[j][k].from] # n
            BY <2>1, <2>3, DiesChange
        <3>2. DOMAIN conns'[j] = 1 .. Len(conns[j])
            BY <3>1, LenProperties
        <3>3. tx[i] = "open" \/ NodeOf[i] = n
            BY <1>2 DEF Dies, InterfacesOf
        <3>4. tx[i] = "open" => LiveIn(conns[j], i) = {}
            BY DEF LineInv, OpenIdle
        <3> QED
            BY <2>1, <3>1, <3>2, <3>3, <3>4 DEF LiveIn
    <2> QED
        BY <2>2, <2>3
<1> QED
    BY <1>1, <1>2 DEF LineInv, LastLive, OpenIdle, NothingBehind

(* The connection that is served, for the three steps that need it. *)
LEMMA ServedConn ==
    ASSUME IInv, NEW j \in Interfaces, rx[j] # "accept"
    PROVE  /\ conns[j] # <<>> /\ conns[j] \in Seq(Connections) /\ conns[j][1] \in Connections
           /\ conns[j][1].from \in Interfaces /\ Remote[conns[j][1].from] = j
           /\ conns[j][1].data \in Seq(Capsules)
<1>1. conns[j] # <<>>
    BY DEF IInv, Receivers
<1>2. conns[j][1] \in Links(j)
    BY <1>1, Served DEF IInv
<1> QED
    BY <1>1, <1>2, ServerConns DEF Links, LinesTo, Connections

LEMMA FirstMessageChange ==
    ASSUME IInv, NEW j \in Interfaces, FirstMessage(j)
    PROVE  /\ [conns[j][1] EXCEPT !.hello = FALSE] \in Connections
           /\ conns' = [conns EXCEPT ![j] =
                           [conns[j] EXCEPT ![1] = [conns[j][1] EXCEPT !.hello = FALSE]]]
           /\ rx' = [rx EXCEPT ![j] = "run"]
<1>1. conns[j][1] \in Connections
    BY ServedConn DEF FirstMessage
<1> QED
    BY <1>1 DEF FirstMessage, Connections

LEMMA ExecuteChange ==
    ASSUME IInv, NEW j \in Interfaces, Execute(j)
    PROVE  /\ [conns[j][1] EXCEPT !.data = Tail(@)] \in Connections
           /\ conns' = [conns EXCEPT ![j] =
                           [conns[j] EXCEPT ![1] = [conns[j][1] EXCEPT !.data = Tail(@)]]]
<1>1. conns[j][1] \in Connections /\ conns[j][1].data \in Seq(Capsules)
    BY ServedConn DEF Execute
<1>2. Tail(conns[j][1].data) \in Seq(Capsules)
    BY <1>1, HeadTailProperties DEF Execute
<1> QED
    BY <1>1, <1>2 DEF Execute, Received, Connections

LEMMA ReceiverLineInv ==
    ASSUME IInv, LineInv, NEW j \in Interfaces, Receiver(j)
    PROVE  LineInv'
<1>1. CASE Accept(j)
    BY <1>1, LineInvKept DEF Accept, txVars, IInv, Receivers
<1>2. CASE FirstMessage(j)
    <2> DEFINE d == [conns[j][1] EXCEPT !.hello = FALSE]
    <2>1. /\ d \in Connections /\ conns' = [conns EXCEPT ![j] = [conns[j] EXCEPT ![1] = d]]
          /\ rx' = [rx EXCEPT ![j] = "run"] /\ tx' = tx /\ conns[j] # <<>>
        BY <1>2, FirstMessageChange, ServedConn DEF FirstMessage, txVars
    <2>2. d.from = conns[j][1].from /\ d.st = conns[j][1].st
        BY <1>2, ServedConn DEF FirstMessage, Connections
    <2> HIDE DEF d
    <2> QED
        BY <2>1, <2>2, ServedLineInv
<1>3. CASE Execute(j)
    <2> DEFINE d == [conns[j][1] EXCEPT !.data = Tail(@)]
    <2>1. /\ d \in Connections /\ conns' = [conns EXCEPT ![j] = [conns[j] EXCEPT ![1] = d]]
          /\ rx' = [rx EXCEPT ![j] = "run"] /\ tx' = tx /\ conns[j] # <<>>
        <3>1. rx[j] = "run" /\ rx' = rx /\ tx' = tx
            BY <1>3 DEF Execute, txVars
        <3>2. rx' = [rx EXCEPT ![j] = "run"]
            BY <3>1 DEF IInv, Receivers
        <3> QED
            BY <1>3, <3>1, <3>2, ExecuteChange, ServedConn
    <2>2. d.from = conns[j][1].from /\ d.st = conns[j][1].st
        BY <1>3, ServedConn DEF Execute, Connections
    <2> HIDE DEF d
    <2> QED
        BY <2>1, <2>2, ServedLineInv
<1>4. CASE FirstFails(j) \/ RunEnds(j)
    <2>1. /\ conns' = [conns EXCEPT ![j] = Tail(conns[j])] /\ conns[j] # <<>>
          /\ rx' = [rx EXCEPT ![j] = "accept"] /\ tx' = tx
        BY <1>4, ServedConn DEF FirstFails, RunEnds, Drained, txVars, IInv, Receivers
    <2> QED
        BY <2>1, OverLineInv
<1>5. CASE Crash(j)
    <2>1. NodeOf[j] \in Nodes /\ Dies(NodeOf[j])
        BY <1>5, LineAssumption DEF Crash
    <2> QED
        BY <2>1, DiesLineInv
<1> QED
    BY <1>1, <1>2, <1>3, <1>4, <1>5 DEF Receiver

LEMMA NextLineInv == IInv /\ LineInv /\ [Next]_vars => LineInv'
<1> SUFFICES ASSUME IInv, LineInv, [Next]_vars PROVE LineInv'
    OBVIOUS
<1>1. CASE UNCHANGED <<conns, rx, tx>>
    BY <1>1, LineInvKept
<1>2. ASSUME NEW i \in Interfaces, Sender(i)
      PROVE  LineInv'
    <2>1. CASE Pop(i) \/ AliveFails(i) \/ SendFails(i)
        BY <2>1, LineInvKept DEF Pop, AliveFails, SendFails, rxVars, IInv, Senders
    <2> QED
        BY <1>2, <2>1, OpenLineInv, SendLineInv DEF Sender
<1>3. ASSUME NEW n \in Nodes, Loop(n)
      PROVE  LineInv'
    BY <1>1, <1>3 DEF Loop, Deliver, Route, Offer, txVars, rxVars
<1>4. ASSUME NEW n \in Terminals, Terminal(n)
      PROVE  LineInv'
    BY <1>1, <1>4 DEF Terminal, SendTyped, SendMsg, InjectTwice, InjectAgain, txVars, rxVars
<1>5. ASSUME NEW n \in Nodes, NEW d \in Destinations, Inject(n, d)
      PROVE  LineInv'
    BY <1>1, <1>5 DEF Inject, txVars, rxVars
<1>6. CASE UNCHANGED vars
    BY <1>1, <1>6 DEF vars
<1>7. ASSUME NEW n \in Nodes, Restart(n)
      PROVE  LineInv'
    BY <1>7, DiesLineInv DEF Restart
<1> QED
    BY <1>2, <1>3, <1>4, <1>5, <1>6, <1>7, ReceiverLineInv, BreakLineInv DEF Next

-----------------------------------------------------------------------------
(* What is left of a sequence. *)

LEMMA MiddleLost ==
    ASSUME NEW p \in Seq(Capsules), NEW x \in Seq(Capsules), NEW q \in Seq(Capsules)
    PROVE  Line!LeftOf(p \o q, (p \o x) \o q)
<1> DEFINE s == p \o q
           t == (p \o x) \o q
           f == [k \in 1 .. Len(s) |-> IF k <= Len(p) THEN k ELSE k + Len(x)]
<1>1. Len(p) \in Nat /\ Len(x) \in Nat /\ Len(q) \in Nat
    BY LenProperties
<1>2. /\ s \in Seq(Capsules) /\ Len(s) = Len(p) + Len(q)
      /\ \A k \in 1 .. Len(p) + Len(q) : s[k] = IF k <= Len(p) THEN p[k] ELSE q[k - Len(p)]
    BY ConcatProperties
<1>3. /\ p \o x \in Seq(Capsules) /\ Len(p \o x) = Len(p) + Len(x)
      /\ \A k \in 1 .. Len(p) + Len(x) :
           (p \o x)[k] = IF k <= Len(p) THEN p[k] ELSE x[k - Len(p)]
    BY ConcatProperties
<1>4. /\ Len(t) = Len(p) + Len(x) + Len(q)
      /\ \A k \in 1 .. Len(p) + Len(x) + Len(q) :
           t[k] = IF k <= Len(p) + Len(x) THEN (p \o x)[k] ELSE q[k - (Len(p) + Len(x))]
    BY <1>3, ConcatProperties
<1> HIDE DEF s, t
<1>5. f \in [1 .. Len(s) -> 1 .. Len(t)]
    BY <1>1, <1>2, <1>4
<1>6. \A k \in 1 .. Len(s) - 1 : f[k] < f[k + 1]
    BY <1>1, <1>2
<1>7. ASSUME NEW k \in 1 .. Len(s)
      PROVE  s[k] = t[f[k]]
    <2>1. CASE k <= Len(p)
        <3>1. f[k] = k /\ k \in 1 .. Len(p) + Len(x) + Len(q) /\ k \in 1 .. Len(p) + Len(x)
            BY <1>1, <1>2, <2>1
        <3>2. t[k] = p[k] /\ s[k] = p[k]
            BY <1>1, <1>2, <1>3, <1>4, <2>1, <3>1
        <3> QED
            BY <3>1, <3>2
    <2>2. CASE ~(k <= Len(p))
        <3>1. /\ f[k] = k + Len(x) /\ k + Len(x) \in 1 .. Len(p) + Len(x) + Len(q)
              /\ ~(k + Len(x) <= Len(p) + Len(x))
              /\ (k + Len(x)) - (Len(p) + Len(x)) = k - Len(p)
            BY <1>1, <1>2, <2>2
        <3>2. t[k + Len(x)] = q[k - Len(p)]
            BY <1>4, <3>1
        <3>3. s[k] = q[k - Len(p)]
            BY <1>1, <1>2, <2>2
        <3> QED
            BY <3>1, <3>2, <3>3
    <2> QED
        BY <2>1, <2>2
<1> HIDE DEF f
<1>8. Line!LeftOf(s, t)
    BY <1>5, <1>6, <1>7 DEF Line!LeftOf
<1> QED
    BY <1>8 DEF s, t

LEMMA NothingLost == ASSUME NEW s \in Seq(Capsules) PROVE Line!LeftOf(s, s)
<1>1. <<>> \in Seq(Capsules)
    BY EmptyIsSeq
<1>2. Line!LeftOf(s \o <<>>, (s \o <<>>) \o <<>>)
    BY <1>1, MiddleLost
<1> QED
    BY <1>2, ConcatEmptySeq

LEMMA EndLost ==
    ASSUME NEW s \in Seq(Capsules), NEW x \in Seq(Capsules)
    PROVE  Line!LeftOf(s, s \o x)
<1>1. <<>> \in Seq(Capsules) /\ s \o x \in Seq(Capsules)
    BY EmptyIsSeq, ConcatProperties
<1>2. Line!LeftOf(s \o <<>>, (s \o x) \o <<>>)
    BY <1>1, MiddleLost
<1> QED
    BY <1>1, <1>2, ConcatEmptySeq

LEMMA StartLost ==
    ASSUME NEW s \in Seq(Capsules), NEW x \in Seq(Capsules)
    PROVE  Line!LeftOf(s, x \o s)
<1>1. <<>> \in Seq(Capsules)
    BY EmptyIsSeq
<1>2. Line!LeftOf(<<>> \o s, (<<>> \o x) \o s)
    BY <1>1, MiddleLost
<1> QED
    BY <1>1, <1>2, ConcatEmptySeq

-----------------------------------------------------------------------------
(* What is on its way over a line. *)

OnWay(i) == Carried(conns[Remote[i]], i)

LEMMA PendingParts ==
    ASSUME IInv, NEW i \in Interfaces
    PROVE  /\ OnWay(i) \in Seq(Capsules) /\ hand[i] \in Seq(Capsules) /\ outq[i] \in Seq(Capsules)
           /\ OnWay(i) \o hand[i] \in Seq(Capsules)
           /\ Pending(i) = (OnWay(i) \o hand[i]) \o outq[i]
           /\ Pending(i) \in Seq(Capsules)
           /\ received[i] \in Seq(Capsules)
<1>1. OnWay(i) \in Seq(Capsules)
    BY RemoteServer, ServerConns, CarriedIsSeq DEF OnWay
<1>2. hand[i] \in Seq(Capsules) /\ outq[i] \in Seq(Capsules) /\ received[i] \in Seq(Capsules)
    BY DEF IInv, Senders, Outputs, Records
<1>3. OnWay(i) \o hand[i] \in Seq(Capsules)
    BY <1>1, <1>2, ConcatProperties
<1>4. Pending(i) = (OnWay(i) \o hand[i]) \o outq[i]
    BY DEF Pending, OnWay
<1> QED
    BY <1>1, <1>2, <1>3, <1>4, ConcatProperties

(* What a step may do to a line. *)
Keeps(i) == Pending(i)' = Pending(i) /\ received'[i] = received[i]
Loses(i) == Line!LeftOf(Pending(i)', Pending(i)) /\ received'[i] = received[i]
Puts(i, c) == Pending(i)' = Append(Pending(i), c) /\ received'[i] = received[i]
Gets(i) ==
    /\ Pending(i) # <<>> /\ Pending(i)' = Tail(Pending(i))
    /\ received'[i] = Append(received[i], Head(Pending(i)))

LEMMA KeepsParts ==
    ASSUME NEW i \in Interfaces, OnWay(i)' = OnWay(i), UNCHANGED <<hand[i], outq[i], received[i]>>
    PROVE  Keeps(i)
BY DEF Keeps, Pending, OnWay

LEMMA KeepingLoses ==
    ASSUME IInv, NEW i \in Interfaces, Keeps(i)
    PROVE  Loses(i)
BY PendingParts, NothingLost DEF Keeps, Loses

(* Something happens to the connections of server j alone. *)
LEMMA OnWayOfOneServer ==
    ASSUME IInv, NEW j \in Interfaces, NEW t \in Seq(Connections),
           conns' = [conns EXCEPT ![j] = t], NEW i \in Interfaces
    PROVE  OnWay(i)' = IF Remote[i] = j THEN Carried(t, i) ELSE OnWay(i)
<1>1. conns'[j] = t /\ \A o \in Interfaces \ {j} : conns'[o] = conns[o]
    BY DEF IInv, Receivers
<1> QED
    BY <1>1, RemoteServer DEF OnWay

(* Nothing happens to what line i carries. *)
LEMMA OtherOnWay ==
    ASSUME IInv, NEW j \in Interfaces, NEW t \in Seq(Connections),
           conns' = [conns EXCEPT ![j] = t], NEW i \in Interfaces, Len(t) = Len(conns[j]),
           \A m \in 1 .. Len(conns[j]) : Share(t[m], i) = Share(conns[j][m], i)
    PROVE  OnWay(i)' = OnWay(i)
<1>1. Carried(t, i) = Carried(conns[j], i)
    BY ServerConns, CarriedAlike
<1> QED
    BY <1>1, OnWayOfOneServer DEF OnWay

(* The first connection goes, with nothing in it. *)
LEMMA OverOnWay ==
    ASSUME IInv, NEW j \in Interfaces, conns[j] # <<>>, conns[j][1].data = <<>>,
           conns' = [conns EXCEPT ![j] = Tail(conns[j])], NEW i \in Interfaces
    PROVE  OnWay(i)' = OnWay(i)
<1>1. conns[j] \in Seq(Connections) /\ Tail(conns[j]) \in Seq(Connections)
    BY ServerConns, HeadTailProperties
<1>2. Share(conns[j][1], i) = <<>>
    BY DEF Share
<1>3. Carried(Tail(conns[j]), i) \in Seq(Capsules)
    BY <1>1, CarriedIsSeq
<1>4. Carried(conns[j], i) = <<>> \o Carried(Tail(conns[j]), i)
    BY <1>1, <1>2, CarriedFirst
<1>5. Carried(conns[j], i) = Carried(Tail(conns[j]), i)
    BY <1>3, <1>4, ConcatEmptySeq
<1>6. conns'[j] = Tail(conns[j]) /\ \A o \in Interfaces \ {j} : conns'[o] = conns[o]
    BY DEF IInv, Receivers
<1>7. CASE Remote[i] = j
    BY <1>5, <1>6, <1>7 DEF OnWay
<1>8. CASE Remote[i] # j
    BY <1>6, <1>8, RemoteServer DEF OnWay
<1> QED
    BY <1>7, <1>8

(* What the connection that is up carries comes last. *)
LEMMA LiveOnWay ==
    ASSUME IInv, LineInv, NEW i \in Interfaces, NEW k \in Live(i)
    PROVE  /\ k \in 1 .. Len(conns[Remote[i]])
           /\ \A m \in Live(i) : m = k
           /\ \E p \in Seq(Capsules) :
                /\ OnWay(i) = p \o conns[Remote[i]][k].data
                /\ \A t \in Seq(Connections) :
                     Len(t) = Len(conns[Remote[i]]) /\ t[k].from = i
                     /\ (\A m \in 1 .. Len(conns[Remote[i]]) : m # k => t[m] = conns[Remote[i]][m])
                        => Carried(t, i) = p \o t[k].data
<1> DEFINE j == Remote[i]
           s == conns[j]
<1>1. /\ j \in Interfaces /\ s \in Seq(Connections) /\ Len(s) \in Nat /\ DOMAIN s = 1 .. Len(s)
    BY RemoteServer, ServerConns
<1>2. k \in 1 .. Len(s) /\ s[k].from = i /\ s[k].st = "up"
    BY <1>1 DEF Live
<1>3. \A m \in k + 1 .. Len(s) : s[m].from # i
    <2>1. \A m \in k + 1 .. Len(s) : m \in 1 .. Len(s) /\ k < m
        BY <1>1, <1>2
    <2> QED
        BY <1>1, <1>2, <2>1 DEF LineInv, LastLive, LiveLast
<1>4. ASSUME NEW m \in Live(i)
      PROVE  m = k
    <2>1. m \in 1 .. Len(s) /\ s[m].from = i /\ s[m].st = "up"
        BY <1>1 DEF Live
    <2>2. LiveLast(s)
        BY <1>1 DEF LineInv, LastLive
    <2>3. ~(m < k) /\ ~(k < m)
        BY <1>1, <1>2, <2>1, <2>2 DEF LiveLast
    <2> QED
        BY <1>1, <1>2, <2>1, <2>3
<1>5. PICK p \in Seq(Capsules) : \A t \in Seq(Connections) :
         Len(t) = Len(s) /\ (\A m \in 1 .. Len(s) : m # k => t[m] = s[m])
            => Carried(t, i) = p \o Share(t[k], i)
    BY <1>1, <1>2, <1>3, CarriedLast
<1>6. OnWay(i) = p \o s[k].data
    BY <1>1, <1>2, <1>5 DEF OnWay, Share
<1>7. ASSUME NEW t \in Seq(Connections), Len(t) = Len(s), t[k].from = i,
             \A m \in 1 .. Len(s) : m # k => t[m] = s[m]
      PROVE  Carried(t, i) = p \o t[k].data
    <2>1. Carried(t, i) = p \o Share(t[k], i)
        BY <1>5, <1>7
    <2> QED
        BY <1>7, <2>1 DEF Share
<1> QED
    BY <1>2, <1>4, <1>6, <1>7

-----------------------------------------------------------------------------
(* What each action does to each line. *)

LEMMA OpenKeeps ==
    ASSUME IInv, NEW o \in Interfaces, Open(o), NEW i \in Interfaces
    PROVE  Keeps(i)
<1> DEFINE j == Remote[o]
<1>1. /\ conns' = [conns EXCEPT ![j] = Append(@, NewConn(o))]
      /\ UNCHANGED <<hand, outq, received>>
    BY DEF Open, rxVars
<1>2. j \in Interfaces /\ Remote[i] \in Interfaces
    BY RemoteServer
<1>3. conns'[j] = Append(conns[j], NewConn(o)) /\ \A k \in Interfaces \ {j} : conns'[k] = conns[k]
    BY <1>1, <1>2 DEF IInv, Receivers
<1>4. NewConn(o) \in Connections /\ Share(NewConn(o), i) = <<>>
    BY EmptyIsSeq DEF NewConn, Connections, Share
<1>5. Carried(Append(conns[j], NewConn(o)), i) = Carried(conns[j], i) \o <<>>
    BY <1>2, <1>4, ServerConns, CarriedAppend
<1>6. Carried(conns[j], i) \in Seq(Capsules)
    BY <1>2, ServerConns, CarriedIsSeq
<1>7. Carried(Append(conns[j], NewConn(o)), i) = Carried(conns[j], i)
    BY <1>5, <1>6, ConcatEmptySeq
<1>8. OnWay(i)' = OnWay(i)
    <2>1. CASE Remote[i] = j
        BY <1>3, <1>7, <2>1 DEF OnWay
    <2>2. CASE Remote[i] # j
        BY <1>2, <1>3, <2>2 DEF OnWay
    <2> QED
        BY <2>1, <2>2
<1> QED
    BY <1>1, <1>8, KeepsParts

LEMMA PopKeeps ==
    ASSUME IInv, NEW o \in Interfaces, Pop(o), NEW i \in Interfaces
    PROVE  Keeps(i)
<1> DEFINE c == Head(outq[o])
           a == OnWay(o)
           t == Tail(outq[o])
<1>1. /\ tx[o] = "pop" /\ outq[o] # <<>>
      /\ hand' = [hand EXCEPT ![o] = <<c>>] /\ outq' = [outq EXCEPT ![o] = t]
      /\ conns' = conns /\ received' = received
    BY DEF Pop, rxVars
<1>2. hand[o] = <<>> /\ outq[o] \in Seq(Capsules) /\ a \in Seq(Capsules)
    BY <1>1, PendingParts DEF IInv, Senders
<1>3. c \in Capsules /\ t \in Seq(Capsules) /\ <<c>> \in Seq(Capsules)
    BY <1>1, <1>2, HeadTailProperties, SingletonIsSeq
<1>4. outq[o] = <<c>> \o t
    BY <1>1, <1>2
<1>5. hand'[o] = <<c>> /\ outq'[o] = t /\ OnWay(o)' = a
    BY <1>1 DEF IInv, Senders, Outputs, OnWay
<1>6. Pending(o)' = (a \o <<c>>) \o t
    BY <1>5 DEF Pending, OnWay
<1>7. Pending(o) = (a \o <<>>) \o outq[o]
    BY <1>2, PendingParts
<1> HIDE DEF a, c, t
<1>8. Pending(o)' = Pending(o)
    BY <1>2, <1>3, <1>4, <1>6, <1>7, ConcatAssociative, ConcatEmptySeq
<1>9. CASE i = o
    BY <1>1, <1>8, <1>9 DEF Keeps
<1>10. CASE i # o
    <2>1. /\ hand'[i] = hand[i] /\ outq'[i] = outq[i] /\ received'[i] = received[i]
          /\ OnWay(i)' = OnWay(i)
        BY <1>1, <1>10 DEF IInv, Senders, Outputs, OnWay
    <2> QED
        BY <2>1, KeepsParts
<1> QED
    BY <1>9, <1>10

LEMMA ReceiverKeeps ==
    ASSUME IInv, LineInv, NEW j \in Interfaces, NEW i \in Interfaces,
           Accept(j) \/ FirstMessage(j) \/ FirstFails(j) \/ RunEnds(j)
    PROVE  Keeps(i)
<1>1. UNCHANGED <<hand, outq, received>>
    BY DEF Accept, FirstMessage, FirstFails, RunEnds, txVars
<1>2. CASE Accept(j)
    BY <1>1, <1>2, KeepsParts DEF Accept, OnWay
<1>3. CASE FirstMessage(j)
    <2> DEFINE d == [conns[j][1] EXCEPT !.hello = FALSE]
    <2>1. d \in Connections /\ conns' = [conns EXCEPT ![j] = [conns[j] EXCEPT ![1] = d]]
        BY <1>3, FirstMessageChange
    <2>2. conns[j] # <<>> /\ conns[j][1] \in Connections
        BY <1>3, ServedConn DEF FirstMessage
    <2>3. d.from = conns[j][1].from /\ d.data = conns[j][1].data
        BY <2>2 DEF Connections
    <2> DEFINE t == [conns[j] EXCEPT ![1] = d]
    <2>4. /\ t \in Seq(Connections) /\ Len(t) = Len(conns[j]) /\ conns' = [conns EXCEPT ![j] = t]
          /\ \A m \in 1 .. Len(conns[j]) : t[m] = IF m = 1 THEN d ELSE conns[j][m]
        BY <2>1, <2>2, ServerConns, EmptySeq, ExceptSeq
    <2> HIDE DEF d, t
    <2>5. \A m \in 1 .. Len(conns[j]) : Share(t[m], i) = Share(conns[j][m], i)
        BY <2>3, <2>4 DEF Share
    <2>6. OnWay(i)' = OnWay(i)
        BY <2>4, <2>5, OtherOnWay
    <2> QED
        BY <1>1, <2>6, KeepsParts
<1>4. CASE FirstFails(j) \/ RunEnds(j)
    <2>1. conns' = [conns EXCEPT ![j] = Tail(conns[j])] /\ conns[j] # <<>> /\ rx[j] # "accept"
        BY <1>4, ServedConn DEF FirstFails, RunEnds, Drained
    <2>2. conns[j][1].data = <<>>
        <3>1. CASE RunEnds(j)
            BY <3>1 DEF RunEnds, Drained
        <3>2. CASE FirstFails(j)
            <4>1. rx[j] = "first" /\ ~conns[j][1].hello
                BY <3>2 DEF FirstFails
            <4>2. 1 \in DOMAIN conns[j]
                BY <2>1, Served DEF IInv
            <4>3. Behind(conns[j], rx[j])
                BY DEF LineInv, NothingBehind
            <4> QED
                BY <4>1, <4>2, <4>3 DEF Behind
        <3> QED
            BY <1>4, <3>1, <3>2
    <2>3. OnWay(i)' = OnWay(i)
        BY <2>1, <2>2, OverOnWay
    <2> QED
        BY <1>1, <2>3, KeepsParts
<1> QED
    BY <1>2, <1>3, <1>4

(* Users, nodes and the sender that finds its queue empty. *)
LEMMA NodeKeeps ==
    ASSUME NEW i \in Interfaces, UNCHANGED <<conns, hand, outq, received>>
    PROVE  Keeps(i)
BY DEF Keeps, Pending

LEMMA OfferPuts ==
    ASSUME IInv, NEW n \in Nodes, NEW j \in InterfacesOf(n), Offer(n, j)
    PROVE  /\ \A i \in Interfaces \ {j} : Keeps(i)
           /\ cur[n] = <<cur[n][1]>> /\ cur[n][1] \in Capsules
           /\ \/ Puts(j, cur[n][1]) /\ queued' = [queued EXCEPT ![j] = @ + 1]
              \/ Keeps(j) /\ queued' = queued
<1> DEFINE c == cur[n][1]
<1>1. j \in Interfaces /\ j \in todo[n] /\ UNCHANGED <<hand, conns, received>>
    BY DEF Offer, InterfacesOf, rxVars
<1>2. cur[n] \in Seq(Capsules) /\ cur[n] # <<>> /\ Len(cur[n]) <= 1
    BY <1>1 DEF IInv, Routing
<1>3. cur[n] = <<c>> /\ c \in Capsules
    BY <1>2, EmptySeq, ElementOfSeq, LenProperties
<1>4. CASE UNCHANGED <<outq, queued>>
    BY <1>1, <1>3, <1>4, NodeKeeps
<1>5. CASE outq' = [outq EXCEPT ![j] = @ \o cur[n]] /\ queued' = [queued EXCEPT ![j] = @ + 1]
    <2>1. outq'[j] = outq[j] \o <<c>> /\ \A i \in Interfaces \ {j} : outq'[i] = outq[i]
        BY <1>1, <1>3, <1>5 DEF IInv, Outputs
    <2> HIDE DEF c
    <2>2. \A i \in Interfaces \ {j} : Keeps(i)
        BY <1>1, <2>1 DEF Keeps, Pending
    <2>3. Pending(j)' = (OnWay(j) \o hand[j]) \o (outq[j] \o <<c>>)
        BY <1>1, <2>1 DEF Pending, OnWay
    <2>4. <<c>> \in Seq(Capsules)
        BY <1>3, SingletonIsSeq
    <2> DEFINE a == OnWay(j) \o hand[j]
               b == outq[j]
               e == <<c>>
    <2>5. Pending(j) = a \o b /\ Pending(j) \in Seq(Capsules)
        BY <1>1, PendingParts
    <2>6. a \in Seq(Capsules) /\ b \in Seq(Capsules) /\ e \in Seq(Capsules)
        BY <1>1, <2>4, PendingParts
    <2> HIDE DEF a, b, e
    <2>7. a \o (b \o e) = (a \o b) \o e
        BY <2>6, ConcatAssociative
    <2>8. Pending(j) \o <<c>> = Append(Pending(j), c)
        BY <1>3, <2>5, AppendIsConcat
    <2>9. Puts(j, c)
        BY <1>1, <2>3, <2>5, <2>7, <2>8 DEF Puts, a, b, e
    <2> QED
        BY <1>3, <1>5, <2>2, <2>9 DEF c
<1> QED
    BY <1>4, <1>5 DEF Offer

LEMMA SendLoses ==
    ASSUME IInv, LineInv, NEW o \in Interfaces, Send(o), NEW i \in Interfaces
    PROVE  Loses(i) /\ (Live(o) # {} => Keeps(i))
<1> DEFINE j == Remote[o]
           s == conns[j]
           t == conns'[j]
<1>1. /\ conns' = [conns EXCEPT ![j] = t]
      /\ t \in Seq(Connections) /\ Len(t) = Len(s)
      /\ \A k \in 1 .. Len(s) :
           /\ t[k].from = s[k].from /\ t[k].st = s[k].st /\ t[k].hello = s[k].hello
           /\ k \in Live(o) => t[k].data = s[k].data \o hand[o]
           /\ k \notin Live(o) => t[k] = s[k]
    BY SendChange, Zenon
<1> HIDE DEF t
<1>2. /\ j \in Interfaces /\ hand' = [hand EXCEPT ![o] = <<>>]
      /\ UNCHANGED <<outq, received>>
    BY RemoteServer DEF Send, rxVars
<1>3. s \in Seq(Connections) /\ \A k \in Live(o) : k \in 1 .. Len(s) /\ s[k].from = o
    BY <1>2, ServerConns DEF Live
<1>4. CASE i # o
    <2>1. \A m \in 1 .. Len(s) : Share(t[m], i) = Share(s[m], i)
        BY <1>1, <1>3, <1>4 DEF Share
    <2>2. OnWay(i)' = OnWay(i)
        BY <1>1, <1>2, <2>1, OtherOnWay, ZenonT(30)
    <2>3. hand'[i] = hand[i]
        BY <1>2, <1>4 DEF IInv, Senders
    <2>4. Keeps(i)
        BY <1>2, <2>2, <2>3, KeepsParts
    <2> QED
        BY <2>4, KeepingLoses
<1>5. CASE i = o
    <2> DEFINE a == OnWay(o)
               b == OnWay(o)'
               h == hand[o]
               q == outq[o]
    <2>1. a \in Seq(Capsules) /\ h \in Seq(Capsules) /\ q \in Seq(Capsules)
        BY PendingParts
    <2>2. Pending(o) = (a \o h) \o q
        BY PendingParts
    <2>3. Pending(o)' = (b \o <<>>) \o q
        BY <1>2 DEF Pending, OnWay, IInv, Senders
    <2>4. b = Carried(t, o)
        BY <1>1, <1>2, OnWayOfOneServer
    <2>5. b \in Seq(Capsules)
        BY <1>1, <2>4, CarriedIsSeq
    <2>6. received'[o] = received[o]
        BY <1>2
    <2> HIDE DEF a, b, h, q
    <2>7. CASE Live(o) = {}
        <3>1. b = a
            BY <1>1, <1>2, <1>3, <2>4, <2>7, CarriedAlike, SMTT(30) DEF a, OnWay
        <3>2. Pending(o)' = a \o q
            BY <2>1, <2>3, <3>1, ConcatEmptySeq
        <3>3. Line!LeftOf(a \o q, (a \o h) \o q)
            BY <2>1, MiddleLost
        <3> QED
            BY <1>5, <2>2, <2>6, <2>7, <3>2, <3>3 DEF Loses
    <2>8. ASSUME NEW k \in Live(o)
          PROVE  Keeps(o)
        <3>0. k \in 1 .. Len(s) /\ t[k].from = o /\ t[k].data = s[k].data \o hand[o]
            BY <1>1, <1>3
        <3>9. \A m \in 1 .. Len(s) : m # k => t[m] = s[m]
            BY <1>1, LiveOnWay
        <3>1. PICK p \in Seq(Capsules) :
                 /\ OnWay(o) = p \o s[k].data
                 /\ Carried(t, o) = p \o t[k].data
            <4>1. PICK p \in Seq(Capsules) :
                     /\ OnWay(o) = p \o s[k].data
                     /\ \A ds \in Seq(Connections) :
                          Len(ds) = Len(s) /\ ds[k].from = o
                          /\ (\A m \in 1 .. Len(s) : m # k => ds[m] = s[m])
                             => Carried(ds, o) = p \o ds[k].data
                BY LiveOnWay
            <4> QED
                BY <1>1, <3>0, <3>9, <4>1
        <3> DEFINE d == s[k].data
        <3>2. d \in Seq(Capsules)
            <4>1. s[k] \in Connections
                BY <1>3, ElementOfSeq
            <4> QED
                BY <4>1 DEF Connections
        <3>3. a = p \o d /\ b = p \o (d \o h)
            BY <2>4, <3>0, <3>1 DEF a, h
        <3> HIDE DEF d
        <3>4. b = a \o h
            <4>1. h \in Seq(Capsules)
                BY <2>1
            <4>2. (p \o d) \o h = p \o (d \o h)
                BY ONLY <3>2, <4>1, p \in Seq(Capsules), ConcatAssociative
            <4> QED
                BY ONLY <3>3, <4>2
        <3>5. b \o <<>> = b
            BY <2>5, ConcatEmptySeq
        <3> QED
            BY <2>2, <2>3, <2>6, <3>4, <3>5 DEF Keeps
    <2> QED
        BY <1>5, <2>7, <2>8, KeepingLoses
<1> QED
    BY <1>4, <1>5

LEMMA SendFailsLoses ==
    ASSUME IInv, NEW o \in Interfaces, SendFails(o), NEW i \in Interfaces
    PROVE  Loses(i)
<1>1. hand' = [hand EXCEPT ![o] = <<>>] /\ UNCHANGED <<conns, outq, received>>
    BY DEF SendFails, rxVars
<1>2. CASE i # o
    <2>1. hand'[i] = hand[i] /\ OnWay(i)' = OnWay(i)
        BY <1>1, <1>2 DEF IInv, Senders, OnWay
    <2> QED
        BY <1>1, <2>1, KeepsParts, KeepingLoses
<1>3. CASE i = o
    <2> DEFINE a == OnWay(i)
               h == hand[i]
               q == outq[i]
    <2>1. a \in Seq(Capsules) /\ h \in Seq(Capsules) /\ q \in Seq(Capsules)
        BY PendingParts
    <2>2. Pending(i) = (a \o h) \o q
        BY PendingParts
    <2>3. Pending(i)' = (a \o <<>>) \o q
        BY <1>1, <1>3 DEF Pending, OnWay, IInv, Senders
    <2> HIDE DEF a, h, q
    <2>4. Pending(i)' = a \o q
        BY <2>1, <2>3, ConcatEmptySeq
    <2>5. Line!LeftOf(a \o q, (a \o h) \o q)
        BY <2>1, MiddleLost
    <2> QED
        BY <1>1, <2>2, <2>4, <2>5 DEF Loses
<1> QED
    BY <1>2, <1>3

LEMMA HeadOfConcat ==
    ASSUME NEW s \in Seq(Capsules), s # <<>>, NEW t \in Seq(Capsules)
    PROVE  s \o t # <<>> /\ Head(s \o t) = s[1] /\ Tail(s \o t) = Tail(s) \o t
<1> DEFINE u == s \o t
           r == Tail(s)
<1>1. Len(s) \in Nat \ {0} /\ Len(t) \in Nat
    BY EmptySeq, LenProperties
<1>2. r \in Seq(Capsules) /\ Len(r) = Len(s) - 1 /\ \A k \in 1 .. Len(r) : r[k] = s[k + 1]
    BY HeadTailProperties
<1>3. /\ u \in Seq(Capsules) /\ Len(u) = Len(s) + Len(t)
      /\ \A k \in 1 .. Len(s) + Len(t) : u[k] = IF k <= Len(s) THEN s[k] ELSE t[k - Len(s)]
    BY ConcatProperties
<1>4. u # <<>>
    BY <1>1, <1>3, EmptySeq
<1>5. Tail(u) \in Seq(Capsules) /\ Len(Tail(u)) = Len(u) - 1
      /\ \A k \in 1 .. Len(Tail(u)) : Tail(u)[k] = u[k + 1]
    BY <1>3, <1>4, HeadTailProperties
<1>6. /\ r \o t \in Seq(Capsules) /\ Len(r \o t) = Len(r) + Len(t)
      /\ \A k \in 1 .. Len(r) + Len(t) : (r \o t)[k] = IF k <= Len(r) THEN r[k] ELSE t[k - Len(r)]
    BY <1>2, ConcatProperties
<1>7. Head(u) = u[1] /\ u[1] = s[1]
    BY <1>1, <1>3
<1> HIDE DEF u, r
<1>8. Len(Tail(u)) = Len(r \o t)
    BY <1>1, <1>2, <1>3, <1>5, <1>6
<1>9. ASSUME NEW k \in 1 .. Len(Tail(u))
      PROVE  Tail(u)[k] = (r \o t)[k]
    <2>1. /\ k \in 1 .. Len(r) + Len(t) /\ k + 1 \in 1 .. Len(s) + Len(t)
          /\ k + 1 - Len(s) = k - Len(r) /\ (k + 1 <= Len(s) <=> k <= Len(r))
          /\ k <= Len(r) => k \in 1 .. Len(r)
        BY <1>1, <1>2, <1>3, <1>5
    <2> QED
        BY <1>2, <1>3, <1>5, <1>6, <2>1
<1>10. Tail(u) = r \o t
    BY <1>5, <1>6, <1>8, <1>9, SeqEqual
<1> QED
    BY <1>4, <1>7, <1>10 DEF u, r

(* The receiver takes the oldest capsule of a line into the node. *)
LEMMA ExecuteGets ==
    ASSUME IInv, NEW j \in Interfaces, Execute(j), NEW o \in Interfaces, o = conns[j][1].from
    PROVE  /\ Remote[o] = j
           /\ Gets(o) /\ Head(Pending(o)) = conns[j][1].data[1]
           /\ inbox' = [inbox EXCEPT ![NodeOf[j]] = Append(@, Head(Pending(o)))]
           /\ \A i \in Interfaces \ {o} : Keeps(i)
<1> DEFINE s == conns[j]
           d == [s[1] EXCEPT !.data = Tail(@)]
           t == [s EXCEPT ![1] = d]
<1>1. /\ s # <<>> /\ s \in Seq(Connections) /\ s[1] \in Connections
      /\ Remote[o] = j /\ s[1].data \in Seq(Capsules)
    BY ServedConn DEF Execute
<1>2. d \in Connections /\ conns' = [conns EXCEPT ![j] = t]
    BY ExecuteChange
<1>3. d.from = o /\ d.data = Tail(s[1].data)
    BY <1>1 DEF Connections
<1>4. /\ s[1].data # <<>> /\ UNCHANGED <<outq, hand>>
      /\ received' = [received EXCEPT ![o] = Append(@, s[1].data[1])]
      /\ inbox' = [inbox EXCEPT ![NodeOf[j]] = Append(@, s[1].data[1])]
    BY DEF Execute, Received, txVars
<1>5. /\ t \in Seq(Connections) /\ Len(t) = Len(s) /\ t # <<>> /\ t[1] = d
      /\ \A m \in 1 .. Len(s) : t[m] = IF m = 1 THEN d ELSE s[m]
    <2>1. Len(s) \in Nat \ {0}
        BY <1>1, EmptySeq
    <2>2. /\ t \in Seq(Connections) /\ Len(t) = Len(s)
          /\ \A m \in 1 .. Len(s) : t[m] = IF m = 1 THEN d ELSE s[m]
        BY <1>1, <1>2, <2>1, ExceptSeq
    <2> QED
        BY <2>1, <2>2, EmptySeq
<1> HIDE DEF t, d
<1>6. Tail(t) = Tail(s)
    <2>1. /\ Tail(s) \in Seq(Connections) /\ Len(Tail(s)) = Len(s) - 1
          /\ \A k \in 1 .. Len(Tail(s)) : Tail(s)[k] = s[k + 1]
        BY <1>1, HeadTailProperties
    <2>2. /\ Tail(t) \in Seq(Connections) /\ Len(Tail(t)) = Len(t) - 1
          /\ \A k \in 1 .. Len(Tail(t)) : Tail(t)[k] = t[k + 1]
        BY <1>5, HeadTailProperties
    <2>3. \A k \in 1 .. Len(Tail(t)) : k + 1 \in 1 .. Len(s) /\ k + 1 # 1
        BY <1>1, <1>5, <2>2, LenProperties
    <2>4. \A k \in 1 .. Len(Tail(t)) : Tail(t)[k] = Tail(s)[k]
        BY <1>5, <2>1, <2>2, <2>3
    <2> QED
        BY <1>5, <2>1, <2>2, <2>4, SeqEqual
<1> DEFINE a == s[1].data
           r == Carried(Tail(s), o)
           h == hand[o]
           q == outq[o]
<1>7. a \in Seq(Capsules) /\ r \in Seq(Capsules) /\ h \in Seq(Capsules) /\ q \in Seq(Capsules)
    <2>1. Tail(s) \in Seq(Connections)
        BY <1>1, HeadTailProperties
    <2> QED
        BY <1>1, <2>1, CarriedIsSeq, PendingParts
<1>8. OnWay(o) = a \o r
    BY <1>1, CarriedFirst DEF OnWay, Share
<1>9. OnWay(o)' = Tail(a) \o r
    <2>1. Carried(t, o) = Tail(a) \o r
        BY <1>3, <1>5, <1>6, CarriedFirst DEF Share
    <2> QED
        BY <1>1, <1>2, <1>5, <2>1, OnWayOfOneServer
<1>10. Pending(o) = ((a \o r) \o h) \o q
    BY <1>1, <1>8, PendingParts
<1>11. Pending(o)' = ((Tail(a) \o r) \o h) \o q
    BY <1>4, <1>9 DEF Pending, OnWay
<1>12. ASSUME NEW i \in Interfaces \ {o}
       PROVE  Keeps(i)
    <2>1. \A m \in 1 .. Len(s) : Share(t[m], i) = Share(s[m], i)
        BY <1>3, <1>5 DEF Share
    <2>2. OnWay(i)' = OnWay(i)
        BY <1>2, <1>5, <2>1, OtherOnWay
    <2>3. received'[i] = received[i]
        BY <1>1, <1>4 DEF IInv, Records
    <2> QED
        BY <1>4, <2>2, <2>3, KeepsParts
<1>13. a # <<>> /\ received'[o] = Append(received[o], a[1])
    BY <1>1, <1>4 DEF IInv, Records
<1> HIDE DEF a, r, h, q
<1>14. a \o r # <<>> /\ Head(a \o r) = a[1] /\ Tail(a \o r) = Tail(a) \o r
    BY <1>7, <1>13, HeadOfConcat
<1> DEFINE b == a \o r
<1>15. b \in Seq(Capsules)
    BY <1>7, ConcatProperties
<1> HIDE DEF b
<1>16. b # <<>> /\ b \o h # <<>> /\ Head(b \o h) = b[1] /\ Tail(b \o h) = Tail(b) \o h
    BY <1>7, <1>14, <1>15, HeadOfConcat DEF b
<1> DEFINE e == b \o h
<1>17. e \in Seq(Capsules)
    BY <1>7, <1>15, ConcatProperties
<1> HIDE DEF e
<1>18. e \o q # <<>> /\ Head(e \o q) = e[1] /\ Tail(e \o q) = Tail(e) \o q
    BY <1>7, <1>16, <1>17, HeadOfConcat DEF e
<1>19. Head(b) = b[1] /\ Head(e) = e[1]
    BY <1>15, <1>17
<1>20. Head(e \o q) = a[1] /\ Tail(e \o q) = ((Tail(a) \o r) \o h) \o q
    BY <1>14, <1>16, <1>18, <1>19 DEF b, e
<1>21. Pending(o) = e \o q
    BY <1>10 DEF b, e
<1>22. Gets(o) /\ Head(Pending(o)) = a[1]
    BY <1>11, <1>13, <1>18, <1>20, <1>21 DEF Gets
<1> QED
    BY <1>1, <1>4, <1>12, <1>22 DEF a

(* Lost in the middle, between capsules in the parts they are pending in. *)
LEMMA PartLost ==
    ASSUME NEW p \in Seq(Capsules), NEW x \in Seq(Capsules), NEW y \in Seq(Capsules),
           NEW h \in Seq(Capsules), NEW q \in Seq(Capsules)
    PROVE  Line!LeftOf(((p \o x) \o h) \o q, ((p \o (x \o y)) \o h) \o q)
<1> DEFINE b == p \o x
           e == b \o y
           g == h \o q
<1>1. b \in Seq(Capsules)
    BY ConcatProperties
<1>2. p \o (x \o y) = b \o y
    BY ConcatAssociative, SMTT(30)
<1>3. g \in Seq(Capsules)
    BY ConcatProperties
<1> HIDE DEF b
<1>4. e \in Seq(Capsules)
    BY <1>1, ConcatProperties
<1>5. (b \o h) \o q = b \o (h \o q)
    BY <1>1, ConcatAssociative, SMTT(30)
<1> HIDE DEF e
<1>6. (e \o h) \o q = e \o (h \o q)
    BY <1>4, ConcatAssociative, SMTT(30)
<1> HIDE DEF g
<1>7. Line!LeftOf(b \o g, (b \o y) \o g)
    BY <1>1, <1>3, MiddleLost
<1> QED
    BY <1>2, <1>5, <1>6, <1>7 DEF b, e, g

LEMMA BreakLoses ==
    ASSUME IInv, LineInv, NEW o \in Interfaces, Break(o), NEW i \in Interfaces
    PROVE  Loses(i)
<1> DEFINE j == Remote[o]
           s == conns[j]
<1>1. PICK k \in Live(o) : \E d \in Connections : \E n \in 0 .. Len(s[k].data) :
          /\ conns' = [conns EXCEPT ![j] = [s EXCEPT ![k] = d]]
          /\ k \in 1 .. Len(s)
          /\ d.from = o /\ d.st # "up"
          /\ d.data = SubSeq(s[k].data, 1, n)
          /\ ~d.hello /\ s[k].hello => d.data = <<>>
    BY BreakChange
<1>2. PICK d \in Connections : \E n \in 0 .. Len(s[k].data) :
          /\ conns' = [conns EXCEPT ![j] = [s EXCEPT ![k] = d]]
          /\ k \in 1 .. Len(s) /\ d.from = o /\ d.data = SubSeq(s[k].data, 1, n)
    BY <1>1
<1>3. PICK n \in 0 .. Len(s[k].data) : d.data = SubSeq(s[k].data, 1, n)
    BY <1>2
<1>4. j \in Interfaces /\ UNCHANGED <<hand, outq, received>>
    BY RemoteServer DEF Break, txVars, rxVars
<1>5. s \in Seq(Connections) /\ s[k] \in Connections /\ s[k].from = o
    BY <1>2, <1>4, ServerConns DEF Live
<1> DEFINE t == [s EXCEPT ![k] = d]
<1>6. /\ t \in Seq(Connections) /\ Len(t) = Len(s) /\ conns' = [conns EXCEPT ![j] = t]
      /\ \A m \in 1 .. Len(s) : t[m] = IF m = k THEN d ELSE s[m]
    BY <1>2, <1>5, ExceptSeq
<1> HIDE DEF t
<1>7. CASE i # o
    <2>1. \A m \in 1 .. Len(s) : Share(t[m], i) = Share(s[m], i)
        BY <1>2, <1>5, <1>6, <1>7 DEF Share
    <2> QED
        BY <1>4, <1>6, <2>1, OtherOnWay, KeepsParts, KeepingLoses
<1>8. CASE i = o
    <2>1. PICK p \in Seq(Capsules) :
             /\ OnWay(o) = p \o s[k].data
             /\ \A ds \in Seq(Connections) :
                  Len(ds) = Len(s) /\ ds[k].from = o
                  /\ (\A m \in 1 .. Len(s) : m # k => ds[m] = s[m])
                     => Carried(ds, o) = p \o ds[k].data
        BY LiveOnWay
    <2>2. Carried(t, o) = p \o d.data
        BY <1>2, <1>6, <2>1
    <2>3. OnWay(o)' = p \o d.data
        BY <1>4, <1>6, <2>2, OnWayOfOneServer
    <2> DEFINE c == s[k].data
               x == SubSeq(c, 1, n)
               y == SubSeq(c, n + 1, Len(c))
               h == hand[o]
               q == outq[o]
    <2>4. c \in Seq(Capsules) /\ Len(c) \in Nat
        BY <1>5, LenProperties DEF Connections
    <2>5. x \in Seq(Capsules) /\ y \in Seq(Capsules)
        <3>1. \A m \in n + 1 .. Len(c) : m \in 1 .. Len(c)
            BY <1>3, <2>4
        <3>2. \A m \in n + 1 .. Len(c) : c[m] \in Capsules
            BY <2>4, <3>1, ElementOfSeq
        <3> QED
            BY <1>3, <2>4, <3>2, FirstPart, SubSeqProperties
    <2>6. c = x \o y
        <3>1. 1 \in 1 .. Len(c) + 1 /\ n \in 1 - 1 .. Len(c) /\ Len(c) \in n .. Len(c)
            BY <1>3, <2>4
        <3>2. SubSeq(c, 1, n) \o SubSeq(c, n + 1, Len(c)) = SubSeq(c, 1, Len(c))
            BY <2>4, <3>1, ConcatAdjacentSubSeq
        <3> QED
            BY <2>4, <3>2, SubSeqFull
    <2>7. h \in Seq(Capsules) /\ q \in Seq(Capsules)
        BY PendingParts
    <2>8. Pending(o)' = ((p \o x) \o h) \o q
        BY <1>3, <1>4, <2>3 DEF Pending, OnWay
    <2>9. Pending(o) = ((p \o c) \o h) \o q
        BY <2>1, PendingParts
    <2> HIDE DEF c, x, y, h, q
    <2>10. Line!LeftOf(((p \o x) \o h) \o q, ((p \o (x \o y)) \o h) \o q)
        BY <2>5, <2>7, PartLost
    <2> QED
        BY <1>4, <1>8, <2>6, <2>8, <2>9, <2>10 DEF Loses
<1> QED
    BY <1>7, <1>8

LEMMA DiesLoses ==
    ASSUME IInv, NEW n \in Nodes, Dies(n), NEW i \in Interfaces
    PROVE  Loses(i)
<1> DEFINE j == Remote[i]
           a == OnWay(i)
           h == hand[i]
           q == outq[i]
<1>1. /\ j \in Interfaces /\ received' = received
      /\ hand'[i] = IF NodeOf[i] = n THEN <<>> ELSE h
      /\ outq'[i] = IF NodeOf[i] = n THEN <<>> ELSE q
    BY RemoteServer DEF Dies, InterfacesOf
<1>2. /\ a \in Seq(Capsules) /\ h \in Seq(Capsules) /\ q \in Seq(Capsules)
      /\ Pending(i) = (a \o h) \o q /\ Pending(i) \in Seq(Capsules)
    BY PendingParts
<1>3. Pending(i)' = (OnWay(i)' \o hand'[i]) \o outq'[i]
    BY DEF Pending, OnWay
<1>4. OnWay(i)' = IF NodeOf[j] = n THEN <<>> ELSE a
    <2>1. CASE NodeOf[j] = n
        BY <1>1, <2>1, DiesChange, CarriedByNone DEF OnWay
    <2>2. CASE NodeOf[j] # n
        <3>1. /\ conns'[j] \in Seq(Connections) /\ Len(conns'[j]) = Len(conns[j])
              /\ \A k \in 1 .. Len(conns[j]) :
                     /\ conns'[j][k].from = conns[j][k].from
                     /\ conns'[j][k].data = conns[j][k].data
            BY <1>1, <2>2, DiesChange
        <3>2. \A k \in 1 .. Len(conns[j]) : Share(conns'[j][k], i) = Share(conns[j][k], i)
            BY <3>1 DEF Share
        <3> DEFINE t == conns'[j]
        <3>3. /\ t \in Seq(Connections) /\ Len(t) = Len(conns[j])
              /\ \A k \in 1 .. Len(conns[j]) : Share(t[k], i) = Share(conns[j][k], i)
            BY <3>1, <3>2
        <3>4. OnWay(i)' = Carried(t, i)
            BY DEF OnWay
        <3> HIDE DEF t
        <3>5. Carried(t, i) = Carried(conns[j], i)
            BY <1>1, <3>3, ServerConns, CarriedAlike
        <3> QED
            BY <2>2, <3>4, <3>5 DEF OnWay
    <2> QED
        BY <2>1, <2>2
<1> HIDE DEF a, h, q
<1>5. h \o q \in Seq(Capsules) /\ (a \o h) \o q = a \o (h \o q) /\ <<>> \in Seq(Capsules)
    BY <1>2, ConcatProperties, ConcatAssociative, EmptyIsSeq
<1>6. CASE NodeOf[j] = n /\ NodeOf[i] = n
    <2>1. Pending(i)' = <<>>
        BY <1>1, <1>3, <1>4, <1>5, <1>6, ConcatEmptySeq
    <2>2. Pending(i) = <<>> \o Pending(i)
        BY <1>2, ConcatEmptySeq
    <2> QED
        BY <1>1, <1>2, <1>5, <2>1, <2>2, EndLost DEF Loses
<1>7. CASE NodeOf[j] = n /\ NodeOf[i] # n
    <2>1. Pending(i)' = h \o q
        BY <1>1, <1>2, <1>3, <1>4, <1>7, ConcatEmptySeq
    <2> DEFINE e == h \o q
    <2>2. e \in Seq(Capsules) /\ Pending(i) = a \o e /\ Pending(i)' = e
        BY <1>2, <1>5, <2>1
    <2> HIDE DEF e
    <2> QED
        BY <1>1, <1>2, <2>2, StartLost DEF Loses
<1>8. CASE NodeOf[j] # n /\ NodeOf[i] = n
    <2>1. Pending(i)' = a
        BY <1>1, <1>2, <1>3, <1>4, <1>8, ConcatEmptySeq
    <2> DEFINE e == h \o q
    <2>2. e \in Seq(Capsules) /\ Pending(i) = a \o e
        BY <1>2, <1>5
    <2> HIDE DEF e
    <2> QED
        BY <1>1, <1>2, <2>1, <2>2, EndLost DEF Loses
<1>9. CASE NodeOf[j] # n /\ NodeOf[i] # n
    BY <1>1, <1>2, <1>3, <1>4, <1>9, KeepingLoses DEF Keeps
<1> QED
    BY <1>6, <1>7, <1>8, <1>9

-----------------------------------------------------------------------------
(* The abstract lines. *)

pendingOf == [i \in Interfaces |-> Pending(i)]

LEMMA InitLine == Init => Line!Init
<1> SUFFICES ASSUME Init PROVE Line!Init
    OBVIOUS
<1>1. ASSUME NEW i \in Interfaces
      PROVE  Pending(i) = <<>>
    <2>1. conns[Remote[i]] = <<>> /\ hand[i] = <<>> /\ outq[i] = <<>>
        BY <1>1, RemoteServer DEF Init
    <2>2. Pending(i) = (<<>> \o <<>>) \o <<>>
        BY <2>1, CarriedByNone DEF Pending
    <2>3. <<>> \in Seq(Capsules)
        BY EmptyIsSeq
    <2> QED
        BY <2>2, <2>3, ConcatEmptySeq
<1>2. received = [i \in Interfaces |-> <<>>]
    BY DEF Init
<1> QED
    BY <1>1, <1>2 DEF Line!Init

LEMMA KeepsLine ==
    ASSUME \A i \in Interfaces : Keeps(i), UNCHANGED received
    PROVE  UNCHANGED Line!lvars
<1>1. pendingOf' = pendingOf
    BY DEF Keeps, pendingOf
<1> QED
    BY <1>1 DEF Line!lvars, pendingOf

LEMMA LosesLine ==
    ASSUME \A i \in Interfaces : Loses(i), UNCHANGED received
    PROVE  Line!Next
<1>1. \A i \in Interfaces : Line!LeftOf(Pending(i)', Pending(i))
    BY DEF Loses
<1>2. \A i \in Interfaces : pendingOf[i] = Pending(i) /\ pendingOf'[i] = Pending(i)'
    BY DEF pendingOf
<1>3. \A i \in Interfaces : Line!LeftOf(pendingOf'[i], pendingOf[i])
    BY <1>1, <1>2
<1>4. Line!Lose
    BY <1>3 DEF Line!Lose, pendingOf
<1> QED
    BY <1>4 DEF Line!Next

LEMMA PutsLine ==
    ASSUME NEW j \in Interfaces, NEW c \in Capsules, Puts(j, c),
           \A i \in Interfaces \ {j} : Keeps(i), UNCHANGED received
    PROVE  Line!Next
<1>1. pendingOf' = [pendingOf EXCEPT ![j] = Append(@, c)]
    BY DEF Puts, Keeps, pendingOf
<1>2. Line!Put(j, c)
    BY <1>1 DEF Line!Put, pendingOf
<1> QED
    BY <1>2 DEF Line!Next

LEMMA GetsLine ==
    ASSUME IInv, NEW o \in Interfaces, Gets(o), \A i \in Interfaces \ {o} : Keeps(i),
           received' \in [Interfaces -> Seq(Capsules)]
    PROVE  Line!Next
<1>1. pendingOf' = [pendingOf EXCEPT ![o] = Tail(@)] /\ pendingOf[o] # <<>>
    BY DEF Gets, Keeps, pendingOf
<1>2. received' = [received EXCEPT ![o] = Append(@, Head(Pending(o)))]
    BY DEF Gets, Keeps, IInv, Records
<1>3. received' = [received EXCEPT ![o] = Append(@, Head(pendingOf[o]))]
    BY <1>2 DEF pendingOf
<1>4. Line!Get(o)
    BY <1>1, <1>3 DEF Line!Get, pendingOf
<1> QED
    BY <1>4 DEF Line!Next

(* Every step is a step of the abstract lines, or none. *)
LEMMA NextLine == IInv /\ LineInv /\ [Next]_vars => [Line!Next]_(Line!lvars)
<1> SUFFICES ASSUME IInv, LineInv, [Next]_vars PROVE Line!Next \/ UNCHANGED Line!lvars
    OBVIOUS
<1>1. CASE UNCHANGED <<conns, hand, outq, received>>
    BY <1>1, NodeKeeps, KeepsLine
<1>2. ASSUME NEW o \in Interfaces, Sender(o)
      PROVE  Line!Next \/ UNCHANGED Line!lvars
    <2>1. received' = received
        BY <1>2 DEF Sender, Open, Pop, AliveFails, Send, SendFails, rxVars
    <2>2. CASE Open(o)
        BY <2>1, <2>2, OpenKeeps, KeepsLine
    <2>3. CASE Pop(o)
        BY <2>1, <2>3, PopKeeps, KeepsLine
    <2>4. CASE AliveFails(o)
        BY <1>1, <2>4 DEF AliveFails, rxVars
    <2>5. CASE Send(o)
        BY <2>1, <2>5, SendLoses, LosesLine
    <2>6. CASE SendFails(o)
        BY <2>1, <2>6, SendFailsLoses, LosesLine
    <2> QED
        BY <1>2, <2>2, <2>3, <2>4, <2>5, <2>6 DEF Sender
<1>3. ASSUME NEW j \in Interfaces, Receiver(j)
      PROVE  Line!Next \/ UNCHANGED Line!lvars
    <2>1. CASE Execute(j)
        <3>1. conns[j][1].from \in Interfaces /\ IInv'
            BY <2>1, ServedConn, NextIInv DEF Execute
        <3>2. PICK o \in Interfaces : o = conns[j][1].from
            BY <3>1
        <3>3. Gets(o) /\ \A i \in Interfaces \ {o} : Keeps(i)
            BY <2>1, <3>2, ExecuteGets
        <3> QED
            BY <3>1, <3>3, GetsLine DEF IInv, Records
    <2>2. CASE Accept(j) \/ FirstMessage(j) \/ FirstFails(j) \/ RunEnds(j)
        <3>1. received' = received
            BY <2>2 DEF Accept, FirstMessage, FirstFails, RunEnds
        <3> QED
            BY <2>2, <3>1, ReceiverKeeps, KeepsLine
    <2>3. CASE Crash(j)
        <3>1. NodeOf[j] \in Nodes /\ Dies(NodeOf[j])
            BY <2>3, LineAssumption DEF Crash
        <3>2. received' = received
            BY <3>1 DEF Dies
        <3> QED
            BY <3>1, <3>2, DiesLoses, LosesLine
    <2> QED
        BY <1>3, <2>1, <2>2, <2>3 DEF Receiver
<1>4. ASSUME NEW n \in Nodes, Loop(n)
      PROVE  Line!Next \/ UNCHANGED Line!lvars
    <2>1. CASE Deliver(n) \/ Route(n)
        BY <1>1, <2>1 DEF Deliver, Route, txVars, rxVars
    <2>2. ASSUME NEW j \in InterfacesOf(n), Offer(n, j)
          PROVE  Line!Next \/ UNCHANGED Line!lvars
        <3>1. received' = received /\ j \in Interfaces
            BY <2>2 DEF Offer, rxVars, InterfacesOf
        <3>2. /\ \A i \in Interfaces \ {j} : Keeps(i)
              /\ cur[n][1] \in Capsules /\ (Puts(j, cur[n][1]) \/ Keeps(j))
            BY <2>2, OfferPuts
        <3>3. CASE Keeps(j)
            BY <3>1, <3>2, <3>3, KeepsLine
        <3>4. CASE Puts(j, cur[n][1])
            BY <3>1, <3>2, <3>4, PutsLine
        <3> QED
            BY <3>2, <3>3, <3>4
    <2> QED
        BY <1>4, <2>1, <2>2 DEF Loop
<1>5. ASSUME NEW n \in Nodes, Restart(n)
      PROVE  Line!Next \/ UNCHANGED Line!lvars
    <2>1. Dies(n) /\ received' = received
        BY <1>5 DEF Restart, Dies
    <2> QED
        BY <2>1, DiesLoses, LosesLine
<1>6. ASSUME NEW i \in Interfaces, Break(i)
      PROVE  Line!Next \/ UNCHANGED Line!lvars
    <2>1. received' = received
        BY <1>6 DEF Break, rxVars
    <2> QED
        BY <1>6, <2>1, BreakLoses, LosesLine
<1>7. ASSUME NEW n \in Terminals, Terminal(n)
      PROVE  Line!Next \/ UNCHANGED Line!lvars
    BY <1>1, <1>7 DEF Terminal, SendTyped, SendMsg, InjectTwice, InjectAgain, txVars, rxVars
<1>8. ASSUME NEW n \in Nodes, NEW d \in Destinations, Inject(n, d)
      PROVE  Line!Next \/ UNCHANGED Line!lvars
    BY <1>1, <1>8 DEF Inject, txVars, rxVars
<1>9. CASE UNCHANGED vars
    BY <1>1, <1>9 DEF vars
<1> QED
    BY <1>2, <1>3, <1>4, <1>5, <1>6, <1>7, <1>8, <1>9 DEF Next

(* The connections of a line, in the order they are read (ctcpclient.cpp:39, *)
(* csingletcpserver.cpp:130).                                                *)
LEMMA InductiveLines == Spec => []LineInv
<1>1. Init => LineInv
    BY InitLineInv
<1>2. IInv /\ LineInv /\ [Next]_vars => LineInv'
    BY NextLineInv
<1> QED
    BY <1>1, <1>2, Inductive, PTL DEF Spec

(***************************************************************************)
(* Every line is a queue that may lose capsules but neither repeats,       *)
(* invents nor reorders them, whatever breaks and restarts: the output     *)
(* queue, the hand of the sender and the connections the server has not    *)
(* read to their end (ctcpinterface.cpp:101, csingletcpserver.cpp:130).    *)
(***************************************************************************)
THEOREM LinesAreLossyQueues == Spec => ImplementsLossyLine
<1>1. Init => Line!Init
    BY InitLine
<1>2. IInv /\ LineInv /\ [Next]_vars => [Line!Next]_(Line!lvars)
    BY NextLine
<1> QED
    BY <1>1, <1>2, Inductive, InductiveLines, PTL DEF Spec, Line!Spec, ImplementsLossyLine

-----------------------------------------------------------------------------
(* Lines on which nothing went wrong. *)

AllUp == \A j \in Interfaces : \A k \in DOMAIN conns[j] : conns[j][k].st = "up"
Connected == \A i \in Interfaces : tx[i] # "open" => Live(i) # {}
Counted(i) == queued[i] = Len(received[i]) + Len(Pending(i))

HealthyInv ==
    breaks = 0 /\ restarts = 0 => AllUp /\ Connected /\ \A i \in Interfaces : Counted(i)

LEMMA KeepsCounted ==
    ASSUME NEW i \in Interfaces, Counted(i), Keeps(i), queued'[i] = queued[i]
    PROVE  Counted(i)'
BY DEF Counted, Keeps

LEMMA PutsCounted ==
    ASSUME IInv, NEW j \in Interfaces, NEW c \in Capsules, Counted(j), Puts(j, c),
           queued' = [queued EXCEPT ![j] = @ + 1]
    PROVE  Counted(j)'
<1> DEFINE p == Pending(j)
           q == queued[j]
<1>1. p \in Seq(Capsules) /\ Len(p) \in Nat /\ received[j] \in Seq(Capsules) /\ Len(received[j]) \in Nat
    BY PendingParts, LenProperties
<1>2. q \in Nat /\ queued'[j] = q + 1
    BY DEF IInv, Records
<1>3. Len(Append(p, c)) = Len(p) + 1
    BY <1>1, AppendProperties
<1>4. /\ q = Len(received[j]) + Len(p) /\ Pending(j)' = Append(p, c)
      /\ received'[j] = received[j]
    BY DEF Counted, Puts
<1>5. queued'[j] = Len(received[j]) + Len(Append(p, c))
    <2> DEFINE m == Len(p)
               n == Len(received[j])
               z == Len(Append(p, c))
    <2>1. m \in Nat /\ n \in Nat /\ z = m + 1 /\ q = n + m
        BY <1>1, <1>3, <1>4
    <2> HIDE DEF m, n, z, q
    <2>2. q + 1 = n + z
        BY <2>1
    <2> QED
        BY <1>2, <2>2 DEF n, z
<1> HIDE DEF p
<1> QED
    BY <1>4, <1>5 DEF Counted

LEMMA GetsCounted ==
    ASSUME IInv, NEW o \in Interfaces, Counted(o), Gets(o), queued'[o] = queued[o]
    PROVE  Counted(o)'
<1> DEFINE p == Pending(o)
           r == received[o]
<1>1. p \in Seq(Capsules) /\ r \in Seq(Capsules)
    BY PendingParts
<1>2. /\ queued[o] = Len(r) + Len(p) /\ p # <<>> /\ Pending(o)' = Tail(p)
      /\ received'[o] = Append(r, Head(p))
    BY DEF Counted, Gets
<1> HIDE DEF p, r
<1>3. /\ Len(p) \in Nat \ {0} /\ Len(r) \in Nat /\ Head(p) \in Capsules /\ Len(Tail(p)) = Len(p) - 1
    BY <1>1, <1>2, EmptySeq, LenProperties, HeadTailProperties
<1>4. Len(Append(r, Head(p))) = Len(r) + 1
    BY <1>1, <1>3, AppendProperties
<1>5. queued'[o] = Len(Append(r, Head(p))) + Len(Tail(p))
    BY <1>2, <1>3, <1>4
<1> QED
    BY <1>2, <1>5 DEF Counted

(* When no connection goes nor changes its state, and each that comes is up. *)
LEMMA UpKept ==
    ASSUME IInv, AllUp, Connected,
           \A j \in Interfaces : \A k \in DOMAIN conns[j] :
              /\ k \in DOMAIN conns'[j]
              /\ conns'[j][k].from = conns[j][k].from /\ conns'[j][k].st = conns[j][k].st,
           \A j \in Interfaces : \A k \in DOMAIN conns'[j] :
              k \in DOMAIN conns[j] \/ conns'[j][k].st = "up",
           \A i \in Interfaces : tx'[i] # "open" => tx[i] # "open" \/ Live(i)' # {}
    PROVE  AllUp' /\ Connected'
<1>1. AllUp'
    BY DEF AllUp
<1>2. ASSUME NEW i \in Interfaces, tx'[i] # "open", tx[i] # "open"
      PROVE  Live(i)' # {}
    <2>1. PICK k : k \in Live(i)
        BY <1>2 DEF Connected
    <2> QED
        BY <2>1, RemoteServer DEF Live
<1> QED
    BY <1>1, <1>2 DEF Connected

(* The same for a step that changes the connections of one server. *)
LEMMA UpKeptAtOne ==
    ASSUME IInv, AllUp, Connected, NEW j \in Interfaces, NEW t \in Seq(Connections),
           conns' = [conns EXCEPT ![j] = t], Len(t) = Len(conns[j]),
           \A k \in 1 .. Len(conns[j]) :
              t[k].from = conns[j][k].from /\ t[k].st = conns[j][k].st,
           \A i \in Interfaces : tx'[i] # "open" => tx[i] # "open"
    PROVE  AllUp' /\ Connected'
<1>1. conns'[j] = t /\ \A o \in Interfaces \ {j} : conns'[o] = conns[o]
    BY DEF IInv, Receivers
<1>2. DOMAIN conns[j] = 1 .. Len(conns[j]) /\ DOMAIN t = 1 .. Len(conns[j])
    BY ServerConns, LenProperties
<1>3. ASSUME NEW o \in Interfaces, NEW k \in DOMAIN conns[o]
      PROVE  /\ k \in DOMAIN conns'[o]
             /\ conns'[o][k].from = conns[o][k].from /\ conns'[o][k].st = conns[o][k].st
    BY <1>1, <1>2, <1>3
<1>4. \A o \in Interfaces : DOMAIN conns'[o] = DOMAIN conns[o]
    BY <1>1, <1>2
<1> QED
    BY <1>3, <1>4, UpKept

LEMMA SenderHealthy ==
    ASSUME IInv, LineInv, AllUp, Connected, \A i \in Interfaces : Counted(i),
           NEW o \in Interfaces, Sender(o)
    PROVE  AllUp' /\ Connected' /\ \A i \in Interfaces : Counted(i)'
<1>1. queued' = queued
    BY DEF Sender, Open, Pop, AliveFails, Send, SendFails
<1>2. CASE Open(o)
    <2> DEFINE j == Remote[o]
    <2>1. /\ conns' = [conns EXCEPT ![j] = Append(@, NewConn(o))] /\ tx' = [tx EXCEPT ![o] = "pop"]
          /\ j \in Interfaces
        BY <1>2, RemoteServer DEF Open
    <2>2. NewConn(o) \in Connections /\ NewConn(o).from = o /\ NewConn(o).st = "up"
        BY EmptyIsSeq DEF NewConn, Connections
    <2>3. conns'[j] = Append(conns[j], NewConn(o)) /\ \A k \in Interfaces \ {j} : conns'[k] = conns[k]
        BY <2>1 DEF IInv, Receivers
    <2> HIDE DEF j
    <2> DEFINE s == conns[j]
               c == NewConn(o)
               t == Append(s, c)
    <2>4. /\ s \in Seq(Connections) /\ Len(s) \in Nat /\ DOMAIN s = 1 .. Len(s)
        BY <2>1, ServerConns
    <2> HIDE DEF c, s
    <2>5. /\ t \in Seq(Connections) /\ Len(t) = Len(s) + 1 /\ t[Len(s) + 1] = c
          /\ \A k \in 1 .. Len(s) : t[k] = s[k]
        BY <2>2, <2>4, AppendProperties DEF c
    <2>6. DOMAIN t = 1 .. Len(s) + 1
        BY <2>5, LenProperties
    <2> HIDE DEF t
    <2>7. ASSUME NEW i \in Interfaces, NEW k \in DOMAIN conns[i]
          PROVE  /\ k \in DOMAIN conns'[i]
                 /\ conns'[i][k].from = conns[i][k].from /\ conns'[i][k].st = conns[i][k].st
        <3>1. CASE i = j
            BY <2>3, <2>4, <2>5, <2>6, <2>7, <3>1 DEF s, t, c
        <3>2. CASE i # j
            BY <2>3, <2>7, <3>2
        <3> QED
            BY <3>1, <3>2
    <2>8. ASSUME NEW i \in Interfaces, NEW k \in DOMAIN conns'[i]
          PROVE  k \in DOMAIN conns[i] \/ conns'[i][k].st = "up"
        <3>1. CASE i = j
            <4>1. k \in 1 .. Len(s) \/ k = Len(s) + 1
                BY <2>3, <2>4, <2>6, <2>8, <3>1 DEF s, t, c
            <4> QED
                BY <2>2, <2>3, <2>4, <2>5, <3>1, <4>1 DEF s, t, c
        <3>2. CASE i # j
            BY <2>3, <2>8, <3>2
        <3> QED
            BY <3>1, <3>2
    <2>9. Live(o)' # {}
        <3>1. Live(o)' = {k \in DOMAIN t : t[k].from = o /\ t[k].st = "up"}
            BY <2>3 DEF Live, j, s, t, c
        <3>2. Len(s) + 1 \in DOMAIN t
            BY <2>4, <2>6
        <3> QED
            BY <2>2, <2>5, <3>1, <3>2 DEF c
    <2>10. \A i \in Interfaces : tx'[i] # "open" => tx[i] # "open" \/ Live(i)' # {}
        BY <2>1, <2>9 DEF IInv, Senders
    <2>11. AllUp' /\ Connected'
        BY <2>7, <2>8, <2>10, UpKept
    <2> QED
        BY <1>1, <1>2, <2>11, OpenKeeps, KeepsCounted
<1>3. CASE Pop(o)
    <2>1. conns' = conns /\ \A i \in Interfaces : tx'[i] # "open" => tx[i] # "open"
        BY <1>3 DEF Pop, IInv, Senders
    <2>2. AllUp' /\ Connected'
        BY <2>1 DEF AllUp, Connected, Live
    <2> QED
        BY <1>1, <1>3, <2>2, PopKeeps, KeepsCounted
<1>4. CASE Send(o)
    <2> DEFINE j == Remote[o]
               s == conns[j]
               t == conns'[j]
    <2>1. /\ conns' = [conns EXCEPT ![j] = t]
          /\ t \in Seq(Connections) /\ Len(t) = Len(s)
          /\ \A k \in 1 .. Len(s) :
               /\ t[k].from = s[k].from /\ t[k].st = s[k].st /\ t[k].hello = s[k].hello
               /\ k \in Live(o) => t[k].data = s[k].data \o hand[o]
               /\ k \notin Live(o) => t[k] = s[k]
        BY <1>4, SendChange, Zenon
    <2> HIDE DEF t
    <2>2. j \in Interfaces /\ \A i \in Interfaces : tx'[i] # "open" => tx[i] # "open"
        BY <1>4, RemoteServer DEF Send, IInv, Senders
    <2>3. AllUp' /\ Connected'
        BY <2>1, <2>2, UpKeptAtOne
    <2>4. Live(o) # {}
        BY <1>4 DEF Send, Connected
    <2> QED
        BY <1>1, <1>4, <2>3, <2>4, SendLoses, KeepsCounted
<1>5. ~AliveFails(o) /\ ~SendFails(o)
    BY DEF AliveFails, SendFails, Connected
<1> QED
    BY <1>2, <1>3, <1>4, <1>5 DEF Sender

LEMMA ReceiverHealthy ==
    ASSUME IInv, LineInv, AllUp, Connected, \A i \in Interfaces : Counted(i),
           NEW j \in Interfaces, Receiver(j)
    PROVE  AllUp' /\ Connected' /\ \A i \in Interfaces : Counted(i)'
<1>1. queued' = queued /\ (Crash(j) \/ tx' = tx)
    BY DEF Receiver, Accept, FirstMessage, FirstFails, Execute, RunEnds, Crash, Dies, txVars
<1>2. ASSUME rx[j] # "accept"
      PROVE  conns[j][1].st = "up" /\ conns[j] \in Seq(Connections) /\ 1 \in 1 .. Len(conns[j])
    BY <1>2, ServedConn, Served DEF AllUp, IInv
<1>3. ~FirstFails(j) /\ ~RunEnds(j) /\ ~Crash(j)
    BY <1>2 DEF FirstFails, RunEnds, Drained, Crash
<1>4. ASSUME rx[j] # "accept", NEW d \in Connections,
             conns' = [conns EXCEPT ![j] = [conns[j] EXCEPT ![1] = d]],
             d.from = conns[j][1].from, d.st = conns[j][1].st
      PROVE  AllUp' /\ Connected'
    <2> DEFINE t == [conns[j] EXCEPT ![1] = d]
    <2>1. /\ t \in Seq(Connections) /\ Len(t) = Len(conns[j]) /\ conns' = [conns EXCEPT ![j] = t]
          /\ \A m \in 1 .. Len(conns[j]) : t[m] = IF m = 1 THEN d ELSE conns[j][m]
        BY <1>2, <1>4, ExceptSeq
    <2> HIDE DEF t
    <2>2. \A m \in 1 .. Len(conns[j]) : t[m].from = conns[j][m].from /\ t[m].st = conns[j][m].st
        BY <1>4, <2>1
    <2> QED
        BY <1>1, <1>3, <2>1, <2>2, UpKeptAtOne
<1>5. CASE Accept(j)
    <2>1. AllUp' /\ Connected'
        BY <1>1, <1>3, <1>5 DEF Accept, AllUp, Connected, Live
    <2> QED
        BY <1>1, <1>3, <1>5, <2>1, ReceiverKeeps, KeepsCounted
<1>6. CASE FirstMessage(j)
    <2> DEFINE d == [conns[j][1] EXCEPT !.hello = FALSE]
    <2>1. /\ d \in Connections /\ conns' = [conns EXCEPT ![j] = [conns[j] EXCEPT ![1] = d]]
          /\ conns[j][1] \in Connections /\ rx[j] # "accept"
        BY <1>6, FirstMessageChange, ServedConn DEF FirstMessage
    <2>2. d.from = conns[j][1].from /\ d.st = conns[j][1].st
        BY <2>1 DEF Connections
    <2> HIDE DEF d
    <2>3. AllUp' /\ Connected'
        BY <1>4, <2>1, <2>2
    <2> QED
        BY <1>1, <1>3, <1>6, <2>3, ReceiverKeeps, KeepsCounted
<1>7. CASE Execute(j)
    <2> DEFINE d == [conns[j][1] EXCEPT !.data = Tail(@)]
    <2>1. /\ d \in Connections /\ conns' = [conns EXCEPT ![j] = [conns[j] EXCEPT ![1] = d]]
          /\ conns[j][1] \in Connections /\ rx[j] # "accept" /\ conns[j][1].from \in Interfaces
        BY <1>7, ExecuteChange, ServedConn DEF Execute
    <2>2. d.from = conns[j][1].from /\ d.st = conns[j][1].st
        BY <2>1 DEF Connections
    <2> HIDE DEF d
    <2>3. AllUp' /\ Connected'
        BY <1>4, <2>1, <2>2
    <2>4. PICK o \in Interfaces : o = conns[j][1].from
        BY <2>1
    <2>5. Gets(o) /\ \A i \in Interfaces \ {o} : Keeps(i)
        BY <1>7, <2>4, ExecuteGets
    <2>6. ASSUME NEW i \in Interfaces
          PROVE  Counted(i)'
        <3>1. CASE i = o
            BY <1>1, <1>3, <2>5, <3>1, GetsCounted
        <3>2. CASE i # o
            BY <1>1, <1>3, <2>5, <3>2, KeepsCounted
        <3> QED
            BY <3>1, <3>2
    <2> QED
        BY <2>3, <2>6
<1> QED
    BY <1>3, <1>5, <1>6, <1>7 DEF Receiver

LEMMA NextHealthyInv == IInv /\ LineInv /\ HealthyInv /\ [Next]_vars => HealthyInv'
<1> SUFFICES ASSUME IInv, LineInv, HealthyInv, [Next]_vars, breaks' = 0, restarts' = 0
             PROVE  AllUp' /\ Connected' /\ \A i \in Interfaces : Counted(i)'
    BY DEF HealthyInv
<1>1. breaks \in Nat /\ restarts \in Nat
    BY BoundsAssumption DEF IInv, Records
<1>2. ASSUME breaks = 0, restarts = 0
      PROVE  AllUp /\ Connected /\ \A i \in Interfaces : Counted(i)
    BY <1>2 DEF HealthyInv
<1>3. CASE UNCHANGED <<conns, tx, hand, outq, received, queued, breaks, restarts>>
    <2>1. AllUp' /\ Connected'
        BY <1>2, <1>3 DEF AllUp, Connected, Live
    <2>2. \A i \in Interfaces : Counted(i)'
        BY <1>2, <1>3, NodeKeeps, KeepsCounted
    <2> QED
        BY <2>1, <2>2
<1>4. ASSUME NEW o \in Interfaces, Sender(o) \/ Receiver(o)
      PROVE  AllUp' /\ Connected' /\ \A i \in Interfaces : Counted(i)'
    <2>1. breaks' = breaks /\ restarts' = restarts
        BY <1>4 DEF Sender, Receiver, Open, Pop, AliveFails, Send, SendFails,
                    Accept, FirstMessage, FirstFails, Execute, RunEnds, Crash, bounds
    <2> QED
        BY <1>2, <1>4, <2>1, SenderHealthy, ReceiverHealthy
<1>5. ASSUME NEW n \in Nodes, Loop(n)
      PROVE  AllUp' /\ Connected' /\ \A i \in Interfaces : Counted(i)'
    <2>1. CASE Deliver(n) \/ Route(n)
        BY <1>3, <2>1 DEF Deliver, Route, txVars, rxVars, bounds
    <2>2. ASSUME NEW j \in InterfacesOf(n), Offer(n, j)
          PROVE  AllUp' /\ Connected' /\ \A i \in Interfaces : Counted(i)'
        <3>1. /\ UNCHANGED <<conns, tx>> /\ breaks' = breaks /\ restarts' = restarts
              /\ j \in Interfaces
            BY <2>2 DEF Offer, InterfacesOf, bounds
        <3>2. AllUp' /\ Connected'
            BY <1>2, <3>1 DEF AllUp, Connected, Live
        <3>3. /\ \A i \in Interfaces \ {j} : Keeps(i)
              /\ cur[n][1] \in Capsules
              /\ \/ Puts(j, cur[n][1]) /\ queued' = [queued EXCEPT ![j] = @ + 1]
                 \/ Keeps(j) /\ queued' = queued
            BY <2>2, OfferPuts
        <3>4. \A i \in Interfaces \ {j} : queued'[i] = queued[i]
            BY <3>3 DEF IInv, Records
        <3>5. \A i \in Interfaces \ {j} : Counted(i)'
            BY <1>2, <3>1, <3>3, <3>4, KeepsCounted
        <3>6. Counted(j)'
            BY <1>2, <3>1, <3>3, KeepsCounted, PutsCounted
        <3> QED
            BY <3>2, <3>5, <3>6
    <2> QED
        BY <1>5, <2>1, <2>2 DEF Loop
<1>6. ASSUME NEW n \in Terminals, Terminal(n)
      PROVE  AllUp' /\ Connected' /\ \A i \in Interfaces : Counted(i)'
    BY <1>3, <1>6 DEF Terminal, SendTyped, SendMsg, InjectTwice, InjectAgain, txVars, rxVars, bounds
<1>7. ASSUME NEW n \in Nodes, NEW d \in Destinations, Inject(n, d)
      PROVE  AllUp' /\ Connected' /\ \A i \in Interfaces : Counted(i)'
    BY <1>3, <1>7 DEF Inject, txVars, rxVars
<1>8. ASSUME NEW n \in Nodes, Restart(n)
      PROVE  FALSE
    BY <1>1, <1>8 DEF Restart
<1>9. ASSUME NEW i \in Interfaces, Break(i)
      PROVE  FALSE
    BY <1>1, <1>9 DEF Break
<1>10. CASE UNCHANGED vars
    BY <1>3, <1>10 DEF vars
<1> QED
    BY <1>4, <1>5, <1>6, <1>7, <1>8, <1>9, <1>10 DEF Next

(***************************************************************************)
(* Without breaks and restarts every capsule that an output queue took is  *)
(* on its line or has come over it: the receivers wait for room            *)
(* (sendcapsulefuncin.cpp:37) and each sender writes on a connection that  *)
(* is up (ctcpinterface.cpp:101).                                          *)
(***************************************************************************)
THEOREM HealthyLinesKeep == Spec => []HealthyLineKeeps
<1>1. Init => HealthyInv
    <2> SUFFICES ASSUME Init PROVE AllUp /\ Connected /\ \A i \in Interfaces : Counted(i)
        BY DEF HealthyInv
    <2>1. AllUp /\ Connected
        BY RemoteServer DEF Init, AllUp, Connected
    <2>2. ASSUME NEW i \in Interfaces
          PROVE  Counted(i)
        <3>1. pendingOf[i] = <<>>
            BY InitLine DEF Line!Init, pendingOf
        <3>2. Pending(i) = <<>>
            BY <3>1 DEF pendingOf
        <3>3. received[i] = <<>> /\ queued[i] = 0
            BY DEF Init
        <3>4. Len(<<>>) = 0
            OBVIOUS
        <3> QED
            BY <3>2, <3>3, <3>4 DEF Counted
    <2> QED
        BY <2>1, <2>2
<1>2. IInv /\ LineInv /\ HealthyInv /\ [Next]_vars => HealthyInv'
    BY NextHealthyInv
<1>3. HealthyInv => HealthyLineKeeps
    BY DEF HealthyInv, HealthyLineKeeps, Counted
<1> QED
    BY <1>1, <1>2, <1>3, Inductive, InductiveLines, PTL DEF Spec
=============================================================================
