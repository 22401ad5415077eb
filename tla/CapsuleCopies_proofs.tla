------------------------- MODULE CapsuleCopies_proofs -------------------------
(***************************************************************************)
(* How often a capsule arrives, for any network whose links are configured *)
(* at both ends.                                                           *)
(***************************************************************************)
EXTENDS CapsuleNet_proofs, FiniteSetTheorems

-----------------------------------------------------------------------------
(* Counting in sequences. *)

One(b) == IF b THEN 1 ELSE 0
Places(c, s) == {k \in DOMAIN s : s[k] = c}

LEMMA CopiesType ==
    ASSUME NEW s \in Seq(Capsules), NEW c
    PROVE  IsFiniteSet(Places(c, s)) /\ Copies(c, s) = Cardinality(Places(c, s)) /\ Copies(c, s) \in Nat
<1>1. Len(s) \in Nat /\ DOMAIN s = 1 .. Len(s)
    BY LenProperties
<1>2. IsFiniteSet(1 .. Len(s))
    BY <1>1, FS_Interval
<1>3. Places(c, s) \in SUBSET (1 .. Len(s))
    BY <1>1 DEF Places
<1>4. IsFiniteSet(Places(c, s))
    BY <1>2, <1>3, FS_Subset
<1>5. Copies(c, s) = Cardinality(Places(c, s))
    BY DEF Copies, Places
<1> QED
    BY <1>4, <1>5, FS_CardinalityType

LEMMA CopiesOfNone == ASSUME NEW c PROVE Copies(c, <<>>) = 0
BY FS_EmptySet DEF Copies

LEMMA CopiesPositive ==
    ASSUME NEW s \in Seq(Capsules), NEW c
    PROVE  Copies(c, s) > 0 <=> \E k \in DOMAIN s : s[k] = c
<1>1. IsFiniteSet(Places(c, s)) /\ Copies(c, s) = Cardinality(Places(c, s)) /\ Copies(c, s) \in Nat
    BY CopiesType
<1>2. Cardinality(Places(c, s)) = 0 <=> Places(c, s) = {}
    BY <1>1, FS_EmptySet
<1>3. Copies(c, s) > 0 <=> Places(c, s) # {}
    BY <1>1, <1>2
<1> QED
    BY <1>3 DEF Places

LEMMA CopiesAppend ==
    ASSUME NEW s \in Seq(Capsules), NEW e \in Capsules, NEW c
    PROVE  Copies(c, Append(s, e)) = Copies(c, s) + One(e = c)
<1> DEFINE t == Append(s, e)
           n == Len(s)
<1>1. n \in Nat /\ DOMAIN s = 1 .. n
    BY LenProperties
<1>2. /\ t \in Seq(Capsules) /\ Len(t) = n + 1 /\ t[n + 1] = e
      /\ \A k \in 1 .. n : t[k] = s[k]
    BY AppendProperties
<1>3. DOMAIN t = 1 .. n + 1
    BY <1>2, LenProperties
<1> HIDE DEF t, n
<1>4. /\ IsFiniteSet(Places(c, s)) /\ Copies(c, s) = Cardinality(Places(c, s)) /\ Copies(c, s) \in Nat
      /\ Copies(c, t) = Cardinality(Places(c, t))
    BY <1>2, CopiesType
<1>5. n + 1 \notin Places(c, s)
    BY <1>1 DEF Places
<1>6. CASE e = c
    <2>1. Places(c, t) = Places(c, s) \cup {n + 1}
        BY <1>1, <1>2, <1>3, <1>6 DEF Places
    <2> QED
        BY <1>4, <1>5, <1>6, <2>1, FS_AddElement DEF One, t
<1>7. CASE e # c
    <2>1. Places(c, t) = Places(c, s)
        BY <1>1, <1>2, <1>3, <1>7 DEF Places
    <2> QED
        BY <1>4, <1>7, <2>1 DEF One, t
<1> QED
    BY <1>6, <1>7

LEMMA CopiesTail ==
    ASSUME NEW s \in Seq(Capsules), s # <<>>, NEW c
    PROVE  Copies(c, s) = Copies(c, Tail(s)) + One(Head(s) = c)
<1> DEFINE t == Tail(s)
           A == Places(c, t)
           B == Places(c, s) \ {1}
           f == [k \in A |-> k + 1]
<1>1. Len(s) \in Nat \ {0} /\ DOMAIN s = 1 .. Len(s) /\ Head(s) = s[1]
    BY EmptySeq, LenProperties
<1>2. t \in Seq(Capsules) /\ Len(t) = Len(s) - 1 /\ \A k \in 1 .. Len(t) : t[k] = s[k + 1]
    BY HeadTailProperties
<1>3. DOMAIN t = 1 .. Len(t) /\ Len(t) \in Nat
    BY <1>2, LenProperties
<1> HIDE DEF t
<1>4. /\ IsFiniteSet(A) /\ Copies(c, t) = Cardinality(A) /\ Copies(c, t) \in Nat
      /\ IsFiniteSet(Places(c, s)) /\ Copies(c, s) = Cardinality(Places(c, s))
      /\ Copies(c, s) \in Nat
    BY <1>2, CopiesType
<1>5. A \subseteq Nat /\ \A k \in A : k + 1 \in B
    BY <1>1, <1>2, <1>3 DEF Places
<1>6. \A m \in B : m - 1 \in A /\ (m - 1) + 1 = m
    BY <1>1, <1>2, <1>3 DEF Places
<1>7. f \in Bijection(A, B)
    <2>1. f \in [A -> B]
        BY <1>5
    <2>2. \A k \in A, m \in A : f[k] = f[m] => k = m
        BY <1>5
    <2>3. \A m \in B : \E k \in A : f[k] = m
        BY <1>6
    <2> HIDE DEF f, A, B
    <2>4. IsInjective(f)
        BY <2>1, <2>2 DEF IsInjective
    <2> QED
        BY <2>1, <2>3, <2>4 DEF Bijection, Injection, Surjection
<1>8. Cardinality(B) = Cardinality(A)
    BY <1>4, <1>7, FS_Bijection DEF ExistsBijection
<1>9. 1 \in Places(c, s) <=> Head(s) = c
    BY <1>1 DEF Places
<1>10. Cardinality(B) = IF 1 \in Places(c, s) THEN Cardinality(Places(c, s)) - 1
                                              ELSE Cardinality(Places(c, s))
    BY <1>4, FS_RemoveElement
<1> HIDE DEF A, B, f
<1> QED
    BY <1>4, <1>8, <1>9, <1>10 DEF One, t

(* What grows from each number to the next grows from each to all that follow. *)
LEMMA Increasing ==
    ASSUME NEW n \in Nat, NEW f \in [1 .. n -> Nat], \A k \in 1 .. n - 1 : f[k] < f[k + 1]
    PROVE  \A k, m \in 1 .. n : k < m => f[k] < f[m]
<1> DEFINE T == {m \in 1 .. n : \E k \in 1 .. n : k < m /\ f[m] <= f[k]}
<1>1. ASSUME T # {}
      PROVE  FALSE
    <2>1. T \subseteq Nat
        OBVIOUS
    <2> HIDE DEF T
    <2>2. PICK x \in T : \A y \in T : x <= y
        BY <1>1, <2>1, NatLeast
    <2>3. PICK k \in 1 .. n : k < x /\ f[x] <= f[k] /\ x \in 1 .. n
        BY <2>2 DEF T
    <2>4. /\ x \in Nat /\ k \in Nat /\ x - 1 \in 1 .. n - 1 /\ x - 1 \in 1 .. n /\ (x - 1) + 1 = x
          /\ k < x - 1 \/ k = x - 1
        BY <2>3
    <2>5. f[x - 1] < f[x] /\ f[x - 1] \in Nat /\ f[x] \in Nat /\ f[k] \in Nat
        BY <2>3, <2>4
    <2>6. x - 1 \notin T
        BY <2>2, <2>4
    <2>7. k < x - 1 => ~ (f[x - 1] <= f[k])
        BY <2>3, <2>4, <2>6 DEF T
    <2> QED
        BY <2>3, <2>4, <2>5, <2>7
<1>2. ASSUME NEW k \in 1 .. n, NEW m \in 1 .. n, k < m
      PROVE  f[k] < f[m]
    <2>1. m \notin T
        BY <1>1
    <2>2. f[k] \in Nat /\ f[m] \in Nat
        OBVIOUS
    <2> QED
        BY <1>2, <2>1, <2>2
<1> QED
    BY <1>2

(* Where capsules are lost there are no more copies than before. *)
LEMMA CopiesLeft ==
    ASSUME NEW s \in Seq(Capsules), NEW t \in Seq(Capsules), Line!LeftOf(s, t), NEW c
    PROVE  Copies(c, s) <= Copies(c, t)
<1>1. /\ Len(s) \in Nat /\ DOMAIN s = 1 .. Len(s) /\ Len(t) \in Nat /\ DOMAIN t = 1 .. Len(t)
    BY LenProperties
<1>2. PICK f \in [1 .. Len(s) -> 1 .. Len(t)] :
          /\ \A k \in 1 .. Len(s) : s[k] = t[f[k]]
          /\ \A k \in 1 .. Len(s) - 1 : f[k] < f[k + 1]
    BY DEF Line!LeftOf
<1>3. \A k, m \in 1 .. Len(s) : k < m => f[k] < f[m]
    <2>1. f \in [1 .. Len(s) -> Nat]
        BY <1>1
    <2> QED
        BY <1>1, <1>2, <2>1, Increasing
<1> DEFINE A == Places(c, s)
           B == Places(c, t)
           g == [k \in A |-> f[k]]
<1>4. /\ IsFiniteSet(A) /\ Copies(c, s) = Cardinality(A)
      /\ IsFiniteSet(B) /\ Copies(c, t) = Cardinality(B)
    BY CopiesType
<1>5. A \subseteq 1 .. Len(s) /\ \A k \in A : f[k] \in B
    BY <1>1, <1>2 DEF Places
<1>6. g \in [A -> B] /\ DOMAIN g = A /\ \A k \in A : g[k] = f[k]
    BY <1>5
<1>7. ASSUME NEW k \in A, NEW m \in A, f[k] = f[m]
      PROVE  k = m
    <2>1. k \in Nat /\ m \in Nat /\ f[k] \in Nat /\ f[m] \in Nat
        BY <1>1, <1>5
    <2>2. ~(k < m) /\ ~(m < k)
        BY <1>3, <1>5, <1>7, <2>1
    <2> QED
        BY <2>1, <2>2
<1> HIDE DEF A, B, g
<1>8. IsInjective(g)
    BY <1>6, <1>7 DEF IsInjective
<1>9. g \in Injection(A, B)
    BY <1>6, <1>8 DEF Injection
<1> QED
    BY <1>4, <1>9, FS_Injection

(* Copies at two and at three places. *)
LEMMA TwoPlaces ==
    ASSUME NEW s \in Seq(Capsules), NEW c, NEW k \in Places(c, s), NEW m \in Places(c, s), k # m
    PROVE  /\ Copies(c, s) >= 2
           /\ \A o \in Places(c, s) : o # k /\ o # m => Copies(c, s) >= 3
<1>1. /\ IsFiniteSet(Places(c, s)) /\ Copies(c, s) = Cardinality(Places(c, s))
      /\ Copies(c, s) \in Nat
    BY CopiesType
<1>2. IsFiniteSet({k}) /\ Cardinality({k}) = 1
    BY FS_Singleton
<1>3. IsFiniteSet({k} \cup {m}) /\ Cardinality({k} \cup {m}) = 2
    <2> DEFINE S == {k}
    <2>1. m \notin S /\ IsFiniteSet(S) /\ Cardinality(S) = 1
        BY <1>2
    <2> HIDE DEF S
    <2>2. /\ IsFiniteSet(S \cup {m})
          /\ Cardinality(S \cup {m}) = IF m \in S THEN Cardinality(S) ELSE Cardinality(S) + 1
        BY <2>1, FS_AddElement
    <2> QED
        BY <2>1, <2>2 DEF S
<1>4. {k} \cup {m} \in SUBSET Places(c, s)
    OBVIOUS
<1>5. Cardinality({k} \cup {m}) <= Cardinality(Places(c, s))
    BY <1>1, <1>4, FS_Subset
<1>6. ASSUME NEW o \in Places(c, s), o # k, o # m
      PROVE  Copies(c, s) >= 3
    <2> DEFINE S == {k} \cup {m}
    <2>1. o \notin S
        BY <1>6
    <2>2. S \cup {o} \in SUBSET Places(c, s)
        BY <1>4
    <2> HIDE DEF S
    <2>3. IsFiniteSet(S) /\ Cardinality(S) = 2
        BY <1>3 DEF S
    <2>4. Cardinality(S \cup {o}) = IF o \in S THEN Cardinality(S) ELSE Cardinality(S) + 1
        BY <2>3, FS_AddElement
    <2>5. Cardinality(S \cup {o}) = 3
        BY <2>1, <2>3, <2>4
    <2>6. Cardinality(S \cup {o}) <= Cardinality(Places(c, s))
        BY <1>1, <2>2, FS_Subset
    <2> QED
        BY <1>1, <2>5, <2>6
<1> QED
    BY <1>1, <1>3, <1>5, <1>6

-----------------------------------------------------------------------------
(***************************************************************************)
(* The inductive invariant.  Limit: how often a capsule may be injected    *)
(* into the node it is from, so far.  Each copy is still in its node's     *)
(* stock, or it was delivered there, or it left the stock - and then it is *)
(* on each of the node's lines at most once: still due, pending, or        *)
(* received at the other end.  Another node has only what it received.     *)
(***************************************************************************)
Real == {c \in Capsules : c.dst # Default}

Limit(c) == IF c.id > injected THEN 0 ELSE IF c.twice THEN 2 ELSE 1
Second(n) == IF n \in Terminals THEN again[n] ELSE <<>>
Stock(c) == Copies(c, inbox[c.from]) + Copies(c, Second(c.from))
OnLine(c, i) == Copies(c, received[i]) + Copies(c, Pending(i))
Due(c, i) == One(cur[c.from] = <<c>> /\ i \in todo[c.from])
Came(c, n) ==
    {x \in Interfaces \X Nat :
        /\ NodeOf[Remote[x[1]]] = n /\ x[2] \in DOMAIN received[x[1]]
        /\ received[x[1]][x[2]] = c}

AtHome(c) == Stock(c) + Copies(c, delivered[c.from]) <= Limit(c)
OverLines(c) ==
    \A i \in InterfacesOf(c.from) : Stock(c) + OnLine(c, i) + Due(c, i) <= Limit(c)
Away(c) ==
    \A n \in Nodes \ {c.from} :
        /\ IsFiniteSet(Came(c, n))
        /\ Copies(c, delivered[n]) + Copies(c, inbox[n]) <= Cardinality(Came(c, n))
FromHome(c) ==
    \A i \in Interfaces :
        OnLine(c, i) > 0 => c.from = NodeOf[i] /\ c.dst \notin AddressesOf(c.from)

Good(c) == AtHome(c) /\ OverLines(c) /\ Away(c) /\ FromHome(c)
DeliveredReal == \A n \in Nodes : \A k \in DOMAIN delivered[n] : delivered[n][k].dst # Default
CopyInv == DeliveredReal /\ \A c \in Real : Good(c)

LEMMA Counts ==
    ASSUME IInv, NEW c \in Capsules
    PROVE  /\ c.from \in Nodes /\ Limit(c) \in Nat /\ Stock(c) \in Nat
           /\ \A n \in Nodes : /\ Copies(c, inbox[n]) \in Nat /\ Copies(c, Second(n)) \in Nat
                               /\ Copies(c, delivered[n]) \in Nat
           /\ \A i \in Interfaces : /\ OnLine(c, i) \in Nat /\ Due(c, i) \in Nat
                                    /\ Copies(c, Pending(i)) \in Nat
                                    /\ Copies(c, received[i]) \in Nat
<1>1. c.from \in Nodes /\ Limit(c) \in Nat
    BY DEF Capsules, Limit
<1>2. ASSUME NEW n \in Nodes
      PROVE  /\ Copies(c, inbox[n]) \in Nat /\ Copies(c, Second(n)) \in Nat
             /\ Copies(c, delivered[n]) \in Nat
    <2>1. inbox[n] \in Seq(Capsules) /\ delivered[n] \in Seq(Capsules)
        BY DEF IInv, Inboxes, Records
    <2>2. Second(n) \in Seq(Capsules)
        BY EmptyIsSeq DEF IInv, Repeats, Second
    <2> QED
        BY <2>1, <2>2, CopiesType
<1>3. ASSUME NEW i \in Interfaces
      PROVE  Copies(c, Pending(i)) \in Nat /\ Copies(c, received[i]) \in Nat
    BY PendingParts, CopiesType
<1>4. Stock(c) \in Nat
    BY <1>1, <1>2 DEF Stock
<1>5. \A i \in Interfaces : OnLine(c, i) \in Nat /\ Due(c, i) \in Nat
    BY <1>3 DEF OnLine, Due, One
<1> QED
    BY <1>1, <1>2, <1>3, <1>4, <1>5

(* The same in the next state. *)
LEMMA PendingNext ==
    ASSUME IInv', NEW i \in Interfaces
    PROVE  Pending(i)' \in Seq(Capsules) /\ received'[i] \in Seq(Capsules)
<1> DEFINE t == conns'[Remote[i]]
           h == hand'[i]
           q == outq'[i]
<1>1. t \in Seq(Connections) /\ h \in Seq(Capsules) /\ q \in Seq(Capsules)
    BY RemoteServer DEF IInv, Receivers, Senders, Outputs
<1>2. Pending(i)' = (Carried(t, i) \o h) \o q
    BY DEF Pending
<1> HIDE DEF t, h, q
<1> DEFINE a == Carried(t, i)
<1>3. a \in Seq(Capsules)
    BY <1>1, CarriedIsSeq
<1> HIDE DEF a
<1>4. a \o h \in Seq(Capsules)
    BY <1>1, <1>3, ConcatProperties
<1> DEFINE b == a \o h
<1> HIDE DEF b
<1>5. b \o q \in Seq(Capsules)
    BY <1>1, <1>4, ConcatProperties DEF b
<1>6. received'[i] \in Seq(Capsules)
    BY DEF IInv, Records
<1> QED
    BY <1>2, <1>5, <1>6 DEF a, b

LEMMA CountsNext ==
    ASSUME IInv', NEW c \in Capsules
    PROVE  /\ Limit(c)' \in Nat /\ Stock(c)' \in Nat
           /\ \A n \in Nodes : Copies(c, inbox'[n]) \in Nat /\ Copies(c, delivered'[n]) \in Nat
           /\ \A i \in Interfaces : OnLine(c, i)' \in Nat /\ Due(c, i)' \in Nat
<1>1. c.from \in Nodes /\ Limit(c)' \in Nat
    BY DEF Capsules, Limit
<1>2. ASSUME NEW n \in Nodes
      PROVE  /\ Copies(c, inbox'[n]) \in Nat /\ Copies(c, Second(n)') \in Nat
             /\ Copies(c, delivered'[n]) \in Nat
    <2>1. inbox'[n] \in Seq(Capsules) /\ delivered'[n] \in Seq(Capsules)
        BY DEF IInv, Inboxes, Records
    <2>2. Second(n)' \in Seq(Capsules)
        BY EmptyIsSeq DEF IInv, Repeats, Second
    <2> QED
        BY <2>1, <2>2, CopiesType
<1>3. ASSUME NEW i \in Interfaces
      PROVE  Copies(c, Pending(i)') \in Nat /\ Copies(c, received'[i]) \in Nat
    BY PendingNext, CopiesType
<1>4. Stock(c)' \in Nat
    BY <1>1, <1>2 DEF Stock
<1>5. \A i \in Interfaces : OnLine(c, i)' \in Nat /\ Due(c, i)' \in Nat
    BY <1>3 DEF OnLine, Due, One
<1> QED
    BY <1>1, <1>2, <1>4, <1>5

(* What each kind of change does to the copies on a line. *)
LEMMA LosesOnLine ==
    ASSUME IInv, IInv', NEW i \in Interfaces, Loses(i), NEW c \in Capsules
    PROVE  OnLine(c, i)' <= OnLine(c, i)
<1> DEFINE p == Pending(i)
           q == Pending(i)'
           r == received[i]
<1>1. /\ p \in Seq(Capsules) /\ q \in Seq(Capsules)
      /\ Line!LeftOf(q, p) /\ received'[i] = r
    BY PendingParts, PendingNext DEF Loses
<1>2. Copies(c, r) \in Nat /\ Copies(c, p) \in Nat
    BY Counts
<1>3. OnLine(c, i) = Copies(c, r) + Copies(c, p) /\ OnLine(c, i)' = Copies(c, r) + Copies(c, q)
    BY <1>1 DEF OnLine
<1> HIDE DEF p, q, r
<1>4. Copies(c, q) <= Copies(c, p) /\ Copies(c, q) \in Nat
    BY <1>1, CopiesLeft, CopiesType
<1> QED
    BY <1>2, <1>3, <1>4

LEMMA PutsOnLine ==
    ASSUME IInv, NEW i \in Interfaces, NEW e \in Capsules, Puts(i, e), NEW c \in Capsules
    PROVE  OnLine(c, i)' = OnLine(c, i) + One(e = c)
<1> DEFINE p == Pending(i)
           r == received[i]
<1>1. p \in Seq(Capsules) /\ Pending(i)' = Append(p, e) /\ received'[i] = r
    BY PendingParts DEF Puts
<1>2. Copies(c, r) \in Nat /\ Copies(c, p) \in Nat /\ One(e = c) \in Nat
    BY Counts DEF One
<1>3. OnLine(c, i) = Copies(c, r) + Copies(c, p)
      /\ OnLine(c, i)' = Copies(c, r) + Copies(c, Append(p, e))
    BY <1>1 DEF OnLine
<1> HIDE DEF p, r
<1>4. Copies(c, Append(p, e)) = Copies(c, p) + One(e = c)
    BY <1>1, CopiesAppend
<1> QED
    BY <1>2, <1>3, <1>4

LEMMA GetsOnLine ==
    ASSUME IInv, NEW i \in Interfaces, Gets(i), NEW c \in Capsules
    PROVE  OnLine(c, i)' = OnLine(c, i)
<1> DEFINE p == Pending(i)
           r == received[i]
           t == Tail(p)
           e == Head(p)
<1>1. /\ p \in Seq(Capsules) /\ r \in Seq(Capsules) /\ p # <<>>
      /\ Pending(i)' = t /\ received'[i] = Append(r, e)
    BY PendingParts DEF Gets
<1>2. Copies(c, r) \in Nat /\ Copies(c, p) \in Nat
    BY Counts
<1>3. /\ OnLine(c, i) = Copies(c, r) + Copies(c, p)
      /\ OnLine(c, i)' = Copies(c, Append(r, e)) + Copies(c, t)
    BY <1>1 DEF OnLine
<1> HIDE DEF p, r
<1>4. e \in Capsules /\ t \in Seq(Capsules)
    BY <1>1, HeadTailProperties
<1>5. Copies(c, p) = Copies(c, t) + One(e = c)
    BY <1>1, CopiesTail
<1> HIDE DEF e, t
<1>6. Copies(c, Append(r, e)) = Copies(c, r) + One(e = c)
    BY <1>1, <1>4, CopiesAppend
<1>7. One(e = c) \in Nat /\ Copies(c, t) \in Nat
    BY <1>4, CopiesType DEF One
<1> QED
    BY <1>2, <1>3, <1>5, <1>6, <1>7

LEMMA KeepsOnLine ==
    ASSUME NEW i \in Interfaces, Keeps(i), NEW c
    PROVE  OnLine(c, i)' = OnLine(c, i)
BY DEF Keeps, OnLine

-----------------------------------------------------------------------------
(* A step that makes no more copies of c than it allows for, and receives none. *)
LEMMA GoodKept ==
    ASSUME IInv, IInv', NEW c \in Capsules, Good(c), received' = received,
           Stock(c)' + Copies(c, delivered'[c.from]) + Limit(c)
              <= Stock(c) + Copies(c, delivered[c.from]) + Limit(c)',
           \A i \in InterfacesOf(c.from) :
              Stock(c)' + OnLine(c, i)' + Due(c, i)' + Limit(c)
                 <= Stock(c) + OnLine(c, i) + Due(c, i) + Limit(c)',
           \A n \in Nodes \ {c.from} :
              Copies(c, delivered'[n]) + Copies(c, inbox'[n])
                 <= Copies(c, delivered[n]) + Copies(c, inbox[n]),
           FromHome(c)'
    PROVE  Good(c)'
<1>1. /\ c.from \in Nodes /\ Limit(c) \in Nat /\ Stock(c) \in Nat
      /\ \A n \in Nodes : Copies(c, inbox[n]) \in Nat /\ Copies(c, delivered[n]) \in Nat
      /\ \A i \in Interfaces : OnLine(c, i) \in Nat /\ Due(c, i) \in Nat
    BY Counts
<1>2. /\ Limit(c)' \in Nat /\ Stock(c)' \in Nat
      /\ \A n \in Nodes : Copies(c, inbox'[n]) \in Nat /\ Copies(c, delivered'[n]) \in Nat
      /\ \A i \in Interfaces : OnLine(c, i)' \in Nat /\ Due(c, i)' \in Nat
    BY CountsNext
<1>3. AtHome(c)'
    <2>1. Stock(c) + Copies(c, delivered[c.from]) <= Limit(c)
        BY DEF Good, AtHome
    <2>2. Stock(c)' + Copies(c, delivered'[c.from]) <= Limit(c)'
        BY <1>1, <1>2, <2>1
    <2> QED
        BY <2>2 DEF AtHome
<1>4. OverLines(c)'
    <2>1. ASSUME NEW i \in InterfacesOf(c.from)
          PROVE  Stock(c)' + OnLine(c, i)' + Due(c, i)' <= Limit(c)'
        <3>1. i \in Interfaces
            BY DEF InterfacesOf
        <3>2. Stock(c) + OnLine(c, i) + Due(c, i) <= Limit(c)
            BY DEF Good, OverLines
        <3>3. OnLine(c, i) \in Nat /\ Due(c, i) \in Nat /\ OnLine(c, i)' \in Nat /\ Due(c, i)' \in Nat
            BY <1>1, <1>2, <3>1
        <3>4. Stock(c)' + OnLine(c, i)' + Due(c, i)' + Limit(c)
                 <= Stock(c) + OnLine(c, i) + Due(c, i) + Limit(c)'
            OBVIOUS
        <3> QED
            BY <1>1, <1>2, <3>2, <3>3, <3>4
    <2> QED
        BY <2>1 DEF OverLines
<1>5. Away(c)'
    <2>1. ASSUME NEW n \in Nodes \ {c.from}
          PROVE  /\ IsFiniteSet(Came(c, n)')
                 /\ Copies(c, delivered'[n]) + Copies(c, inbox'[n]) <= Cardinality(Came(c, n)')
        <3>1. Came(c, n)' = Came(c, n)
            BY DEF Came
        <3>2. /\ IsFiniteSet(Came(c, n))
              /\ Copies(c, delivered[n]) + Copies(c, inbox[n]) <= Cardinality(Came(c, n))
            BY DEF Good, Away
        <3>3. Cardinality(Came(c, n)) \in Nat
            BY <3>2, FS_CardinalityType
        <3> DEFINE m == Cardinality(Came(c, n))
        <3>4. Copies(c, delivered'[n]) + Copies(c, inbox'[n]) <= m
            <4> HIDE DEF m
            <4>1. /\ m \in Nat /\ Copies(c, delivered[n]) + Copies(c, inbox[n]) <= m
                  /\ Copies(c, delivered'[n]) + Copies(c, inbox'[n])
                        <= Copies(c, delivered[n]) + Copies(c, inbox[n])
                BY <3>2, <3>3 DEF m
            <4> QED
                BY <1>1, <1>2, <4>1
        <3> QED
            BY <3>1, <3>2, <3>4
    <2> QED
        BY <2>1 DEF Away
<1> QED
    BY <1>3, <1>4, <1>5 DEF Good

(* A step of a line on which nothing is received. *)
LEMMA LineStepGood ==
    ASSUME IInv, IInv', NEW c \in Capsules, Good(c), UNCHANGED <<nodeVars, received, injected>>,
           \A i \in Interfaces : Loses(i)
    PROVE  Good(c)'
<1>1. /\ Stock(c)' = Stock(c) /\ Limit(c)' = Limit(c)
      /\ \A i \in Interfaces : Due(c, i)' = Due(c, i) /\ OnLine(c, i)' <= OnLine(c, i)
      /\ delivered' = delivered /\ inbox' = inbox /\ received' = received
    BY LosesOnLine DEF nodeVars, Stock, Second, Limit, Due
<1>2. /\ c.from \in Nodes /\ Limit(c) \in Nat /\ Stock(c) \in Nat
      /\ \A n \in Nodes : Copies(c, inbox[n]) \in Nat /\ Copies(c, delivered[n]) \in Nat
      /\ \A i \in Interfaces : OnLine(c, i) \in Nat /\ Due(c, i) \in Nat /\ OnLine(c, i)' \in Nat
    BY Counts, CountsNext
<1>3. \A i \in InterfacesOf(c.from) :
         Stock(c)' + OnLine(c, i)' + Due(c, i)' + Limit(c)
            <= Stock(c) + OnLine(c, i) + Due(c, i) + Limit(c)'
    BY <1>1, <1>2 DEF InterfacesOf
<1>4. \A i \in Interfaces : OnLine(c, i)' > 0 => OnLine(c, i) > 0
    BY <1>1, <1>2
<1>5. Stock(c)' + Copies(c, delivered'[c.from]) + Limit(c)
         <= Stock(c) + Copies(c, delivered[c.from]) + Limit(c)'
    BY <1>1, <1>2
<1>6. \A n \in Nodes \ {c.from} :
         Copies(c, delivered'[n]) + Copies(c, inbox'[n])
            <= Copies(c, delivered[n]) + Copies(c, inbox[n])
    BY <1>1, <1>2
<1>7. FromHome(c)'
    BY <1>4 DEF Good, FromHome
<1>8. received' = received
    BY <1>1
<1> QED
    BY <1>3, <1>5, <1>6, <1>7, <1>8, GoodKept, Zenon

(* A step of a node or of its users, when nothing happens on the lines. *)
LEMMA NodeStepGood ==
    ASSUME IInv, IInv', NEW c \in Capsules, Good(c), UNCHANGED <<conns, hand, outq, received>>,
           Stock(c)' + Copies(c, delivered'[c.from]) + Limit(c)
              <= Stock(c) + Copies(c, delivered[c.from]) + Limit(c)',
           \A i \in InterfacesOf(c.from) :
              Stock(c)' + Due(c, i)' + Limit(c) <= Stock(c) + Due(c, i) + Limit(c)',
           \A n \in Nodes \ {c.from} :
              Copies(c, delivered'[n]) + Copies(c, inbox'[n])
                 <= Copies(c, delivered[n]) + Copies(c, inbox[n])
    PROVE  Good(c)'
<1>1. \A i \in Interfaces : OnLine(c, i)' = OnLine(c, i)
    BY NodeKeeps, KeepsOnLine
<1>2. /\ Limit(c) \in Nat /\ Stock(c) \in Nat /\ Limit(c)' \in Nat /\ Stock(c)' \in Nat
      /\ \A i \in Interfaces : OnLine(c, i) \in Nat /\ Due(c, i) \in Nat /\ Due(c, i)' \in Nat
    BY Counts, CountsNext
<1>3. ASSUME NEW i \in InterfacesOf(c.from)
      PROVE  Stock(c)' + OnLine(c, i)' + Due(c, i)' + Limit(c)
                <= Stock(c) + OnLine(c, i) + Due(c, i) + Limit(c)'
    <2>1. i \in Interfaces
        BY DEF InterfacesOf
    <2>2. /\ Stock(c)' + Due(c, i)' + Limit(c) <= Stock(c) + Due(c, i) + Limit(c)'
          /\ OnLine(c, i)' = OnLine(c, i) /\ OnLine(c, i) \in Nat
          /\ Due(c, i) \in Nat /\ Due(c, i)' \in Nat
        BY <1>1, <1>2, <2>1
    <2> QED
        BY <1>2, <2>2
<1>4. \A i \in Interfaces : OnLine(c, i)' > 0 => OnLine(c, i) > 0
    BY <1>1, <1>2
<1>5. received' = received
    OBVIOUS
<1>6. FromHome(c)'
    BY <1>4 DEF Good, FromHome
<1> QED
    BY <1>3, <1>5, <1>6, GoodKept, Zenon

(* A capsule goes into a queue, a capsule comes out of it. *)
LEMMA InboxAppend ==
    ASSUME IInv, NEW n \in Nodes, NEW e \in Capsules, inbox' = [inbox EXCEPT ![n] = Append(@, e)],
           NEW c \in Capsules, NEW m \in Nodes
    PROVE  Copies(c, inbox'[m]) = Copies(c, inbox[m]) + One(m = n /\ e = c)
<1>1. inbox[m] \in Seq(Capsules) /\ Copies(c, inbox[m]) \in Nat
    BY Counts DEF IInv, Inboxes
<1>2. inbox'[m] = IF m = n THEN Append(inbox[m], e) ELSE inbox[m]
    BY DEF IInv, Inboxes
<1>3. Copies(c, Append(inbox[m], e)) = Copies(c, inbox[m]) + One(e = c)
    BY <1>1, CopiesAppend
<1> QED
    BY <1>1, <1>2, <1>3 DEF One

LEMMA InboxTail ==
    ASSUME IInv, NEW n \in Nodes, inbox[n] # <<>>, inbox' = [inbox EXCEPT ![n] = Tail(@)],
           NEW c \in Capsules, NEW m \in Nodes
    PROVE  Copies(c, inbox[m]) = Copies(c, inbox'[m]) + One(m = n /\ Head(inbox[n]) = c)
<1>1. inbox[m] \in Seq(Capsules) /\ Copies(c, inbox[m]) \in Nat
    BY Counts DEF IInv, Inboxes
<1>2. inbox'[m] = IF m = n THEN Tail(inbox[m]) ELSE inbox[m]
    BY DEF IInv, Inboxes
<1>3. m = n => Copies(c, inbox[m]) = Copies(c, Tail(inbox[m])) + One(Head(inbox[m]) = c)
    BY <1>1, CopiesTail
<1> QED
    BY <1>1, <1>2, <1>3 DEF One

LEMMA DeliveredAppend ==
    ASSUME IInv, NEW n \in Nodes, NEW e \in Capsules,
           delivered' = [delivered EXCEPT ![n] = Append(@, e)],
           NEW c \in Capsules, NEW m \in Nodes
    PROVE  Copies(c, delivered'[m]) = Copies(c, delivered[m]) + One(m = n /\ e = c)
<1>1. delivered[m] \in Seq(Capsules) /\ Copies(c, delivered[m]) \in Nat
    BY Counts DEF IInv, Records
<1>2. delivered'[m] = IF m = n THEN Append(delivered[m], e) ELSE delivered[m]
    BY DEF IInv, Records
<1>3. Copies(c, Append(delivered[m], e)) = Copies(c, delivered[m]) + One(e = c)
    BY <1>1, CopiesAppend
<1> QED
    BY <1>1, <1>2, <1>3 DEF One

LEMMA DeliverGood ==
    ASSUME IInv, IInv', NEW n \in Nodes, Deliver(n), NEW c \in Capsules, Good(c)
    PROVE  Good(c)'
<1> DEFINE e == Head(inbox[n])
<1>1. /\ inbox[n] # <<>> /\ inbox' = [inbox EXCEPT ![n] = Tail(@)]
      /\ delivered' = [delivered EXCEPT ![n] = Append(@, e)]
      /\ UNCHANGED <<conns, hand, outq, received, again, cur, todo, injected>>
    BY DEF Deliver, txVars, rxVars, bounds
<1>2. e \in Capsules
    BY <1>1, HeadTailProperties DEF IInv, Inboxes
<1>3. \A m \in Nodes :
         /\ Copies(c, inbox[m]) = Copies(c, inbox'[m]) + One(m = n /\ e = c)
         /\ Copies(c, delivered'[m]) = Copies(c, delivered[m]) + One(m = n /\ e = c)
    <2> HIDE DEF e
    <2>1. ASSUME NEW m \in Nodes
          PROVE  Copies(c, inbox[m]) = Copies(c, inbox'[m]) + One(m = n /\ e = c)
        BY <1>1, InboxTail, Zenon DEF e
    <2>2. ASSUME NEW m \in Nodes
          PROVE  Copies(c, delivered'[m]) = Copies(c, delivered[m]) + One(m = n /\ e = c)
        BY <1>1, <1>2, DeliveredAppend, ZenonT(30)
    <2> QED
        BY <2>1, <2>2
<1>4. /\ c.from \in Nodes /\ Limit(c) \in Nat
      /\ \A m \in Nodes : /\ Copies(c, inbox[m]) \in Nat /\ Copies(c, delivered[m]) \in Nat
                          /\ Copies(c, Second(m)) \in Nat /\ Copies(c, inbox'[m]) \in Nat
      /\ \A i \in Interfaces : Due(c, i) \in Nat
    BY Counts, CountsNext
<1>5. /\ Limit(c)' = Limit(c) /\ Second(c.from)' = Second(c.from)
      /\ \A i \in Interfaces : Due(c, i)' = Due(c, i)
    BY <1>1 DEF Limit, Second, Due
<1>6. /\ Stock(c) = Copies(c, inbox[c.from]) + Copies(c, Second(c.from))
      /\ Stock(c)' = Copies(c, inbox'[c.from]) + Copies(c, Second(c.from))
    BY <1>5 DEF Stock
<1> HIDE DEF e
<1>7. \A b : One(b) \in {0, 1}
    BY DEF One
<1>8. Stock(c)' + Copies(c, delivered'[c.from]) + Limit(c)
         <= Stock(c) + Copies(c, delivered[c.from]) + Limit(c)'
    BY <1>3, <1>4, <1>5, <1>6, <1>7
<1>9. Stock(c) \in Nat /\ Stock(c)' \in Nat /\ Stock(c)' <= Stock(c)
    BY <1>3, <1>4, <1>6, <1>7
<1>10. \A i \in InterfacesOf(c.from) :
         Stock(c)' + Due(c, i)' + Limit(c) <= Stock(c) + Due(c, i) + Limit(c)'
    BY <1>4, <1>5, <1>9 DEF InterfacesOf
<1>11. \A m \in Nodes \ {c.from} :
         Copies(c, delivered'[m]) + Copies(c, inbox'[m])
            <= Copies(c, delivered[m]) + Copies(c, inbox[m])
    BY <1>3, <1>4, <1>7
<1> QED
    BY <1>1, <1>8, <1>10, <1>11, NodeStepGood

LEMMA CopiesOfOne ==
    ASSUME NEW e \in Capsules, NEW c
    PROVE  Copies(c, <<e>>) = One(e = c)
<1> DEFINE s == <<>>
<1>1. s \in Seq(Capsules)
    BY EmptyIsSeq
<1>2. Append(s, e) = <<e>> /\ Copies(c, s) = 0
    BY CopiesOfNone
<1> HIDE DEF s
<1>3. Copies(c, Append(s, e)) = Copies(c, s) + One(e = c)
    BY <1>1, CopiesAppend
<1> QED
    BY <1>2, <1>3 DEF One

(* A capsule is injected: it is new, or there is room for one copy more. *)
LEMMA InjectGood ==
    ASSUME IInv, IInv', NEW n \in Nodes, NEW d \in Destinations, Inject(n, d),
           NEW c \in Capsules, Good(c)
    PROVE  Good(c)'
<1> DEFINE e == [id |-> injected + 1, from |-> n, dst |-> d, twice |-> FALSE]
<1>1. /\ injected < MaxCapsules /\ injected' = injected + 1 /\ injected \in Nat
      /\ inbox' = [inbox EXCEPT ![n] = Append(@, e)]
      /\ UNCHANGED <<conns, hand, outq, received, again, cur, todo, delivered>>
    BY DEF Inject, InjectCapsule, txVars, rxVars, IInv, Records
<1>2. e \in Capsules /\ e.from = n /\ e.id = injected + 1 /\ e.twice = FALSE
    <2>1. e \in Own(n)
        BY <1>1, NewCapsule DEF IInv, TypedDst
    <2> QED
        BY <2>1, Kinds
<1> HIDE DEF e
<1>3. ASSUME NEW m \in Nodes
      PROVE  Copies(c, inbox'[m]) = Copies(c, inbox[m]) + One(m = n /\ e = c)
    <2>1. e \in Capsules /\ n \in Nodes
        BY <1>1, <1>2
    <2>2. inbox' = [inbox EXCEPT ![n] = Append(@, e)]
        BY <1>1
    <2> QED
        BY <2>1, <2>2, InboxAppend, ZenonT(30)
<1>4. /\ c.from \in Nodes /\ Limit(c) \in Nat /\ Stock(c) \in Nat
      /\ \A m \in Nodes : /\ Copies(c, inbox[m]) \in Nat /\ Copies(c, delivered[m]) \in Nat
                          /\ Copies(c, Second(m)) \in Nat
      /\ \A i \in Interfaces : Due(c, i) \in Nat
    BY Counts
<1>5. /\ Second(c.from)' = Second(c.from)
      /\ \A i \in Interfaces : Due(c, i)' = Due(c, i)
      /\ delivered' = delivered
    BY <1>1 DEF Second, Due
<1>6. Stock(c)' = Stock(c) + One(e = c)
    <2>1. Stock(c)' = Copies(c, inbox'[c.from]) + Copies(c, Second(c.from))
        BY <1>5 DEF Stock
    <2>2. Copies(c, inbox'[c.from]) = Copies(c, inbox[c.from]) + One(e = c)
        BY <1>2, <1>3, <1>4 DEF One
    <2>3. One(e = c) \in Nat
        BY DEF One
    <2> QED
        BY <1>4, <2>1, <2>2, <2>3 DEF Stock
<1>7. Limit(c) + One(e = c) <= Limit(c)' /\ Limit(c)' \in Nat
    BY <1>1, <1>2 DEF Limit, One, Capsules
<1>8. One(e = c) \in Nat
    BY DEF One
<1>9. Stock(c)' + Copies(c, delivered'[c.from]) + Limit(c)
         <= Stock(c) + Copies(c, delivered[c.from]) + Limit(c)'
    BY <1>4, <1>5, <1>6, <1>7, <1>8
<1>10. \A i \in InterfacesOf(c.from) :
         Stock(c)' + Due(c, i)' + Limit(c) <= Stock(c) + Due(c, i) + Limit(c)'
    BY <1>4, <1>5, <1>6, <1>7, <1>8 DEF InterfacesOf
<1>11. \A m \in Nodes \ {c.from} :
         Copies(c, delivered'[m]) + Copies(c, inbox'[m])
            <= Copies(c, delivered[m]) + Copies(c, inbox[m])
    BY <1>2, <1>3, <1>4, <1>5 DEF One
<1> QED
    BY <1>1, <1>9, <1>10, <1>11, NodeStepGood

(* SEND: one copy into the queue of the node, one for later. *)
LEMMA InjectTwiceGood ==
    ASSUME IInv, IInv', NEW n \in Terminals, NEW d \in TypedDst, InjectTwice(n, d),
           NEW c \in Capsules, Good(c)
    PROVE  Good(c)'
<1> DEFINE e == [id |-> injected + 1, from |-> n, dst |-> d, twice |-> TRUE]
<1>1. /\ injected + 2 <= MaxCapsules /\ injected' = injected + 2 /\ injected \in Nat
      /\ n \in Nodes /\ again[n] = <<>> /\ again' = [again EXCEPT ![n] = <<e>>]
      /\ inbox' = [inbox EXCEPT ![n] = Append(@, e)]
      /\ UNCHANGED <<conns, hand, outq, received, cur, todo, delivered>>
    BY LineAssumption DEF InjectTwice, InjectCapsule, txVars, rxVars, IInv, Records
<1>2. e \in Capsules /\ e.from = n /\ e.id = injected + 1 /\ e.twice = TRUE
    <2>1. injected < MaxCapsules
        BY <1>1, BoundsAssumption
    <2>2. e \in Own(n)
        BY <1>1, <2>1, NewCapsule DEF IInv
    <2> QED
        BY <2>2, Kinds
<1> HIDE DEF e
<1>3. ASSUME NEW m \in Nodes
      PROVE  Copies(c, inbox'[m]) = Copies(c, inbox[m]) + One(m = n /\ e = c)
    <2>1. e \in Capsules /\ n \in Nodes
        BY <1>1, <1>2
    <2>2. inbox' = [inbox EXCEPT ![n] = Append(@, e)]
        BY <1>1
    <2> QED
        BY <2>1, <2>2, InboxAppend, ZenonT(30)
<1>4. /\ c.from \in Nodes /\ Limit(c) \in Nat /\ Stock(c) \in Nat
      /\ \A m \in Nodes : /\ Copies(c, inbox[m]) \in Nat /\ Copies(c, delivered[m]) \in Nat
                          /\ Copies(c, Second(m)) \in Nat
      /\ \A i \in Interfaces : Due(c, i) \in Nat
    BY Counts
<1>5. (\A i \in Interfaces : Due(c, i)' = Due(c, i)) /\ delivered' = delivered
    BY <1>1 DEF Due
<1>6. Stock(c)' = Stock(c) + One(e = c) + One(e = c)
    <2>1. Copies(c, inbox'[c.from]) = Copies(c, inbox[c.from]) + One(e = c)
        BY <1>2, <1>3, <1>4 DEF One
    <2>2. Copies(c, Second(c.from)') = Copies(c, Second(c.from)) + One(e = c)
        <3>1. CASE c.from = n
            <4>1. Second(c.from) = <<>> /\ Second(c.from)' = <<e>>
                BY <1>1, <3>1 DEF Second, IInv, Repeats
            <4>2. Copies(c, <<>>) = 0 /\ Copies(c, <<e>>) = One(e = c)
                BY <1>2, CopiesOfNone, CopiesOfOne
            <4> QED
                BY <4>1, <4>2 DEF One
        <3>2. CASE c.from # n
            <4>1. Second(c.from)' = Second(c.from)
                BY <1>1, <3>2 DEF Second, IInv, Repeats
            <4>2. One(e = c) = 0
                BY <1>2, <3>2 DEF One
            <4> QED
                BY <1>4, <4>1, <4>2
        <3> QED
            BY <3>1, <3>2
    <2>3. One(e = c) \in Nat
        BY DEF One
    <2> QED
        BY <1>4, <2>1, <2>2, <2>3 DEF Stock
<1>7. Limit(c) + One(e = c) + One(e = c) <= Limit(c)' /\ Limit(c)' \in Nat
    BY <1>1, <1>2 DEF Limit, One, Capsules
<1>8. One(e = c) \in Nat
    BY DEF One
<1>9. Stock(c)' + Copies(c, delivered'[c.from]) + Limit(c)
         <= Stock(c) + Copies(c, delivered[c.from]) + Limit(c)'
    BY <1>4, <1>5, <1>6, <1>7, <1>8
<1>10. \A i \in InterfacesOf(c.from) :
         Stock(c)' + Due(c, i)' + Limit(c) <= Stock(c) + Due(c, i) + Limit(c)'
    BY <1>4, <1>5, <1>6, <1>7, <1>8 DEF InterfacesOf
<1>11. \A m \in Nodes \ {c.from} :
         Copies(c, delivered'[m]) + Copies(c, inbox'[m])
            <= Copies(c, delivered[m]) + Copies(c, inbox[m])
    BY <1>2, <1>3, <1>4, <1>5 DEF One
<1> QED
    BY <1>1, <1>9, <1>10, <1>11, NodeStepGood

LEMMA InjectAgainGood ==
    ASSUME IInv, IInv', NEW n \in Terminals, InjectAgain(n), NEW c \in Capsules, Good(c)
    PROVE  Good(c)'
<1> DEFINE e == again[n][1]
<1>1. /\ n \in Nodes /\ again[n] # <<>> /\ again' = [again EXCEPT ![n] = <<>>]
      /\ inbox' = [inbox EXCEPT ![n] = Append(@, e)]
      /\ UNCHANGED <<conns, hand, outq, received, cur, todo, delivered, injected>>
    BY LineAssumption DEF InjectAgain, InjectCapsule, txVars, rxVars, bounds
<1>2. e \in Capsules /\ e.from = n /\ again[n] = <<e>>
    <2>1. again[n] \in Seq(Own(n)) /\ Len(again[n]) <= 1
        BY DEF IInv, Repeats
    <2>2. e \in Own(n) /\ Len(again[n]) = 1
        <3>1. Len(again[n]) = 1
            <4> DEFINE k == Len(again[n])
            <4>1. k \in Nat /\ k # 0 /\ k <= 1
                BY <1>1, <2>1, EmptySeq, LenProperties
            <4> HIDE DEF k
            <4>2. k = 1
                BY <4>1
            <4> QED
                BY <4>2 DEF k
        <3> QED
            BY <2>1, <3>1, ElementOfSeq
    <2>3. again[n] = <<e>>
        BY <2>1, <2>2
    <2> QED
        BY <2>2, <2>3, Kinds DEF Own
<1> HIDE DEF e
<1>3. ASSUME NEW m \in Nodes
      PROVE  Copies(c, inbox'[m]) = Copies(c, inbox[m]) + One(m = n /\ e = c)
    <2>1. e \in Capsules /\ n \in Nodes
        BY <1>1, <1>2
    <2>2. inbox' = [inbox EXCEPT ![n] = Append(@, e)]
        BY <1>1
    <2> QED
        BY <2>1, <2>2, InboxAppend, ZenonT(30)
<1>4. /\ c.from \in Nodes /\ Limit(c) \in Nat /\ Stock(c) \in Nat
      /\ \A m \in Nodes : /\ Copies(c, inbox[m]) \in Nat /\ Copies(c, delivered[m]) \in Nat
                          /\ Copies(c, Second(m)) \in Nat
      /\ \A i \in Interfaces : Due(c, i) \in Nat
    BY Counts
<1>5. /\ \A i \in Interfaces : Due(c, i)' = Due(c, i)
      /\ delivered' = delivered /\ Limit(c)' = Limit(c)
    BY <1>1 DEF Due, Limit
<1>6. Stock(c)' = Stock(c)
    <2>1. Copies(c, inbox'[c.from]) = Copies(c, inbox[c.from]) + One(e = c)
        BY <1>2, <1>3, <1>4 DEF One
    <2>2. Copies(c, Second(c.from)) = Copies(c, Second(c.from)') + One(e = c)
        <3>1. CASE c.from = n
            <4>1. Second(c.from) = <<e>> /\ Second(c.from)' = <<>>
                BY <1>1, <1>2, <3>1 DEF Second, IInv, Repeats
            <4>2. Copies(c, <<>>) = 0 /\ Copies(c, <<e>>) = One(e = c)
                BY <1>2, CopiesOfNone, CopiesOfOne
            <4> QED
                BY <4>1, <4>2 DEF One
        <3>2. CASE c.from # n
            <4>1. Second(c.from)' = Second(c.from)
                BY <1>1, <3>2 DEF Second, IInv, Repeats
            <4>2. One(e = c) = 0
                BY <1>2, <3>2 DEF One
            <4> QED
                BY <1>4, <4>1, <4>2
        <3> QED
            BY <3>1, <3>2
    <2>3. One(e = c) \in Nat
        BY DEF One
    <2>4. Copies(c, Second(c.from)') \in Nat
        <3>1. Second(c.from)' \in Seq(Capsules)
            BY <1>4, EmptyIsSeq DEF IInv, Repeats, Second
        <3> QED
            BY <3>1, CopiesType
    <2> QED
        BY <1>4, <2>1, <2>2, <2>3, <2>4 DEF Stock
<1>7. Stock(c)' + Copies(c, delivered'[c.from]) + Limit(c)
         <= Stock(c) + Copies(c, delivered[c.from]) + Limit(c)'
    BY <1>4, <1>5, <1>6
<1>8. \A i \in InterfacesOf(c.from) :
         Stock(c)' + Due(c, i)' + Limit(c) <= Stock(c) + Due(c, i) + Limit(c)'
    BY <1>4, <1>5, <1>6 DEF InterfacesOf
<1>9. \A m \in Nodes \ {c.from} :
         Copies(c, delivered'[m]) + Copies(c, inbox'[m])
            <= Copies(c, delivered[m]) + Copies(c, inbox[m])
    BY <1>2, <1>3, <1>4, <1>5 DEF One
<1> QED
    BY <1>1, <1>7, <1>8, <1>9, NodeStepGood

(* A copy leaves the stock and is due on every line of the node. *)
LEMMA RouteGood ==
    ASSUME IInv, IInv', NEW n \in Nodes, Route(n), NEW c \in Capsules, Good(c)
    PROVE  Good(c)'
<1> DEFINE e == Head(inbox[n])
<1>1. /\ inbox[n] # <<>> /\ inbox' = [inbox EXCEPT ![n] = Tail(@)] /\ cur[n] = <<>>
      /\ cur' = [cur EXCEPT ![n] = IF InterfacesOf(n) = {} THEN <<>> ELSE <<e>>]
      /\ todo' = [todo EXCEPT ![n] = InterfacesOf(n)]
      /\ UNCHANGED <<conns, hand, outq, received, again, delivered, injected>>
    BY DEF Route, txVars, rxVars, bounds
<1>3. ASSUME NEW m \in Nodes
      PROVE  Copies(c, inbox[m]) = Copies(c, inbox'[m]) + One(m = n /\ e = c)
    BY <1>1, InboxTail, Zenon
<1> HIDE DEF e
<1>4. /\ c.from \in Nodes /\ Limit(c) \in Nat
      /\ \A m \in Nodes : /\ Copies(c, inbox[m]) \in Nat /\ Copies(c, delivered[m]) \in Nat
                          /\ Copies(c, Second(m)) \in Nat /\ Copies(c, inbox'[m]) \in Nat
      /\ \A i \in Interfaces : Due(c, i) \in Nat /\ Due(c, i)' \in Nat
    BY Counts, CountsNext
<1>5. Limit(c)' = Limit(c) /\ Second(c.from)' = Second(c.from) /\ delivered' = delivered
    BY <1>1 DEF Limit, Second
<1>6. \A b : One(b) \in {0, 1}
    BY DEF One
<1>7. Stock(c) = Stock(c)' + One(c.from = n /\ e = c) /\ Stock(c)' \in Nat
    <2>1. Stock(c)' = Copies(c, inbox'[c.from]) + Copies(c, Second(c.from))
        BY <1>5 DEF Stock
    <2> QED
        BY <1>3, <1>4, <1>6, <2>1 DEF Stock
<1>8. ASSUME NEW i \in InterfacesOf(c.from)
      PROVE  Due(c, i)' <= Due(c, i) + One(c.from = n /\ e = c)
    <2>1. i \in Interfaces
        BY DEF InterfacesOf
    <2>2. CASE c.from = n
        <3>1. cur'[n] = <<c>> => e = c
            BY <1>1 DEF IInv, Routing
        <3> QED
            BY <1>4, <2>1, <2>2, <3>1 DEF Due, One
    <2>3. CASE c.from # n
        <3>1. Due(c, i)' = Due(c, i)
            BY <1>1, <1>4, <2>3 DEF Due, IInv, Routing
        <3> QED
            BY <1>4, <1>6, <2>1, <3>1
    <2> QED
        BY <2>2, <2>3
<1>9. Stock(c)' + Copies(c, delivered'[c.from]) + Limit(c)
         <= Stock(c) + Copies(c, delivered[c.from]) + Limit(c)'
    BY <1>4, <1>5, <1>6, <1>7
<1>10. \A i \in InterfacesOf(c.from) :
         Stock(c)' + Due(c, i)' + Limit(c) <= Stock(c) + Due(c, i) + Limit(c)'
    BY <1>4, <1>5, <1>6, <1>7, <1>8 DEF InterfacesOf
<1>11. \A m \in Nodes \ {c.from} :
         Copies(c, delivered'[m]) + Copies(c, inbox'[m])
            <= Copies(c, delivered[m]) + Copies(c, inbox[m])
    BY <1>3, <1>4, <1>5, <1>6
<1> QED
    BY <1>1, <1>9, <1>10, <1>11, NodeStepGood

(* A copy that is due on a line is put on it, or dropped. *)
LEMMA OfferGood ==
    ASSUME Paired, IInv, IInv', NEW n \in Nodes, NEW j \in InterfacesOf(n), Offer(n, j),
           NEW c \in Real, Good(c)
    PROVE  Good(c)'
<1> DEFINE e == cur[n][1]
<1>1. /\ j \in Interfaces /\ NodeOf[j] = n /\ j \in todo[n] /\ Visited(n, j)
      /\ UNCHANGED <<inbox, again, delivered, received, injected>>
    BY DEF Offer, InterfacesOf, rxVars, bounds
<1>2. /\ cur[n] = <<e>> /\ e \in Capsules /\ (Puts(j, e) \/ Keeps(j))
      /\ \A i \in Interfaces \ {j} : Keeps(i)
    BY OfferPuts
<1>3. e \in Leaving(n)
    BY <1>2, ElementOfSeq, SingletonIsSeq DEF IInv, Routing
<1> HIDE DEF e
<1>4. c \in Capsules /\ c.dst # Default
    BY DEF Real
<1>5. e = c => c.from = n /\ c.dst \notin AddressesOf(n)
    BY <1>3, <1>4 DEF Leaving, Inside
<1>6. /\ Limit(c) \in Nat /\ Stock(c) \in Nat
      /\ \A m \in Nodes : Copies(c, inbox[m]) \in Nat /\ Copies(c, delivered[m]) \in Nat
      /\ \A i \in Interfaces : OnLine(c, i) \in Nat /\ Due(c, i) \in Nat /\ Due(c, i)' \in Nat
    BY <1>4, Counts, CountsNext
<1>7. /\ Stock(c)' = Stock(c) /\ Limit(c)' = Limit(c)
      /\ delivered' = delivered /\ inbox' = inbox /\ received' = received
    BY <1>1 DEF Stock, Second, Limit
<1>8. ASSUME NEW i \in Interfaces
      PROVE  \/ OnLine(c, i)' = OnLine(c, i)
             \/ i = j /\ e = c /\ OnLine(c, i)' = OnLine(c, i) + 1
    <2>1. CASE Keeps(i)
        <3>1. OnLine(c, i)' = OnLine(c, i)
            BY <2>1, KeepsOnLine
        <3> QED
            BY <3>1
    <2>2. CASE i = j /\ Puts(j, e)
        <3>1. OnLine(c, i)' = OnLine(c, i) + One(e = c)
            BY <1>2, <1>4, <2>2, PutsOnLine
        <3>2. One(e = c) = IF e = c THEN 1 ELSE 0
            BY DEF One
        <3> QED
            BY <1>6, <2>2, <3>1, <3>2
    <2> QED
        BY <1>2, <2>1, <2>2
<1>9. ASSUME NEW i \in InterfacesOf(c.from)
      PROVE  OnLine(c, i)' + Due(c, i)' <= OnLine(c, i) + Due(c, i)
    <2>1. i \in Interfaces /\ NodeOf[i] = c.from
        BY DEF InterfacesOf
    <2>2. CASE c.from = n
        <3>1. /\ todo'[n] = todo[n] \ {j} /\ cur'[n] \in {<<>>, cur[n]}
            BY <1>1 DEF Visited, IInv, Routing
        <3>2. CASE i = j
            <4>1. Due(c, i)' = 0 /\ (e = c => Due(c, i) = 1)
                BY <1>1, <1>2, <2>2, <3>1, <3>2 DEF Due, One
            <4> QED
                BY <1>6, <1>8, <2>1, <4>1
        <3>3. CASE i # j
            <4>1. <<c>> # <<>>
                BY <1>4, SingletonIsSeq
            <4>2. (cur'[n] = <<c>> /\ i \in todo'[n]) => (cur[n] = <<c>> /\ i \in todo[n])
                BY <3>1, <4>1
            <4>3. Due(c, i)' <= Due(c, i)
                BY <2>2, <4>2 DEF Due, One
            <4> QED
                BY <1>6, <1>8, <2>1, <3>3, <4>3
        <3> QED
            BY <3>2, <3>3
    <2>3. CASE c.from # n
        <3>1. Due(c, i)' = Due(c, i)
            BY <1>1, <2>3 DEF Due, Visited, IInv, Routing
        <3> QED
            BY <1>1, <1>6, <1>8, <2>1, <2>3, <3>1
    <2> QED
        BY <2>2, <2>3
<1>10. \A i \in InterfacesOf(c.from) :
          Stock(c)' + OnLine(c, i)' + Due(c, i)' + Limit(c)
             <= Stock(c) + OnLine(c, i) + Due(c, i) + Limit(c)'
    <2> TAKE i \in InterfacesOf(c.from)
    <2>1. i \in Interfaces /\ OnLine(c, i)' \in Nat
        BY <1>4, CountsNext DEF InterfacesOf
    <2> QED
        BY <1>6, <1>7, <1>9, <2>1
<1>11. Stock(c)' + Copies(c, delivered'[c.from]) + Limit(c)
          <= Stock(c) + Copies(c, delivered[c.from]) + Limit(c)'
    <2>1. c.from \in Nodes
        BY <1>4, Counts
    <2> QED
        BY <1>6, <1>7, <2>1
<1>12. \A m \in Nodes \ {c.from} :
         Copies(c, delivered'[m]) + Copies(c, inbox'[m])
            <= Copies(c, delivered[m]) + Copies(c, inbox[m])
    BY <1>6, <1>7
<1>13. FromHome(c)'
    BY <1>1, <1>5, <1>6, <1>8 DEF Good, FromHome
<1> QED
    BY <1>4, <1>7, <1>10, <1>11, <1>12, <1>13, GoodKept, Zenon

(* What a node that dies had in its queues is gone. *)
LEMMA DiesGood ==
    ASSUME IInv, IInv', NEW n \in Nodes, Dies(n), NEW c \in Capsules, Good(c)
    PROVE  Good(c)'
<1>1. /\ inbox' = [inbox EXCEPT ![n] = <<>>]
      /\ again' = [m \in Terminals |-> IF m = n THEN <<>> ELSE again[m]]
      /\ cur' = [cur EXCEPT ![n] = <<>>] /\ todo' = [todo EXCEPT ![n] = {}]
      /\ delivered' = delivered /\ received' = received /\ injected' = injected
    BY DEF Dies
<1>2. /\ c.from \in Nodes /\ Limit(c) \in Nat
      /\ \A m \in Nodes : /\ Copies(c, inbox[m]) \in Nat /\ Copies(c, delivered[m]) \in Nat
                          /\ Copies(c, Second(m)) \in Nat
      /\ \A i \in Interfaces : /\ OnLine(c, i) \in Nat /\ Due(c, i) \in Nat
                               /\ OnLine(c, i)' \in Nat /\ Due(c, i)' \in Nat
    BY Counts, CountsNext
<1>3. \A m \in Nodes : inbox'[m] = IF m = n THEN <<>> ELSE inbox[m]
    BY <1>1 DEF IInv, Inboxes
<1>4. \A m \in Nodes : Copies(c, inbox'[m]) \in Nat /\ Copies(c, inbox'[m]) <= Copies(c, inbox[m])
    BY <1>2, <1>3, CopiesOfNone
<1>5. Second(c.from)' = (IF c.from = n THEN <<>> ELSE Second(c.from))
    BY <1>1 DEF Second
<1>6. Copies(c, Second(c.from)') \in Nat /\ Copies(c, Second(c.from)') <= Copies(c, Second(c.from))
    BY <1>2, <1>5, CopiesOfNone
<1>7. Stock(c)' <= Stock(c) /\ Stock(c)' \in Nat /\ Stock(c) \in Nat
    BY <1>2, <1>4, <1>6 DEF Stock
<1>8. Limit(c)' = Limit(c)
    BY <1>1 DEF Limit
<1>9. \A i \in Interfaces : Due(c, i)' <= Due(c, i)
    <2>1. c.from = n => todo'[c.from] = {}
        BY <1>1 DEF IInv, Routing
    <2>2. c.from # n => cur'[c.from] = cur[c.from] /\ todo'[c.from] = todo[c.from]
        BY <1>1, <1>2 DEF IInv, Routing
    <2> QED
        BY <2>1, <2>2 DEF Due, One
<1>10. \A i \in Interfaces : OnLine(c, i)' <= OnLine(c, i)
    BY DiesLoses, LosesOnLine
<1>11. Stock(c)' + Copies(c, delivered'[c.from]) + Limit(c)
         <= Stock(c) + Copies(c, delivered[c.from]) + Limit(c)'
    BY <1>1, <1>2, <1>7, <1>8
<1>12. \A i \in InterfacesOf(c.from) :
          Stock(c)' + OnLine(c, i)' + Due(c, i)' + Limit(c)
             <= Stock(c) + OnLine(c, i) + Due(c, i) + Limit(c)'
    BY <1>2, <1>7, <1>8, <1>9, <1>10 DEF InterfacesOf
<1>13. \A m \in Nodes \ {c.from} :
         Copies(c, delivered'[m]) + Copies(c, inbox'[m])
            <= Copies(c, delivered[m]) + Copies(c, inbox[m])
    BY <1>1, <1>2, <1>4
<1>14. FromHome(c)'
    BY <1>2, <1>10 DEF Good, FromHome
<1> QED
    BY <1>1, <1>11, <1>12, <1>13, <1>14, GoodKept, Zenon

-----------------------------------------------------------------------------
(* A capsule arrives. *)
LEMMA CameNext ==
    ASSUME IInv, IInv', NEW o \in Interfaces, NEW h \in Capsules,
           received'[o] = Append(received[o], h),
           \A i \in Interfaces \ {o} : received'[i] = received[i],
           NEW c \in Capsules, NEW n \in Nodes
    PROVE  /\ <<o, Len(received[o]) + 1>> \notin Came(c, n)
           /\ Came(c, n)' = IF NodeOf[Remote[o]] = n /\ h = c
                            THEN Came(c, n) \cup {<<o, Len(received[o]) + 1>>} ELSE Came(c, n)
<1> DEFINE l == Len(received[o])
           r == received'[o]
<1>1. l \in Nat /\ DOMAIN received[o] = 1 .. l /\ received[o] \in Seq(Capsules)
    BY LenProperties DEF IInv, Records
<1>2. /\ r \in Seq(Capsules) /\ Len(r) = l + 1 /\ r[l + 1] = h
      /\ \A k \in 1 .. l : r[k] = received[o][k]
    BY <1>1, AppendProperties
<1>3. DOMAIN r = 1 .. l + 1
    BY <1>2, LenProperties
<1> HIDE DEF l, r
<1>4. <<o, l + 1>> \notin Came(c, n)
    BY <1>1 DEF Came
<1>5. ASSUME NEW i \in Interfaces, NEW k \in Nat
      PROVE  <<i, k>> \in Came(c, n)' <=>
                \/ <<i, k>> \in Came(c, n)
                \/ NodeOf[Remote[o]] = n /\ h = c /\ i = o /\ k = l + 1
    <2>1. <<i, k>> \in Came(c, n)' <=>
             NodeOf[Remote[i]] = n /\ k \in DOMAIN received'[i] /\ received'[i][k] = c
        BY DEF Came
    <2>2. <<i, k>> \in Came(c, n) <=>
             NodeOf[Remote[i]] = n /\ k \in DOMAIN received[i] /\ received[i][k] = c
        BY DEF Came
    <2>3. CASE i # o
        BY <2>1, <2>2, <2>3
    <2>4. CASE i = o
        <3>1. k \in 1 .. l + 1 <=> k \in 1 .. l \/ k = l + 1
            BY <1>1
        <3>2. <<i, k>> \in Came(c, n)' <=>
                NodeOf[Remote[o]] = n /\ k \in 1 .. l + 1 /\ r[k] = c
            BY <1>3, <2>1, <2>4 DEF r
        <3>3. <<i, k>> \in Came(c, n) <=>
                NodeOf[Remote[o]] = n /\ k \in 1 .. l /\ received[o][k] = c
            BY <1>1, <2>2, <2>4
        <3> QED
            BY <1>1, <1>2, <2>4, <3>1, <3>2, <3>3
    <2> QED
        BY <2>3, <2>4
<1>6. Came(c, n) \subseteq Interfaces \X Nat /\ Came(c, n)' \subseteq Interfaces \X Nat
    BY DEF Came
<1>7. <<o, l + 1>> \in Interfaces \X Nat
    BY <1>1
<1>8. CASE NodeOf[Remote[o]] = n /\ h = c
    <2> DEFINE A == Came(c, n)
               B == Came(c, n)'
    <2>1. \A i \in Interfaces, k \in Nat :
             <<i, k>> \in B <=> <<i, k>> \in A \cup {<<o, l + 1>>}
        BY <1>5, <1>8
    <2> HIDE DEF A, B
    <2>2. B = A \cup {<<o, l + 1>>}
        BY <1>6, <1>7, <2>1 DEF A, B
    <2> QED
        BY <1>4, <1>8, <2>2 DEF A, B, l
<1>9. CASE ~ (NodeOf[Remote[o]] = n /\ h = c)
    <2> DEFINE A == Came(c, n)
               B == Came(c, n)'
    <2>1. \A i \in Interfaces, k \in Nat : <<i, k>> \in B <=> <<i, k>> \in A
        BY <1>5, <1>9
    <2>2. A \subseteq Interfaces \X Nat /\ B \subseteq Interfaces \X Nat
        BY <1>6
    <2> HIDE DEF A, B
    <2>3. ASSUME NEW x \in Interfaces \X Nat
          PROVE  x \in B <=> x \in A
        BY <2>1
    <2>4. B = A
        BY <2>2, <2>3
    <2> QED
        BY <1>4, <1>9, <2>4 DEF A, B, l
<1> QED
    BY <1>8, <1>9

(* The capsule a receiver takes in is not from the node it takes it into. *)
LEMMA ExecuteArrives ==
    ASSUME Paired, IInv, NEW j \in Interfaces, Execute(j),
           NEW o \in Interfaces, o = conns[j][1].from, NEW c \in Real, Good(c)
    PROVE  /\ Remote[o] = j /\ Head(Pending(o)) \in Capsules
           /\ Head(Pending(o)) = c => c.from # NodeOf[j]
<1>1. /\ Remote[o] = j /\ Gets(o) /\ Head(Pending(o)) = conns[j][1].data[1]
    BY ExecuteGets
<1>2. conns[j] # <<>> /\ rx[j] = "run" /\ conns[j][1].data # <<>>
    BY DEF Execute, IInv, Receivers
<1>3. conns[j][1] \in Links(j)
    BY <1>2, Served DEF IInv
<1>4. conns[j][1].data \in Seq(Crossing(o))
    BY <1>3 DEF Links
<1> DEFINE h == Head(Pending(o))
<1>5. h \in Crossing(o)
    <2> DEFINE d == conns[j][1].data
    <2>1. d \in Seq(Crossing(o)) /\ d # <<>> /\ h = d[1]
        BY <1>1, <1>2, <1>4
    <2> HIDE DEF d, h
    <2>2. Len(d) \in Nat \ {0}
        BY <2>1, EmptySeq, LenProperties
    <2>3. 1 \in 1 .. Len(d)
        BY <2>2
    <2> QED
        BY <2>1, <2>3, ElementOfSeq
<1>6. ASSUME h = c
      PROVE  c.from # NodeOf[j]
    <2>1. c \in Capsules /\ c.dst # Default
        BY DEF Real
    <2>2. c.dst \in AddressesOf(NodeOf[j])
        BY <1>1, <1>5, <1>6, <2>1 DEF Crossing
    <2>3. Pending(o) # <<>> /\ Pending(o) \in Seq(Capsules)
        BY <1>1, PendingParts DEF Gets
    <2> DEFINE p == Pending(o)
    <2> HIDE DEF p
    <2>4. Copies(c, p) = Copies(c, Tail(p)) + One(Head(p) = c)
        BY <2>3, CopiesTail DEF p
    <2>5. Tail(p) \in Seq(Capsules)
        BY <2>3, HeadTailProperties DEF p
    <2>6. Copies(c, Tail(p)) \in Nat
        BY <2>5, CopiesType
    <2>7. Copies(c, p) > 0
        BY <1>6, <2>4, <2>6 DEF One, p
    <2>8. Copies(c, received[o]) \in Nat
        BY <2>1, Counts
    <2>9. Copies(c, received[o]) + Copies(c, p) > 0
        BY <2>4, <2>6, <2>7, <2>8 DEF One
    <2>10. OnLine(c, o) > 0
        BY <2>9 DEF OnLine, p
    <2>11. c.dst \notin AddressesOf(c.from)
        BY <2>10 DEF Good, FromHome
    <2> QED
        BY <2>2, <2>11
<1> QED
    BY <1>1, <1>5, <1>6, Kinds

LEMMA ExecuteGood ==
    ASSUME Paired, IInv, IInv', NEW j \in Interfaces, Execute(j), NEW c \in Real, Good(c)
    PROVE  Good(c)'
<1>1. conns[j][1].from \in Interfaces
    BY ServedConn DEF Execute
<1>2. PICK o \in Interfaces : o = conns[j][1].from
    BY <1>1
<1> DEFINE h == Head(Pending(o))
           n == NodeOf[j]
<1>3. /\ Remote[o] = j /\ Gets(o) /\ inbox' = [inbox EXCEPT ![n] = Append(@, h)]
      /\ \A i \in Interfaces \ {o} : Keeps(i)
    BY <1>2, ExecuteGets
<1>4. h \in Capsules /\ (h = c => c.from # n)
    BY <1>2, ExecuteArrives
<1>5. c \in Capsules /\ n \in Nodes
    BY LineAssumption DEF Real
<1>6. UNCHANGED <<again, cur, todo, delivered, injected>>
    BY DEF Execute, bounds
<1>7. /\ received'[o] = Append(received[o], h)
      /\ \A i \in Interfaces \ {o} : received'[i] = received[i]
    BY <1>3 DEF Gets, Keeps
<1>8. \A i \in Interfaces : OnLine(c, i)' = OnLine(c, i)
    BY <1>3, <1>5, GetsOnLine, KeepsOnLine
<1> HIDE DEF h, n
<1>9. ASSUME NEW m \in Nodes
      PROVE  Copies(c, inbox'[m]) = Copies(c, inbox[m]) + One(m = n /\ h = c)
    BY <1>3, <1>4, <1>5, InboxAppend, ZenonT(30)
<1>10. /\ c.from \in Nodes
       /\ \A m \in Nodes : Copies(c, inbox[m]) \in Nat /\ Copies(c, delivered[m]) \in Nat
    BY <1>5, Counts
<1>11. Copies(c, inbox'[c.from]) = Copies(c, inbox[c.from])
    <2>1. One(c.from = n /\ h = c) = 0
        BY <1>4 DEF One
    <2> QED
        BY <1>9, <1>10, <2>1
<1>12. /\ Stock(c)' = Stock(c) /\ Limit(c)' = Limit(c)
       /\ \A i \in Interfaces : Due(c, i)' = Due(c, i)
    BY <1>6, <1>11 DEF Stock, Second, Limit, Due
<1>13. AtHome(c)'
    BY <1>6, <1>12 DEF Good, AtHome
<1>14. OverLines(c)'
    BY <1>8, <1>12 DEF Good, OverLines, InterfacesOf
<1>15. FromHome(c)'
    BY <1>8 DEF Good, FromHome
<1>16. ASSUME NEW m \in Nodes \ {c.from}
       PROVE  /\ IsFiniteSet(Came(c, m)')
              /\ Copies(c, delivered'[m]) + Copies(c, inbox'[m]) <= Cardinality(Came(c, m)')
    <2> DEFINE A == Came(c, m)
               B == Came(c, m)'
               x == <<o, Len(received[o]) + 1>>
               d == Copies(c, delivered[m])
               b == Copies(c, inbox[m])
    <2>1. /\ IsFiniteSet(A) /\ d + b <= Cardinality(A)
        BY DEF Good, Away
    <2>2. x \notin A /\ B = IF m = n /\ h = c THEN A \cup {x} ELSE A
        BY <1>3, <1>4, <1>5, <1>7, CameNext DEF n
    <2>3. /\ d \in Nat /\ b \in Nat /\ Copies(c, delivered'[m]) = d
          /\ Copies(c, inbox'[m]) = b + One(m = n /\ h = c)
        BY <1>6, <1>9, <1>10
    <2> HIDE DEF A, B, x, d, b
    <2>4. /\ IsFiniteSet(A \cup {x})
          /\ Cardinality(A \cup {x}) = IF x \in A THEN Cardinality(A) ELSE Cardinality(A) + 1
        BY <2>1, FS_AddElement
    <2>5. Cardinality(A) \in Nat
        BY <2>1, FS_CardinalityType
    <2>6. /\ IsFiniteSet(B) /\ Cardinality(B) = Cardinality(A) + One(m = n /\ h = c)
          /\ One(m = n /\ h = c) \in Nat
        BY <2>1, <2>2, <2>4, <2>5 DEF One
    <2>7. d + (b + One(m = n /\ h = c)) <= Cardinality(B)
        BY <2>1, <2>3, <2>5, <2>6
    <2> QED
        BY <2>3, <2>6, <2>7 DEF B
<1>17. Away(c)'
    BY <1>16 DEF Away
<1> QED
    BY <1>13, <1>14, <1>15, <1>17 DEF Good

-----------------------------------------------------------------------------
LEMMA InitCopyInv == Init => CopyInv
<1> SUFFICES ASSUME Init PROVE CopyInv
    OBVIOUS
<1>1. IInv /\ Line!Init
    BY InitIInv, InitLine
<1>2. DeliveredReal
    BY EmptySeq DEF Init, DeliveredReal
<1>3. ASSUME NEW c \in Real
      PROVE  Good(c)
    <2>1. c \in Capsules /\ c.from \in Nodes /\ Limit(c) \in Nat
        BY <1>1, Counts DEF Real
    <2>2. ASSUME NEW n \in Nodes
          PROVE  Copies(c, inbox[n]) = 0 /\ Copies(c, Second(n)) = 0 /\ Copies(c, delivered[n]) = 0
        <3>1. inbox[n] = <<>> /\ Second(n) = <<>> /\ delivered[n] = <<>>
            BY DEF Init, Second
        <3> QED
            BY <3>1, CopiesOfNone
    <2>3. ASSUME NEW i \in Interfaces
          PROVE  OnLine(c, i) = 0 /\ Due(c, i) = 0
        <3>1. received[i] = <<>> /\ Pending(i) = <<>>
            BY <1>1 DEF Line!Init, Init
        <3>2. OnLine(c, i) = 0
            BY <3>1, CopiesOfNone DEF OnLine
        <3>3. todo[c.from] = {}
            BY <2>1 DEF Init
        <3> QED
            BY <3>2, <3>3 DEF Due, One
    <2>4. Stock(c) = 0
        BY <2>1, <2>2 DEF Stock
    <2>5. AtHome(c) /\ OverLines(c) /\ FromHome(c)
        BY <2>1, <2>2, <2>3, <2>4 DEF AtHome, OverLines, FromHome, InterfacesOf
    <2>6. ASSUME NEW n \in Nodes
          PROVE  Came(c, n) = {}
        BY EmptySeq DEF Init, Came
    <2>7. Away(c)
        BY <2>2, <2>6, FS_EmptySet DEF Away
    <2> QED
        BY <2>5, <2>7 DEF Good
<1> QED
    BY <1>2, <1>3 DEF CopyInv

(* Nobody has the default address: what is delivered has a real destination. *)
LEMMA DeliveredRealNext == IInv /\ DeliveredReal /\ [Next]_vars => DeliveredReal'
<1> SUFFICES ASSUME IInv, DeliveredReal, [Next]_vars PROVE DeliveredReal'
    OBVIOUS
<1>1. ASSUME NEW n \in Nodes, Deliver(n)
      PROVE  DeliveredReal'
    <2> DEFINE s == delivered[n]
               e == Head(inbox[n])
    <2>1. delivered' = [delivered EXCEPT ![n] = Append(s, e)] /\ s \in Seq(Capsules)
        BY <1>1 DEF Deliver, IInv, Records
    <2>2. e.dst # Default /\ e \in Capsules
        <3>1. e.dst \in AddressesOf(n) /\ inbox[n] # <<>> /\ inbox[n] \in Seq(Capsules)
            BY <1>1 DEF Deliver, IInv, Inboxes
        <3> QED
            BY <3>1, HeadTailProperties, LineAssumption DEF AddressesOf, InterfacesOf
    <2>3. \A k \in DOMAIN s : s[k].dst # Default
        BY DEF DeliveredReal
    <2>4. \A m \in Nodes : delivered'[m] = IF m = n THEN Append(s, e) ELSE delivered[m]
        BY <2>1 DEF IInv, Records
    <2> HIDE DEF s, e
    <2>5. \A k \in DOMAIN Append(s, e) : Append(s, e)[k].dst # Default
        BY <2>1, <2>2, <2>3, AppendProperties, LenProperties
    <2> QED
        BY <2>4, <2>5 DEF DeliveredReal
<1>2. CASE UNCHANGED delivered
    BY <1>2 DEF DeliveredReal
<1>3. CASE UNCHANGED vars
    BY <1>2, <1>3 DEF vars
<1>4. ASSUME NEW i \in Interfaces, Sender(i) \/ Receiver(i) \/ Break(i)
      PROVE  DeliveredReal'
    BY <1>2, <1>4 DEF Sender, Open, Pop, AliveFails, Send, SendFails, Receiver, Accept,
        FirstMessage, FirstFails, Execute, RunEnds, Crash, Dies, Break, nodeVars
<1>5. ASSUME NEW n \in Nodes, Loop(n) \/ Restart(n)
      PROVE  DeliveredReal'
    BY <1>1, <1>2, <1>5 DEF Loop, Route, Offer, Restart, Dies
<1>6. ASSUME NEW n \in Terminals, Terminal(n)
      PROVE  DeliveredReal'
    BY <1>2, <1>6 DEF Terminal, SendTyped, SendMsg, InjectTwice, InjectAgain
<1>7. ASSUME NEW n \in Nodes, NEW d \in Destinations, Inject(n, d)
      PROVE  DeliveredReal'
    BY <1>2, <1>7 DEF Inject
<1> QED
    BY <1>3, <1>4, <1>5, <1>6, <1>7 DEF Next

(* A step of a sender or a receiver, or a fault on a line, takes no copy in *)
(* unless the receiver executes a message.                                  *)
LEMMA LinesGood ==
    ASSUME IInv, IInv', LineInv, NEW o \in Interfaces, NEW c \in Capsules, Good(c),
           \/ Sender(o) \/ Break(o)
           \/ Accept(o) \/ FirstMessage(o) \/ FirstFails(o) \/ RunEnds(o)
    PROVE  Good(c)'
<1>1. UNCHANGED <<nodeVars, received, injected>>
    BY DEF Sender, Open, Pop, AliveFails, Send, SendFails, Accept, FirstMessage, FirstFails,
        RunEnds, Break, rxVars, bounds
<1>2. ASSUME NEW i \in Interfaces
      PROVE  Loses(i)
    <2>1. CASE Open(o) \/ Pop(o)
        BY <2>1, OpenKeeps, PopKeeps, KeepingLoses
    <2>2. CASE AliveFails(o)
        <3>1. UNCHANGED <<conns, hand, outq, received>>
            BY <2>2 DEF AliveFails, rxVars
        <3> QED
            BY <3>1, NodeKeeps, KeepingLoses
    <2>3. CASE Send(o) \/ SendFails(o)
        BY <2>3, SendLoses, SendFailsLoses
    <2>4. CASE Break(o)
        BY <2>4, BreakLoses
    <2>5. CASE Accept(o) \/ FirstMessage(o) \/ FirstFails(o) \/ RunEnds(o)
        BY <2>5, ReceiverKeeps, KeepingLoses
    <2> QED
        BY <2>1, <2>2, <2>3, <2>4, <2>5 DEF Sender
<1> QED
    BY <1>1, <1>2, LineStepGood

LEMMA NextCopyInv ==
    ASSUME Paired
    PROVE  IInv /\ LineInv /\ CopyInv /\ [Next]_vars => CopyInv'
<1> SUFFICES ASSUME IInv, LineInv, CopyInv, [Next]_vars PROVE CopyInv'
    OBVIOUS
<1>1. IInv' /\ DeliveredReal'
    BY NextIInv, DeliveredRealNext DEF CopyInv
<1>2. ASSUME NEW c \in Real
      PROVE  Good(c)'
    <2>1. c \in Capsules /\ Good(c)
        BY DEF CopyInv, Real
    <2>2. ASSUME NEW i \in Interfaces, Sender(i) \/ Receiver(i) \/ Break(i)
          PROVE  Good(c)'
        <3>1. CASE Crash(i)
            <4>1. NodeOf[i] \in Nodes /\ Dies(NodeOf[i])
                BY <3>1, LineAssumption DEF Crash
            <4> QED
                BY <1>1, <2>1, <4>1, DiesGood
        <3> QED
            BY <1>1, <2>1, <2>2, <3>1, LinesGood, ExecuteGood, Paired DEF Receiver
    <2>3. ASSUME NEW n \in Nodes, Loop(n) \/ Restart(n)
          PROVE  Good(c)'
        BY <1>1, <2>1, <2>3, DeliverGood, RouteGood, OfferGood, DiesGood, Paired
            DEF Loop, Restart
    <2>4. ASSUME NEW n \in Terminals, Terminal(n)
          PROVE  Good(c)'
        BY <1>1, <2>1, <2>4, InjectTwiceGood, InjectAgainGood
            DEF Terminal, SendTyped, SendMsg, TypedDst
    <2>5. ASSUME NEW n \in Nodes, NEW d \in Destinations, Inject(n, d)
          PROVE  Good(c)'
        BY <1>1, <2>1, <2>5, InjectGood
    <2>6. CASE UNCHANGED vars
        <3>1. UNCHANGED <<nodeVars, received, injected>> /\ UNCHANGED <<conns, hand, outq, received>>
            BY <2>6 DEF vars, nodeVars
        <3>2. \A i \in Interfaces : Loses(i)
            BY <3>1, NodeKeeps, KeepingLoses
        <3> QED
            BY <1>1, <2>1, <3>1, <3>2, LineStepGood
    <2> QED
        BY <2>2, <2>3, <2>4, <2>5, <2>6 DEF Next
<1> QED
    BY <1>1, <1>2 DEF CopyInv

LEMMA InductiveCopies ==
    ASSUME Paired
    PROVE  Spec => []CopyInv
<1>1. Init => CopyInv
    BY InitCopyInv
<1>2. IInv /\ LineInv /\ CopyInv /\ [Next]_vars => CopyInv'
    BY NextCopyInv, Paired
<1> QED
    BY <1>1, <1>2, Inductive, InductiveLines, PTL DEF Spec

-----------------------------------------------------------------------------
(* How often a terminal or an application injects a capsule. *)
Times(c) == IF c.twice THEN 2 ELSE 1

(* The copies of one line that came, by whether one came before. *)
LEMMA CameOverLines ==
    ASSUME IInv, NEW c \in Capsules, Good(c), NEW n \in Nodes \ {c.from}
    PROVE  /\ Cardinality(LinesBetween(c.from, n)) \in Nat
           /\ Cardinality(Came(c, n)) <= Times(c) * Cardinality(LinesBetween(c.from, n))
<1> DEFINE L == LinesBetween(c.from, n)
           A == Came(c, n)
           Before(x) == \E m \in DOMAIN received[x[1]] : m < x[2] /\ received[x[1]][m] = c
           tag == [x \in A |-> <<x[1], IF Before(x) THEN 2 ELSE 1>>]
<1>1. IsFiniteSet(L) /\ Cardinality(L) \in Nat
    <2>1. L \in SUBSET Interfaces
        BY DEF LinesBetween
    <2> QED
        BY <2>1, FinitelyManyInterfaces, FS_Subset, FS_CardinalityType
<1>2. Times(c) \in {1, 2} /\ (Times(c) = 1 \/ Times(c) = 2)
    BY DEF Times
<1>3. IsFiniteSet(1 .. Times(c)) /\ Cardinality(1 .. Times(c)) = Times(c)
    BY <1>2, FS_Interval
<1>4. ASSUME NEW x \in A
      PROVE  /\ x[1] \in L /\ x[2] \in Places(c, received[x[1]]) /\ x = <<x[1], x[2]>>
             /\ x[2] \in Nat /\ Copies(c, received[x[1]]) <= Times(c)
    <2>1. /\ x \in Interfaces \X Nat /\ NodeOf[Remote[x[1]]] = n
          /\ x[2] \in DOMAIN received[x[1]] /\ received[x[1]][x[2]] = c
        BY DEF Came
    <2>2. PICK i \in Interfaces : i = x[1]
        BY <2>1
    <2>3. /\ received[i] \in Seq(Capsules) /\ Copies(c, received[i]) \in Nat
          /\ Copies(c, Pending(i)) \in Nat /\ Due(c, i) \in Nat
          /\ Stock(c) \in Nat /\ Limit(c) \in Nat
        BY Counts, PendingParts
    <2>4. Copies(c, received[i]) > 0
        BY <2>1, <2>2, <2>3, CopiesPositive
    <2>5. OnLine(c, i) > 0 /\ OnLine(c, i) >= Copies(c, received[i]) /\ OnLine(c, i) \in Nat
        BY <2>3, <2>4 DEF OnLine
    <2>6. c.from = NodeOf[i]
        BY <2>5 DEF Good, FromHome
    <2>7. Stock(c) + OnLine(c, i) + Due(c, i) <= Limit(c)
        BY <2>6 DEF Good, OverLines, InterfacesOf
    <2>8. Limit(c) <= Times(c)
        BY DEF Limit, Times
    <2>9. Copies(c, received[i]) <= Times(c)
        BY <1>2, <2>3, <2>5, <2>7, <2>8
    <2> QED
        BY <2>1, <2>2, <2>6, <2>9 DEF LinesBetween, Places
<1>5. ASSUME NEW x \in A, Before(x)
      PROVE  \E m \in Places(c, received[x[1]]) : m < x[2] /\ m \in Nat
    <2>1. PICK m \in DOMAIN received[x[1]] : m < x[2] /\ received[x[1]][m] = c
        BY <1>5
    <2>2. x[1] \in Interfaces
        BY <1>4 DEF LinesBetween
    <2>3. received[x[1]] \in Seq(Capsules)
        BY <2>2 DEF IInv, Records
    <2>4. m \in Nat
        BY <2>3, LenProperties
    <2> QED
        BY <2>1, <2>4 DEF Places
<1>6. ASSUME NEW x \in A
      PROVE  tag[x] \in L \X (1 .. Times(c))
    <2>1. CASE ~ Before(x)
        <3>1. tag[x] = <<x[1], 1>>
            BY <2>1
        <3> QED
            BY <1>2, <1>4, <3>1
    <2>2. CASE Before(x)
        <3>1. tag[x] = <<x[1], 2>>
            BY <2>2
        <3>2. PICK m \in Places(c, received[x[1]]) : m < x[2] /\ m \in Nat
            BY <1>5, <2>2
        <3>3. x[2] \in Places(c, received[x[1]]) /\ m # x[2] /\ x[1] \in Interfaces
            BY <1>4, <3>2 DEF LinesBetween
        <3>4. received[x[1]] \in Seq(Capsules)
            BY <3>3 DEF IInv, Records
        <3>5. Copies(c, received[x[1]]) >= 2 /\ Copies(c, received[x[1]]) \in Nat
            BY <3>2, <3>3, <3>4, TwoPlaces, CopiesType
        <3>6. Times(c) = 2
            BY <1>2, <1>4, <3>5
        <3> QED
            BY <1>4, <3>1, <3>6
    <2> QED
        BY <2>1, <2>2
<1>7. ASSUME NEW x \in A, NEW y \in A, x[1] = y[1], x[2] < y[2]
      PROVE  tag[x] # tag[y]
    <2>1. x[2] \in Places(c, received[y[1]]) /\ y[2] \in Places(c, received[y[1]])
          /\ x[2] \in Nat /\ y[2] \in Nat /\ y[1] \in Interfaces
        BY <1>4, <1>7 DEF LinesBetween
    <2>2. Before(y)
        BY <1>7, <2>1 DEF Places
    <2>3. tag[y] = <<y[1], 2>>
        BY <2>2
    <2>4. CASE ~ Before(x)
        <3>1. tag[x] = <<x[1], 1>>
            BY <2>4
        <3> QED
            BY <2>3, <3>1
    <2>5. CASE Before(x)
        <3>1. PICK m \in Places(c, received[x[1]]) : m < x[2] /\ m \in Nat
            BY <1>5, <2>5
        <3>2. m # x[2] /\ m # y[2] /\ x[2] # y[2] /\ m \in Places(c, received[y[1]])
            BY <1>7, <2>1, <3>1
        <3>3. received[y[1]] \in Seq(Capsules)
            BY <2>1 DEF IInv, Records
        <3>4. Copies(c, received[y[1]]) >= 3
            BY <2>1, <3>2, <3>3, TwoPlaces
        <3>5. Copies(c, received[y[1]]) \in Nat /\ Copies(c, received[y[1]]) <= Times(c)
            BY <1>4, <3>3, CopiesType
        <3> QED
            BY <1>2, <3>4, <3>5
    <2> QED
        BY <2>4, <2>5
<1>8. ASSUME NEW x \in A, NEW y \in A, tag[x] = tag[y]
      PROVE  x = y
    <2>1. /\ x = <<x[1], x[2]>> /\ y = <<y[1], y[2]>> /\ x[2] \in Nat /\ y[2] \in Nat
        BY <1>4
    <2>2. x[1] = y[1]
        <3>1. tag[x][1] = x[1] /\ tag[y][1] = y[1]
            OBVIOUS
        <3> QED
            BY <1>8, <3>1
    <2>3. ~(x[2] < y[2]) /\ ~(y[2] < x[2])
        BY <1>7, <1>8, <2>2
    <2>4. x[2] = y[2]
        BY <2>1, <2>3
    <2> QED
        BY <2>1, <2>2, <2>4
<1>9. DOMAIN tag = A /\ tag \in [A -> L \X (1 .. Times(c))]
    BY <1>6
<1> HIDE DEF tag, A, L
<1>10. tag \in Injection(A, L \X (1 .. Times(c)))
    BY <1>8, <1>9 DEF Injection, IsInjective
<1>11. /\ IsFiniteSet(L \X (1 .. Times(c)))
       /\ Cardinality(L \X (1 .. Times(c))) = Cardinality(L) * Cardinality(1 .. Times(c))
    BY <1>1, <1>3, FS_Product
<1>12. Cardinality(A) <= Cardinality(L \X (1 .. Times(c)))
    BY <1>10, <1>11, FS_Injection
<1>13. Cardinality(L) * Times(c) = Times(c) * Cardinality(L)
    BY <1>1, <1>2
<1>14. Cardinality(A) <= Times(c) * Cardinality(L)
    BY <1>3, <1>11, <1>12, <1>13
<1> QED
    BY <1>1, <1>14 DEF A, L

(***************************************************************************)
(* At its destination a capsule arrives at most once over each line from   *)
(* its origin, and twice only if a terminal sent it (cipcchannel.cpp:89),  *)
(* in every network whose links are configured at both ends, whatever      *)
(* breaks and restarts.                                                    *)
(***************************************************************************)
THEOREM ArrivesOncePerLine ==
    ASSUME Paired
    PROVE  Spec => []NoExtraCopies
<1>1. IInv /\ CopyInv => NoExtraCopies
    <2> SUFFICES ASSUME IInv, CopyInv, NEW n \in Nodes, NEW c \in ToSet(delivered[n])
                 PROVE  Copies(c, delivered[n]) <=
                           Times(c) * (IF c.from = n THEN 1
                                       ELSE Cardinality(LinesBetween(c.from, n)))
        BY DEF NoExtraCopies, Times
    <2>1. delivered[n] \in Seq(Capsules)
        BY DEF IInv, Records
    <2>2. c \in Real
        BY <2>1, LenProperties, ElementOfSeq DEF CopyInv, DeliveredReal, ToSet, Real
    <2>3. c \in Capsules /\ Good(c)
        BY <2>2 DEF CopyInv, Real
    <2>4. /\ Limit(c) \in Nat /\ Stock(c) \in Nat
          /\ Copies(c, delivered[n]) \in Nat /\ Copies(c, inbox[n]) \in Nat
        BY <2>3, Counts
    <2>5. Times(c) \in {1, 2} /\ Limit(c) <= Times(c)
        BY DEF Times, Limit
    <2>6. CASE c.from = n
        <3>1. Stock(c) + Copies(c, delivered[n]) <= Limit(c)
            BY <2>3, <2>6 DEF Good, AtHome
        <3>2. Copies(c, delivered[n]) <= Times(c) * 1
            BY <2>4, <2>5, <3>1
        <3> QED
            BY <2>6, <3>2
    <2>7. CASE c.from # n
        <3>1. /\ IsFiniteSet(Came(c, n))
              /\ Copies(c, delivered[n]) + Copies(c, inbox[n]) <= Cardinality(Came(c, n))
            BY <2>3, <2>7 DEF Good, Away
        <3>2. Cardinality(Came(c, n)) \in Nat
            BY <3>1, FS_CardinalityType
        <3>3. /\ Cardinality(LinesBetween(c.from, n)) \in Nat
              /\ Cardinality(Came(c, n)) <= Times(c) * Cardinality(LinesBetween(c.from, n))
            BY <2>3, <2>7, CameOverLines
        <3> DEFINE a == Copies(c, delivered[n])
                   b == Copies(c, inbox[n])
                   k == Cardinality(Came(c, n))
                   l == Cardinality(LinesBetween(c.from, n))
                   t == Times(c)
        <3>4. /\ a \in Nat /\ b \in Nat /\ k \in Nat /\ l \in Nat /\ t \in {1, 2}
              /\ a + b <= k /\ k <= t * l
            BY <2>4, <2>5, <3>1, <3>2, <3>3
        <3> HIDE DEF a, b, k, l, t
        <3>5. a <= t * l
            BY <3>4
        <3> QED
            BY <2>7, <3>5 DEF a, l, t
    <2> QED
        BY <2>6, <2>7
<1> QED
    BY <1>1, Inductive, InductiveCopies, Paired, PTL
=============================================================================
