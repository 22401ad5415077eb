----------------------- MODULE ProducerConsumer_proofs -----------------------
(***************************************************************************)
(* What holds of CProducerConsumer for any number of threads, any items    *)
(* and any m_maxQueueSize.                                                 *)
(***************************************************************************)
EXTENDS ProducerConsumer, TLAPS

(***************************************************************************)
(* The inductive invariant.  Neither the bound nor the absence of lost     *)
(* wake-ups is inductive without the types; and a push keeps the second    *)
(* only because the first thread that finds room proves, through           *)
(* NoLostWakeup itself, that no producer is still blocked.                 *)
(***************************************************************************)
IInv == TypeOK /\ Bounded /\ NoLostWakeup

LEMMA InitIInv == Init => IInv
<1> SUFFICES ASSUME Init PROVE IInv
    OBVIOUS
<1>1. TypeOK
  <2>1. que \in Seq(Items)
    BY DEF Init
  <2>2. /\ op \in [Threads -> PushOps \cup PopOps]
        /\ \A t \in Threads : op[t] \in OpsOf(t)
    BY DEF Init, OpsOf, PushOps, PopOps
  <2> QED
    BY <2>1, <2>2 DEF Init, TypeOK
<1>2. Bounded
    BY SizeAssumption DEF Init, Bounded
<1>3. NoLostWakeup
    BY DEF Init, NoLostWakeup, Threads
<1> QED
    BY <1>1, <1>2, <1>3 DEF IInv

(* A step that leaves the queue alone and blocks nobody preserves IInv. *)
LEMMA QuietStep ==
    ASSUME IInv, TypeOK', que' = que,
           \A t \in Threads : pc'[t] = "wait" => pc[t] = "wait"
    PROVE  IInv'
BY DEF IInv, Bounded, NoLostWakeup, MustWait, isFull, isEmpty

LEMMA CallStep ==
    ASSUME IInv, NEW t \in Threads, Call(t)
    PROVE  IInv'
<1>1. TypeOK'
    BY DEF IInv, TypeOK, Call, OpsOf, PushOps, PopOps, Threads, OK
<1> QED
    BY <1>1, QuietStep DEF IInv, TypeOK, Call

LEMMA ReturnStep ==
    ASSUME IInv, NEW t \in Threads, ReturnTimeout(t) \/ ReturnTerminated(t)
    PROVE  IInv'
<1>1. TypeOK'
    BY DEF IInv, TypeOK, ReturnTimeout, ReturnTerminated, TIMEOUT, TERMINATED
<1> QED
    BY <1>1, QuietStep DEF IInv, TypeOK, ReturnTimeout, ReturnTerminated

LEMMA WakeStep ==
    ASSUME IInv, NEW t \in Threads, TimeRunsOut(t) \/ SpuriousWakeup(t)
    PROVE  IInv'
<1>1. TypeOK'
    BY DEF IInv, TypeOK, TimeRunsOut, SpuriousWakeup
<1> QED
    BY <1>1, QuietStep DEF IInv, TypeOK, TimeRunsOut, SpuriousWakeup

LEMMA TerminateStep ==
    ASSUME IInv, NEW c \in CThreads, Terminate(c)
    PROVE  IInv'
<1>1. TypeOK'
    BY DEF IInv, TypeOK, Terminate
<1> QED
    BY <1>1, QuietStep DEF Terminate

(* Only a thread that has just seen its condition with the mutex held blocks. *)
LEMMA BlockStep ==
    ASSUME IInv, NEW t \in Threads, Block(t)
    PROVE  IInv'
<1>1. TypeOK'
    BY DEF IInv, TypeOK, Block
<1>2. Bounded'
    BY DEF IInv, Bounded, Block
<1>3. NoLostWakeup'
    BY DEF IInv, TypeOK, NoLostWakeup, Block, MustWait, isFull, isEmpty
<1> QED
    BY <1>1, <1>2, <1>3 DEF IInv

(* notify_all leaves nobody of the notified side blocked and blocks nobody. *)
LEMMA NotifyAllWakes ==
    ASSUME TypeOK, NEW side, NEW t \in Threads,
           pc' = [NotifyAll(side) EXCEPT ![t] = "idle"]
    PROVE  /\ pc' \in [Threads -> {"idle", "enter", "wait", "woken", "timedout"}]
           /\ pc'[t] = "idle"
           /\ \A u \in Threads : pc'[u] = "wait" => u \notin side /\ pc[u] = "wait"
BY DEF TypeOK, NotifyAll

LEMMA PushStep ==
    ASSUME IInv, NEW t \in Threads, Push(t)
    PROVE  IInv'
<1> USE DEF IInv
<1>1. /\ pc' \in [Threads -> {"idle", "enter", "wait", "woken", "timedout"}]
      /\ \A u \in Threads : pc'[u] = "wait" => u \notin Consumers /\ pc[u] = "wait"
    BY NotifyAllWakes DEF Push
<1>2. ~isFull
    BY DEF Push, MustWait
<1>3. que' \in Seq(Items) /\ Len(que') = Len(que) + 1 /\ Len(que) \in Nat
    BY DEF Push, TypeOK
<1>4. TypeOK'
    BY <1>1, <1>3 DEF Push, TypeOK, OK
<1>5. Bounded'
    BY <1>2, <1>3, SizeAssumption DEF Bounded, isFull
<1>6. \A u \in Threads : pc'[u] # "wait"
    BY <1>1, <1>2 DEF NoLostWakeup, MustWait, Threads
<1>7. NoLostWakeup'
    BY <1>6 DEF NoLostWakeup
<1> QED
    BY <1>4, <1>5, <1>7

LEMMA PopStep ==
    ASSUME IInv, NEW t \in Threads, Pop(t)
    PROVE  IInv'
<1> USE DEF IInv
<1>1. /\ pc' \in [Threads -> {"idle", "enter", "wait", "woken", "timedout"}]
      /\ \A u \in Threads : pc'[u] = "wait" => u \notin Producers /\ pc[u] = "wait"
    BY NotifyAllWakes DEF Pop
<1>2. ~isEmpty
    BY ThreadAssumption DEF Pop, MustWait
<1>3. que \in Seq(Items) /\ que # <<>>
    BY <1>2 DEF TypeOK, isEmpty
<1>4. que' \in Seq(Items) /\ Len(que') = Len(que) - 1 /\ Len(que) \in Nat /\ Head(que) \in Items
    BY <1>3 DEF Pop
<1>5. TypeOK'
    BY <1>1, <1>4 DEF Pop, TypeOK, OK
<1>6. Bounded'
    BY <1>4, SizeAssumption DEF Bounded
<1>7. \A u \in Threads : pc'[u] # "wait"
    BY <1>1, <1>2 DEF NoLostWakeup, MustWait, Threads
<1>8. NoLostWakeup'
    BY <1>7 DEF NoLostWakeup
<1> QED
    BY <1>5, <1>6, <1>8

LEMMA StepIInv == IInv /\ [Next]_vars => IInv'
<1> SUFFICES ASSUME IInv, [Next]_vars PROVE IInv'
    OBVIOUS
<1>1. ASSUME NEW t \in Threads, Call(t) PROVE IInv'
    BY <1>1, CallStep
<1>2. ASSUME NEW t \in Threads, CriticalSection(t) PROVE IInv'
    BY <1>2, BlockStep, ReturnStep, PushStep, PopStep DEF CriticalSection
<1>3. ASSUME NEW t \in Threads, TimeRunsOut(t) \/ SpuriousWakeup(t) PROVE IInv'
    BY <1>3, WakeStep
<1>4. ASSUME NEW c \in CThreads, Terminate(c) PROVE IInv'
    BY <1>4, TerminateStep
<1>5. CASE UNCHANGED vars
    BY <1>5 DEF vars, IInv, TypeOK, Bounded, NoLostWakeup, MustWait, isFull, isEmpty
<1> QED
    BY <1>1, <1>2, <1>3, <1>4, <1>5 DEF Next

LEMMA SpecIInv == Spec => []IInv
BY InitIInv, StepIInv, PTL DEF Spec

(***************************************************************************)
(* Every variable of the queue keeps its type.                             *)
(***************************************************************************)
THEOREM TypeCorrect == Spec => []TypeOK
<1>1. IInv => TypeOK
    BY DEF IInv
<1> QED
    BY SpecIInv, <1>1, PTL

(***************************************************************************)
(* The queue never outgrows m_maxQueueSize (push, try_push).               *)
(***************************************************************************)
THEOREM CapacityRespected == Spec => []Bounded
<1>1. IInv => Bounded
    BY DEF IInv
<1> QED
    BY SpecIInv, <1>1, PTL

(***************************************************************************)
(* No thread sleeps on a condition that is already true.                   *)
(***************************************************************************)
THEOREM WakeupsNotLost == Spec => []NoLostWakeup
<1>1. IInv => NoLostWakeup
    BY DEF IInv
<1> QED
    BY SpecIInv, <1>1, PTL

(***************************************************************************)
(* Producers and consumers never block each other.                         *)
(***************************************************************************)
THEOREM StandoffImpossible == Spec => []NoStandoff
<1>1. IInv => NoStandoff
  <2> SUFFICES ASSUME IInv, MaxQueueSize > 0,
                      NEW p \in Producers, NEW c \in Consumers,
                      pc[p] = "wait", pc[c] = "wait"
               PROVE  FALSE
      BY DEF NoStandoff
  <2>1. Len(que) = MaxQueueSize
      BY DEF IInv, NoLostWakeup, MustWait, isFull, Threads
  <2>2. Len(que) = 0
      BY ThreadAssumption DEF IInv, NoLostWakeup, MustWait, isEmpty, Threads
  <2> QED
      BY <2>1, <2>2
<1> QED
    BY SpecIInv, <1>1, PTL

-----------------------------------------------------------------------------
(***************************************************************************)
(* The refinement: blocking, timing out and waking up are stutters of the  *)
(* abstract queue, a return is the instant at which the call takes effect. *)
(***************************************************************************)
LEMMA AbstractInit == Init => BQ!Init
BY DEF Init, BQ!Init, BQ!Threads, Threads, OK, BQ!OK

Inside == {u \in Threads : pc[u] # "idle"}

LEMMA InsideUnchanged ==
    ASSUME \A u \in Threads : pc'[u] = "idle" <=> pc[u] = "idle"
    PROVE  Inside' = Inside
BY DEF Inside

LEMMA AbstractStutter ==
    ASSUME TypeOK, NEW t \in Threads, Block(t) \/ TimeRunsOut(t) \/ SpuriousWakeup(t)
    PROVE  UNCHANGED BQ!vars
<1>1. Inside' = Inside
    BY InsideUnchanged
       DEF TypeOK, Block, TimeRunsOut, SpuriousWakeup, AboutToLock
<1> QED
    BY <1>1 DEF BQ!vars, Inside, Block, TimeRunsOut, SpuriousWakeup

LEMMA AbstractCall ==
    ASSUME TypeOK, NEW t \in Threads, Call(t)
    PROVE  BQ!Call(t)
<1>1. Inside' = Inside \cup {t} /\ t \notin Inside
    BY DEF TypeOK, Call, Inside
<1> QED
    BY <1>1 DEF Call, BQ!Call, Inside, OpsOf, BQ!OpsOf, PushOps, BQ!PushOps,
                PopOps, BQ!PopOps, OK, BQ!OK

(* Whatever a returning thread does to the others, it is the only one to leave. *)
LEMMA LeaveInside ==
    ASSUME TypeOK, NEW t \in Threads, pc[t] # "idle", pc'[t] = "idle",
           \A u \in Threads \ {t} : pc'[u] = "idle" <=> pc[u] = "idle"
    PROVE  t \in Inside /\ Inside' = Inside \ {t}
BY DEF Inside

LEMMA AbstractFail ==
    ASSUME TypeOK, NEW t \in Threads, ReturnTimeout(t) \/ ReturnTerminated(t)
    PROVE  BQ!Fail(t)
<1>1. t \in Inside /\ Inside' = Inside \ {t}
  <2>1. pc[t] # "idle"
    BY DEF ReturnTimeout, ReturnTerminated, AboutToLock
  <2>2. pc' = [pc EXCEPT ![t] = "idle"]
    BY DEF ReturnTimeout, ReturnTerminated
  <2> QED
    BY <2>1, <2>2, LeaveInside DEF TypeOK
<1>2. CASE ReturnTimeout(t)
    BY <1>1, <1>2 DEF ReturnTimeout, GivesUp, BQ!Fail, BQ!Returns, Inside,
                      TryOps, BQ!TryOps, TIMEOUT, BQ!TIMEOUT
<1>3. CASE ReturnTerminated(t)
    BY <1>1, <1>3 DEF ReturnTerminated, SeesTermination, isTerminated, BQ!Fail,
                      BQ!Returns, Inside, UntimedOps, BQ!UntimedOps,
                      TERMINATED, BQ!TERMINATED
<1> QED
    BY <1>2, <1>3

LEMMA NotifyKeepsInside ==
    ASSUME TypeOK, NEW side, NEW t \in Threads, AboutToLock(t),
           pc' = [NotifyAll(side) EXCEPT ![t] = "idle"]
    PROVE  t \in Inside /\ Inside' = Inside \ {t}
<1>1. pc[t] # "idle"
    BY DEF AboutToLock
<1>2. pc'[t] = "idle" /\ \A u \in Threads \ {t} : pc'[u] = "idle" <=> pc[u] = "idle"
    BY DEF TypeOK, NotifyAll
<1> QED
    BY <1>1, <1>2, LeaveInside

LEMMA AbstractPut ==
    ASSUME IInv, NEW t \in Threads, Push(t)
    PROVE  BQ!Put(t)
<1>1. t \in Inside /\ Inside' = Inside \ {t}
    BY NotifyKeepsInside DEF IInv, Push
<1>2. Len(que) < MaxQueueSize
  <2>1. ~isFull /\ Len(que) \in Nat
    BY DEF Push, MustWait, IInv, TypeOK
  <2> QED
    BY <2>1, SizeAssumption DEF IInv, Bounded, isFull
<1> QED
    BY <1>1, <1>2 DEF Push, BQ!Put, BQ!Returns, Inside, OK, BQ!OK

LEMMA AbstractGet ==
    ASSUME IInv, NEW t \in Threads, Pop(t)
    PROVE  BQ!Get(t)
<1>1. t \in Inside /\ Inside' = Inside \ {t}
    BY NotifyKeepsInside DEF IInv, Pop
<1>2. que # <<>>
    BY ThreadAssumption DEF Pop, MustWait, isEmpty
<1> QED
    BY <1>1, <1>2 DEF Pop, BQ!Get, BQ!Returns, Inside, OK, BQ!OK

LEMMA AbstractStep == IInv /\ [Next]_vars => [BQ!Next]_(BQ!vars)
<1> SUFFICES ASSUME IInv, [Next]_vars PROVE [BQ!Next]_(BQ!vars)
    OBVIOUS
<1> USE DEF BQ!Next, BQ!Threads, Threads
<1>1. ASSUME NEW t \in Threads, Call(t) PROVE BQ!Next
    BY <1>1, AbstractCall DEF IInv
<1>2. ASSUME NEW t \in Threads, Block(t) \/ TimeRunsOut(t) \/ SpuriousWakeup(t)
      PROVE  UNCHANGED BQ!vars
    BY <1>2, AbstractStutter DEF IInv
<1>3. ASSUME NEW t \in Threads, ReturnTimeout(t) \/ ReturnTerminated(t) PROVE BQ!Next
    BY <1>3, AbstractFail DEF IInv
<1>4. ASSUME NEW t \in Threads, Push(t) PROVE BQ!Next
    BY <1>4, AbstractPut
<1>5. ASSUME NEW t \in Threads, Pop(t) PROVE BQ!Next
    BY <1>5, AbstractGet
<1>6. ASSUME NEW c \in CThreads, Terminate(c) PROVE BQ!Next
  <2>1. BQ!Terminate(c)
    BY <1>6 DEF Terminate, BQ!Terminate
  <2> QED
    BY <2>1
<1>7. CASE UNCHANGED vars
    BY <1>7 DEF vars, BQ!vars
<1> QED
    BY <1>1, <1>2, <1>3, <1>4, <1>5, <1>6, <1>7 DEF Next, CriticalSection

(***************************************************************************)
(* The monitor is a linearizable bounded queue: every call of the six      *)
(* operations takes effect once, in first-in first-out order, within the   *)
(* bound, and the code it returns is true of what it did.                  *)
(***************************************************************************)
THEOREM QueueRefinement == Spec => ImplementsBoundedQueue
BY AbstractInit, SpecIInv, AbstractStep, PTL DEF Spec, ImplementsBoundedQueue, BQ!Spec
=============================================================================
