-------------------------- MODULE ProducerConsumer --------------------------
(***************************************************************************)
(* CProducerConsumer (src/utils/cproducerconsumer.hpp): the monitor that   *)
(* carries every capsule between two threads of a node - the node's input  *)
(* queue, the transmit queue of an interface and the queue of a connected  *)
(* application.                                                            *)
(*                                                                         *)
(* A call holds m_mutex from the moment it acquires it until it returns or *)
(* blocks in wait / wait_for, and everything it reads or writes in between *)
(* except the termination flag is protected by m_mutex.  One such stretch  *)
(* is therefore one step here, taken by a thread that is about to acquire  *)
(* the mutex:                                                              *)
(*                                                                         *)
(*   "idle"      outside the queue                                         *)
(*   "enter"     called, about to lock m_mutex                             *)
(*   "wait"      blocked on a condition variable, mutex released           *)
(*   "woken"     notified or spuriously woken, about to re-lock m_mutex    *)
(*   "timedout"  the time of wait_for is over, about to re-lock m_mutex    *)
(*                                                                         *)
(* The names of the two condition variables are exchanged in the code:     *)
(* producers wait on m_condNotEmpty and consumers on m_condNotFull.        *)
(* m_rwmut is only taken with m_mutex held and adds nothing.               *)
(***************************************************************************)
EXTENDS Integers, Sequences

CONSTANTS Producers, Consumers, CThreads, Owner, Items, MaxQueueSize

ASSUME ThreadAssumption ==
    /\ Producers \cap Consumers = {}
    /\ Owner \in [Producers \cup Consumers -> CThreads]
ASSUME SizeAssumption == MaxQueueSize \in Nat

VARIABLES que,          \* m_que
          pc,           \* where each thread is, see above
          op,           \* the operation a thread is (or was last) in
          item,         \* producer: the item passed; consumer: its *out
          rc,           \* the code the last call of a thread returned
          terminated    \* the CThreads whose mTerminated is set

vars == <<que, pc, op, item, rc, terminated>>

Threads == Producers \cup Consumers

OK == 0
TERMINATED == -1
TIMEOUT == -2

PushOps == {"try_push", "push_for", "push"}
PopOps  == {"try_pop", "pop_for", "pop"}
TryOps  == {"try_push", "try_pop"}
UntimedOps == {"push", "pop"}

OpsOf(t) == IF t \in Producers THEN PushOps ELSE PopOps

-----------------------------------------------------------------------------
(* Predicates of the code, evaluated with m_mutex held. *)

isEmpty == Len(que) = 0

(* An equality, not >=: a queue that ever overshot would never be full again. *)
isFull == Len(que) = MaxQueueSize

(* A slip: push waits in an if instead of a while, so a woken producer does not look again. *)
MustWaitOnce(t) == IF t \in Producers THEN isFull /\ pc[t] # "woken" ELSE isEmpty

(* The condition of the while loop a call of thread t waits in. *)
MustWait(t) == IF t \in Producers THEN isFull ELSE isEmpty

isTerminated(t) == op[t] \notin UntimedOps /\ Owner[t] \in terminated

(* A slip: every timed call gives up when its time is over. *)
GivesUpAlways(t) == pc[t] = "timedout"

(* try_push and try_pop return -2 on a timeout before they look at anything else. *)
GivesUp(t) == pc[t] = "timedout" /\ op[t] \in TryOps

(* A slip: the termination flag is looked at only once the loop is left. *)
SeesTerminationLate(t) == isTerminated(t) /\ ~MustWait(t)

(***************************************************************************)
(* The termination flag is read after every wait and after the loop, but   *)
(* not before the first wait of a call.                                    *)
(***************************************************************************)
SeesTermination(t) == isTerminated(t) /\ (pc[t] = "enter" => ~MustWait(t))

(* A slip: the condition variables, whose names are exchanged, are confused. *)
NotifyWrongSide(side) ==
    [u \in Threads |-> IF u \notin side /\ pc[u] = "wait" THEN "woken" ELSE pc[u]]

(* A slip: a call returns without notifying the other side. *)
NotifyNobody(side) == pc

(* notify_all on the condition variable of the other side. *)
NotifyAll(side) ==
    [u \in Threads |-> IF u \in side /\ pc[u] = "wait" THEN "woken" ELSE pc[u]]

-----------------------------------------------------------------------------
Init ==
    /\ que = <<>>
    /\ pc = [t \in Threads |-> "idle"]
    /\ op = [t \in Threads |-> IF t \in Producers THEN "push" ELSE "pop"]
    /\ item \in [Threads -> Items]
    /\ rc = [t \in Threads |-> OK]
    /\ terminated = {}

(* A thread calls one of the operations; a producer brings an item. *)
Call(t) ==
    /\ pc[t] = "idle"
    /\ pc' = [pc EXCEPT ![t] = "enter"]
    /\ \E o \in OpsOf(t) : op' = [op EXCEPT ![t] = o]
    /\ IF t \in Producers
       THEN \E i \in Items : item' = [item EXCEPT ![t] = i]
       ELSE UNCHANGED item
    /\ rc' = [rc EXCEPT ![t] = OK]
    /\ UNCHANGED <<que, terminated>>

AboutToLock(t) == pc[t] \in {"enter", "woken", "timedout"}

(* wait or wait_for: atomically unlock m_mutex and block. *)
Block(t) ==
    /\ AboutToLock(t)
    /\ ~GivesUp(t) /\ ~SeesTermination(t) /\ MustWait(t)
    /\ pc' = [pc EXCEPT ![t] = "wait"]
    /\ UNCHANGED <<que, op, item, rc, terminated>>

(* A slip: a timeout is reported as the bool true. *)
ReturnTimeoutAsBool(t) ==
    /\ AboutToLock(t)
    /\ GivesUp(t)
    /\ pc' = [pc EXCEPT ![t] = "idle"]
    /\ rc' = [rc EXCEPT ![t] = 1]
    /\ UNCHANGED <<que, op, item, terminated>>

ReturnTimeout(t) ==
    /\ AboutToLock(t)
    /\ GivesUp(t)
    /\ pc' = [pc EXCEPT ![t] = "idle"]
    /\ rc' = [rc EXCEPT ![t] = TIMEOUT]
    /\ UNCHANGED <<que, op, item, terminated>>

ReturnTerminated(t) ==
    /\ AboutToLock(t)
    /\ ~GivesUp(t) /\ SeesTermination(t)
    /\ pc' = [pc EXCEPT ![t] = "idle"]
    /\ rc' = [rc EXCEPT ![t] = TERMINATED]
    /\ UNCHANGED <<que, op, item, terminated>>

(* m_que.push(item); m_condNotFull.notify_all(); return 0 *)
Push(t) ==
    /\ t \in Producers
    /\ AboutToLock(t)
    /\ ~GivesUp(t) /\ ~SeesTermination(t) /\ ~MustWait(t)
    /\ que' = Append(que, item[t])
    /\ pc' = [NotifyAll(Consumers) EXCEPT ![t] = "idle"]
    /\ rc' = [rc EXCEPT ![t] = OK]
    /\ UNCHANGED <<op, item, terminated>>

(* *out = m_que.front(); m_que.pop(); m_condNotEmpty.notify_all(); return 0 *)
Pop(t) ==
    /\ t \in Consumers
    /\ AboutToLock(t)
    /\ ~GivesUp(t) /\ ~SeesTermination(t) /\ ~MustWait(t)
    /\ item' = [item EXCEPT ![t] = Head(que)]
    /\ que' = Tail(que)
    /\ pc' = [NotifyAll(Producers) EXCEPT ![t] = "idle"]
    /\ rc' = [rc EXCEPT ![t] = OK]
    /\ UNCHANGED <<op, terminated>>

(* The time of a wait_for runs out before a notification arrives. *)
TimeRunsOut(t) ==
    /\ pc[t] = "wait"
    /\ op[t] \notin UntimedOps
    /\ pc' = [pc EXCEPT ![t] = "timedout"]
    /\ UNCHANGED <<que, op, item, rc, terminated>>

(* A condition variable may wake a waiter that nobody notified. *)
SpuriousWakeup(t) ==
    /\ pc[t] = "wait"
    /\ pc' = [pc EXCEPT ![t] = "woken"]
    /\ UNCHANGED <<que, op, item, rc, terminated>>

(* CThread::terminate() sets a flag and notifies nobody. *)
Terminate(c) ==
    /\ terminated' = terminated \cup {c}
    /\ UNCHANGED <<que, pc, op, item, rc>>

(* What a thread that is about to own m_mutex does with it. *)
CriticalSection(t) ==
    \/ Block(t)
    \/ ReturnTimeout(t)
    \/ ReturnTerminated(t)
    \/ Push(t)
    \/ Pop(t)

Next ==
    \/ \E t \in Threads : \/ Call(t)
                          \/ CriticalSection(t)
                          \/ TimeRunsOut(t)
                          \/ SpuriousWakeup(t)
    \/ \E c \in CThreads : Terminate(c)

Spec == Init /\ [][Next]_vars

(***************************************************************************)
(* Fairness: a thread that competes for m_mutex gets it eventually (every  *)
(* holder releases it after a bounded stretch of code), and the time of a  *)
(* wait_for runs out if nothing else ends the wait.  Nobody is obliged to  *)
(* call the queue and no wake-up is spurious of necessity.                 *)
(***************************************************************************)
FairSpec ==
    /\ Spec
    /\ \A t \in Threads : WF_vars(CriticalSection(t)) /\ WF_vars(TimeRunsOut(t))

(***************************************************************************)
(* In addition the consumers come back for more, as the loops of           *)
(* CNode::run and CTcpInterface::run do.                                   *)
(***************************************************************************)
ServedSpec == FairSpec /\ \A t \in Consumers : WF_vars(Call(t))

-----------------------------------------------------------------------------
TypeOK ==
    /\ que \in Seq(Items)
    /\ pc \in [Threads -> {"idle", "enter", "wait", "woken", "timedout"}]
    /\ op \in [Threads -> PushOps \cup PopOps]
    /\ \A t \in Threads : op[t] \in OpsOf(t)
    /\ item \in [Threads -> Items]
    /\ rc \in [Threads -> {OK, TERMINATED, TIMEOUT}]
    /\ terminated \in SUBSET CThreads

(***************************************************************************)
(* The queue never holds more than m_maxQueueSize items, however many      *)
(* producers one notify_all releases (the while loops of the three         *)
(* pushes).  isFull compares with ==, so one item too many would switch    *)
(* the bound off for good.                                                 *)
(***************************************************************************)
Bounded == Len(que) <= MaxQueueSize

(***************************************************************************)
(* No wake-up is lost: a thread is blocked only while the condition it     *)
(* waits for is false, whichever of the six operations it is in and        *)
(* whoever changed the queue in the meantime.                              *)
(***************************************************************************)
NoLostWakeup == \A t \in Threads : pc[t] = "wait" => MustWait(t)

(***************************************************************************)
(* Producers and consumers are never blocked at the same time, so the      *)
(* threads around a queue cannot all wait for each other.                  *)
(***************************************************************************)
NoStandoff ==
    MaxQueueSize > 0 =>
        ~ \E p \in Producers, c \in Consumers : pc[p] = "wait" /\ pc[c] = "wait"

(***************************************************************************)
(* terminate() notifies nobody, yet a call that was given the CThread and  *)
(* a timeout returns once the CThread is terminated, whatever the queue    *)
(* holds and however often the thread is woken.                            *)
(***************************************************************************)
TerminatedCallReturns ==
    \A t \in Threads : (pc[t] # "idle" /\ isTerminated(t)) ~> (pc[t] = "idle")

(***************************************************************************)
(* A queue that was filled drains again as long as its consumers keep      *)
(* calling and are not terminated: no hand-over of the mutex, timeout or   *)
(* spurious wake-up leaves the items behind.                               *)
(***************************************************************************)
FullQueueDrains ==
    (MaxQueueSize > 0 /\ isFull) ~> (~isFull \/ \E c \in Consumers : Owner[c] \in terminated)

(***************************************************************************)
(* CProducerConsumer implements BoundedQueue: each call takes effect once, *)
(* at one instant, in first-in first-out order, and reports what happened. *)
(***************************************************************************)
BQ == INSTANCE BoundedQueue WITH pending <- {t \in Threads : pc[t] # "idle"}
ImplementsBoundedQueue == BQ!Spec

=============================================================================
