---------------------------- MODULE BoundedQueue ----------------------------
(***************************************************************************)
(* What CProducerConsumer (src/utils/cproducerconsumer.hpp) promises to    *)
(* its callers: a bounded first-in first-out queue on which every call     *)
(* takes effect at one instant between its start and its return.  Nothing  *)
(* is said here of mutexes, condition variables or wake-ups.               *)
(***************************************************************************)
EXTENDS Integers, Sequences

CONSTANTS Producers,     \* threads that push
          Consumers,     \* threads that pop
          CThreads,      \* CThread objects, each with a termination flag
          Owner,         \* the CThread whose flag the calls of a thread consult
          Items,         \* the values that travel through the queue
          MaxQueueSize   \* m_maxQueueSize

VARIABLES que,          \* m_que
          pending,      \* the threads inside a call
          op,           \* the operation a thread is (or was last) in
          item,         \* producer: the item passed; consumer: its *out
          rc,           \* the code the last call of a thread returned
          terminated    \* the CThreads whose terminate() was called

vars == <<que, pending, op, item, rc, terminated>>

Threads == Producers \cup Consumers

OK == 0
TERMINATED == -1
TIMEOUT == -2

(***************************************************************************)
(* The overloads of push and pop: "push_for" and "pop_for" are the ones    *)
(* that take a CThread and a timeout, "push" and "pop" the ones that take  *)
(* neither.                                                                *)
(***************************************************************************)
PushOps == {"try_push", "push_for", "push"}
PopOps  == {"try_pop", "pop_for", "pop"}
TryOps  == {"try_push", "try_pop"}
UntimedOps == {"push", "pop"}

OpsOf(t) == IF t \in Producers THEN PushOps ELSE PopOps

-----------------------------------------------------------------------------
Init ==
    /\ que = <<>>
    /\ pending = {}
    /\ op = [t \in Threads |-> IF t \in Producers THEN "push" ELSE "pop"]
    /\ item \in [Threads -> Items]
    /\ rc = [t \in Threads |-> OK]
    /\ terminated = {}

Call(t) ==
    /\ t \notin pending
    /\ pending' = pending \cup {t}
    /\ \E o \in OpsOf(t) : op' = [op EXCEPT ![t] = o]
    /\ IF t \in Producers
       THEN \E i \in Items : item' = [item EXCEPT ![t] = i]
       ELSE UNCHANGED item
    /\ rc' = [rc EXCEPT ![t] = OK]
    /\ UNCHANGED <<que, terminated>>

Returns(t, code) ==
    /\ t \in pending
    /\ pending' = pending \ {t}
    /\ rc' = [rc EXCEPT ![t] = code]
    /\ UNCHANGED <<op, terminated>>

Put(t) ==
    /\ t \in Producers
    /\ Len(que) < MaxQueueSize
    /\ que' = Append(que, item[t])
    /\ Returns(t, OK)
    /\ UNCHANGED item

Get(t) ==
    /\ t \in Consumers
    /\ que # <<>>
    /\ item' = [item EXCEPT ![t] = Head(que)]
    /\ que' = Tail(que)
    /\ Returns(t, OK)

(***************************************************************************)
(* A call that fails moves no item and leaves *out alone.  Only a call     *)
(* that was given a CThread may report its termination, and only try_push  *)
(* and try_pop may report a timeout.                                       *)
(***************************************************************************)
Fail(t) ==
    /\ \/ op[t] \notin UntimedOps /\ Owner[t] \in terminated /\ Returns(t, TERMINATED)
       \/ op[t] \in TryOps /\ Returns(t, TIMEOUT)
    /\ UNCHANGED <<que, item>>

Terminate(c) ==
    /\ terminated' = terminated \cup {c}
    /\ UNCHANGED <<que, pending, op, item, rc>>

Next ==
    \/ \E t \in Threads : Call(t) \/ Put(t) \/ Get(t) \/ Fail(t)
    \/ \E c \in CThreads : Terminate(c)

Spec == Init /\ [][Next]_vars
=============================================================================
