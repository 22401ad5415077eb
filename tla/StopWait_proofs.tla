--------------------------- MODULE StopWait_proofs ---------------------------
(***************************************************************************)
(* What holds of the stop-and-wait exchange for any number of repetitions, *)
(* any number of calls and whichever failures the client ignores.          *)
(***************************************************************************)
EXTENDS StopWait, TLAPS

Busy == txPc \in {"send", "await"}

(* Every sequence number used has been reached by the sender, every request made. *)
Reached == \A m \in toRx : m.seq <= txSeq /\ m.req <= call

(* All the capsules of a request carry one sequence number. *)
OneSeqPerRequest ==
    /\ \A m, n \in toRx : m.req = n.req => m.seq = n.seq
    /\ Busy => \A m \in toRx : m.req = call => m.seq = txSeq

(* The receiver has executed one request for each number below the one it expects. *)
ExecutedInOrder ==
    /\ Len(executed) = rxSeq - 1
    /\ \A s \in DOMAIN executed : [seq |-> s, req |-> executed[s]] \in toRx

(* A response is the reply to the request executed under its number. *)
RepliesTrue ==
    \A m \in toTx \cup lastResp : m.seq \in DOMAIN executed /\ m.req = executed[m.seq]

(* A request of the current number is the current one, or all since it have failed. *)
ReusedOnlyAfterFailure ==
    \A m \in toRx : m.seq = txSeq =>
        \A d \in m.req .. call :
            \/ d = call /\ txPc # "idle"
            \/ result[d] = FAILED /\ d \in Ignored

(* The calls still to be made and the one under way have no result. *)
NoResultYet ==
    \A c \in Calls : (c > call \/ (c = call /\ Busy)) => result[c] = NONE

(* The replies handed out belong to numbers the sender has left behind. *)
HandedOut ==
    \A c \in Calls : result[c] \in Calls =>
        \E s \in DOMAIN executed : s < txSeq /\ executed[s] = result[c]

IInv ==
    /\ TypeOK
    /\ SeqWindow
    /\ Reached
    /\ OneSeqPerRequest
    /\ ExecutedInOrder
    /\ RepliesTrue
    /\ ReusedOnlyAfterFailure
    /\ NoResultYet
    /\ HandedOut
    /\ ReplyMatches

LEMMA InitIInv == Init => IInv
<1> SUFFICES ASSUME Init PROVE IInv
    OBVIOUS
<1>1. TypeOK
    BY RepetitionsAssumption, MaxCallsAssumption DEF Init, TypeOK
<1>2. /\ SeqWindow /\ Reached /\ OneSeqPerRequest /\ ExecutedInOrder
      /\ RepliesTrue /\ ReusedOnlyAfterFailure
    BY DEF Init, SeqWindow, Reached, OneSeqPerRequest, ExecutedInOrder,
           RepliesTrue, ReusedOnlyAfterFailure, Busy
<1>3. NoResultYet /\ HandedOut /\ ReplyMatches
    BY MaxCallsAssumption DEF Init, NoResultYet, HandedOut, ReplyMatches, Calls, NONE
<1> QED
    BY <1>1, <1>2, <1>3 DEF IInv

-----------------------------------------------------------------------------
(* The steps of the sender. *)

LEMMA CallStep ==
    ASSUME IInv, Call
    PROVE  IInv'
<1> USE DEF IInv, Call, rxVars
<1>1. TypeOK'
    BY RepetitionsAssumption, MaxCallsAssumption DEF TypeOK
<1>2. SeqWindow' /\ ExecutedInOrder' /\ RepliesTrue' /\ HandedOut' /\ ReplyMatches'
    BY DEF SeqWindow, ExecutedInOrder, RepliesTrue, HandedOut, ReplyMatches
<1>3. Reached'
    BY DEF TypeOK, Reached, Msg, Calls
<1>4. OneSeqPerRequest'
    BY DEF TypeOK, OneSeqPerRequest, Reached, Busy, Msg, Calls
<1>5. ReusedOnlyAfterFailure'
    BY DEF TypeOK, ReusedOnlyAfterFailure, Msg, Calls
<1>6. NoResultYet'
    BY DEF TypeOK, NoResultYet, Busy, Calls
<1> QED
    BY <1>1, <1>2, <1>3, <1>4, <1>5, <1>6

LEMMA SendStep ==
    ASSUME IInv, Send
    PROVE  IInv'
<1> USE DEF IInv, Send, rxVars
<1>1. call \in Calls /\ txSeq \in Nat \ {0}
    BY DEF TypeOK, Calls
<1>2. TypeOK'
    BY <1>1 DEF TypeOK, Msg
<1>3. SeqWindow' /\ RepliesTrue' /\ HandedOut' /\ ReplyMatches'
    BY DEF SeqWindow, RepliesTrue, HandedOut, ReplyMatches
<1>4. Reached'
    BY <1>1 DEF Reached, Calls
<1>5. OneSeqPerRequest'
    BY DEF OneSeqPerRequest, Busy
<1>6. ExecutedInOrder'
    BY DEF ExecutedInOrder
<1>7. ReusedOnlyAfterFailure'
    BY <1>1 DEF ReusedOnlyAfterFailure, Calls
<1>8. NoResultYet'
    BY DEF NoResultYet, Busy
<1> QED
    BY <1>2, <1>3, <1>4, <1>5, <1>6, <1>7, <1>8

(* A repetition is used up: nothing but tries and txPc changes. *)
LEMMA RetryStep ==
    ASSUME IInv, AwaitFails \/ (\E m \in toTx : SkipResponse(m))
    PROVE  IInv'
<1>1. /\ txPc = "await" /\ txPc' = "send" /\ tries' = tries - 1
      /\ UNCHANGED <<txSeq, call, result, rxVars, toRx, toTx>>
    BY DEF AwaitFails, SkipResponse
<1> USE DEF IInv, rxVars
<1>2. TypeOK'
    BY <1>1, RepetitionsAssumption DEF TypeOK
<1>3. SeqWindow' /\ Reached' /\ ExecutedInOrder' /\ RepliesTrue' /\ HandedOut' /\ ReplyMatches'
    BY <1>1 DEF SeqWindow, Reached, ExecutedInOrder, RepliesTrue, HandedOut, ReplyMatches
<1>4. OneSeqPerRequest' /\ ReusedOnlyAfterFailure' /\ NoResultYet'
    BY <1>1 DEF OneSeqPerRequest, ReusedOnlyAfterFailure, NoResultYet, Busy
<1> QED
    BY <1>2, <1>3, <1>4

LEMMA FailStep ==
    ASSUME IInv, GiveUp \/ Abort
    PROVE  IInv'
<1>1. /\ Busy /\ ReturnFalse
      /\ UNCHANGED <<txSeq, tries, call, rxVars, toRx, toTx>>
    BY DEF GiveUp, Abort, Busy
<1> USE DEF IInv, rxVars
<1>2. /\ call \in Calls /\ result[call] = NONE
      /\ result' = [result EXCEPT ![call] = FAILED]
      /\ txPc' \in {"idle", "stopped"}
      /\ txPc' = "idle" => call \in Ignored
    BY <1>1 DEF TypeOK, Calls, Busy, NoResultYet, ReturnFalse
<1>3. TypeOK'
    BY <1>1, <1>2 DEF TypeOK, Busy
<1>4. SeqWindow' /\ Reached' /\ ExecutedInOrder' /\ RepliesTrue'
    BY <1>1 DEF SeqWindow, Reached, ExecutedInOrder, RepliesTrue
<1>5. OneSeqPerRequest' /\ NoResultYet'
    BY <1>1, <1>2 DEF TypeOK, OneSeqPerRequest, NoResultYet, Busy
<1>6. ReusedOnlyAfterFailure'
    BY <1>1, <1>2 DEF TypeOK, ReusedOnlyAfterFailure, Calls, Msg
<1>7. \A c \in Calls : result'[c] \in Calls => result[c] = result'[c]
    BY <1>2, MaxCallsAssumption DEF TypeOK, Calls, FAILED
<1>8. HandedOut'
    BY <1>1, <1>7 DEF HandedOut
<1>9. ReplyMatches'
    BY <1>1, <1>2, <1>7 DEF TypeOK, ReplyMatches, Calls, NONE, FAILED
<1> QED
    BY <1>3, <1>4, <1>5, <1>6, <1>8, <1>9

(* The heart of the argument: which reply an accepted response carries. *)
LEMMA AcceptStep ==
    ASSUME IInv, NEW m \in toTx, AcceptResponse(m)
    PROVE  IInv'
<1> USE DEF IInv, AcceptResponse, rxVars
<1>1. /\ m.seq = txSeq /\ txSeq \in DOMAIN executed /\ m.req = executed[txSeq]
      /\ [seq |-> txSeq, req |-> m.req] \in toRx
    BY DEF RepliesTrue, ExecutedInOrder
<1>2. m.req \in Calls /\ m.req <= call /\ call \in Calls
    BY <1>1 DEF TypeOK, Msg, Calls, Reached
<1>3. rxSeq = txSeq + 1
    BY <1>1 DEF TypeOK, SeqWindow, ExecutedInOrder
<1>4. \A d \in m.req .. (call - 1) : result[d] = FAILED /\ d \in Ignored
    BY <1>1, <1>2 DEF ReusedOnlyAfterFailure, Calls
<1>5. result' = [result EXCEPT ![call] = m.req] /\ result[call] = NONE
    BY <1>2 DEF NoResultYet, Busy
<1>6. TypeOK'
    BY <1>2, <1>5 DEF TypeOK
<1>7. SeqWindow' /\ RepliesTrue' /\ ExecutedInOrder'
    BY <1>3 DEF SeqWindow, RepliesTrue, ExecutedInOrder
<1>8. Reached' /\ OneSeqPerRequest'
    BY DEF TypeOK, Msg, Reached, OneSeqPerRequest, Busy
<1>9. ReusedOnlyAfterFailure'
    BY DEF TypeOK, Msg, Reached, ReusedOnlyAfterFailure
<1>10. NoResultYet'
    BY <1>5 DEF TypeOK, NoResultYet, Busy, Calls
<1>11. HandedOut'
    BY <1>1, <1>2, <1>5 DEF TypeOK, HandedOut
<1>12. ReplyMatches'
  <2> SUFFICES ASSUME NEW c \in Calls, result'[c] \in Calls
               PROVE  /\ result'[c] <= c
                      /\ \A d \in result'[c] .. (c - 1) : result'[d] = FAILED /\ d \in Ignored
      BY DEF ReplyMatches
  <2>1. CASE c = call
      BY <1>2, <1>4, <1>5, <2>1 DEF TypeOK, Calls
  <2>2. CASE c # call
    <3>1. result[c] \in Calls /\ result'[c] = result[c] /\ c < call
        BY <1>2, <1>5, <2>2, MaxCallsAssumption DEF TypeOK, Calls, NoResultYet, NONE
    <3> QED
        BY <1>2, <1>5, <3>1 DEF TypeOK, ReplyMatches, Calls
  <2> QED
      BY <2>1, <2>2
<1> QED
    BY <1>6, <1>7, <1>8, <1>9, <1>10, <1>11, <1>12

-----------------------------------------------------------------------------
(* The steps of the receiver. *)

LEMMA RepeatStep ==
    ASSUME IInv, NEW m \in toRx, RepeatLast(m)
    PROVE  IInv'
<1> USE DEF IInv, RepeatLast, txVars, rxVars
<1>1. TypeOK'
    BY DEF TypeOK
<1>2. RepliesTrue'
    BY DEF RepliesTrue
<1>3. /\ SeqWindow' /\ Reached' /\ OneSeqPerRequest' /\ ExecutedInOrder'
      /\ ReusedOnlyAfterFailure' /\ NoResultYet' /\ HandedOut' /\ ReplyMatches'
    BY DEF SeqWindow, Reached, OneSeqPerRequest, ExecutedInOrder,
           ReusedOnlyAfterFailure, NoResultYet, HandedOut, ReplyMatches, Busy
<1> QED
    BY <1>1, <1>2, <1>3

LEMMA ProcessStep ==
    ASSUME IInv, NEW m \in toRx, Process(m)
    PROVE  IInv'
<1> USE DEF IInv, Process, txVars
<1>1. m \in Msg /\ m = [seq |-> rxSeq, req |-> m.req] /\ m.req \in Calls
    BY DEF TypeOK, Msg
<1>2. rxSeq = txSeq
    BY DEF TypeOK, SeqWindow, Reached
<1>3. /\ Len(executed') = rxSeq
      /\ DOMAIN executed' = 1..rxSeq /\ DOMAIN executed = 1..(rxSeq - 1)
      /\ executed'[rxSeq] = m.req
      /\ \A s \in DOMAIN executed : executed'[s] = executed[s]
    BY <1>1 DEF TypeOK, ExecutedInOrder
<1>4. TypeOK'
  <2>1. executed' \in Seq(Calls) /\ lastResp' \in SUBSET Msg
    BY <1>1 DEF TypeOK, Msg
  <2>2. toTx' \in SUBSET Msg
    BY <2>1 DEF TypeOK
  <2>3. rxSeq' \in Nat \ {0}
    BY DEF TypeOK
  <2>4. rxUp' \in BOOLEAN
    BY Zenon DEF TypeOK
  <2> QED
    BY <2>1, <2>2, <2>3, <2>4 DEF TypeOK
<1>5. SeqWindow'
    BY <1>2 DEF TypeOK, SeqWindow
<1>6. Reached' /\ OneSeqPerRequest' /\ ReusedOnlyAfterFailure' /\ NoResultYet' /\ ReplyMatches'
    BY DEF Reached, OneSeqPerRequest, ReusedOnlyAfterFailure, NoResultYet, ReplyMatches, Busy
<1>7. ExecutedInOrder'
  <2>1. \A s \in DOMAIN executed' : s = rxSeq \/ s \in DOMAIN executed
    BY <1>3 DEF TypeOK
  <2>2. [seq |-> rxSeq, req |-> executed'[rxSeq]] \in toRx
    BY <1>1, <1>3
  <2>3. Len(executed') = rxSeq' - 1
    BY <1>3 DEF TypeOK
  <2> QED
    BY <1>3, <2>1, <2>2, <2>3 DEF ExecutedInOrder
<1>8. RepliesTrue'
  <2>1. toTx' \cup lastResp' \subseteq toTx \cup {[seq |-> rxSeq, req |-> m.req]}
    OBVIOUS
  <2>2. rxSeq \in DOMAIN executed' /\ DOMAIN executed \subseteq DOMAIN executed'
    BY <1>3 DEF TypeOK
  <2> QED
    BY <1>3, <2>1, <2>2 DEF RepliesTrue
<1>9. HandedOut'
    BY <1>3 DEF TypeOK, HandedOut
<1> QED
    BY <1>4, <1>5, <1>6, <1>7, <1>8, <1>9

LEMMA ServerExitsStep ==
    ASSUME IInv, ServerExits
    PROVE  IInv'
BY DEF IInv, ServerExits, txVars, TypeOK, SeqWindow, Reached, OneSeqPerRequest, ExecutedInOrder,
       RepliesTrue, ReusedOnlyAfterFailure, NoResultYet, HandedOut, ReplyMatches, Busy

LEMMA StepIInv == IInv /\ [Next]_vars => IInv'
<1> SUFFICES ASSUME IInv, [Next]_vars PROVE IInv'
    OBVIOUS
<1>1. CASE Call
    BY <1>1, CallStep
<1>2. CASE Send
    BY <1>2, SendStep
<1>3. CASE GiveUp \/ Abort
    BY <1>3, FailStep
<1>4. CASE AwaitFails \/ (\E m \in toTx : SkipResponse(m))
    BY <1>4, RetryStep
<1>5. ASSUME NEW m \in toTx, AcceptResponse(m) PROVE IInv'
    BY <1>5, AcceptStep
<1>6. ASSUME NEW m \in toRx, RepeatLast(m) \/ Process(m) PROVE IInv'
    BY <1>6, RepeatStep, ProcessStep
<1>7. CASE ServerExits
    BY <1>7, ServerExitsStep
<1>8. CASE UNCHANGED vars
    BY <1>8 DEF vars, IInv, TypeOK, SeqWindow, Reached, OneSeqPerRequest, ExecutedInOrder,
       RepliesTrue, ReusedOnlyAfterFailure, NoResultYet, HandedOut, ReplyMatches, Busy
<1> QED
    BY <1>1, <1>2, <1>3, <1>4, <1>5, <1>6, <1>7, <1>8 DEF Next

LEMMA NoRequestTwice == IInv => AtMostOnce
BY DEF IInv, ExecutedInOrder, OneSeqPerRequest, AtMostOnce

LEMMA SpecIInv == Spec => []IInv
BY InitIInv, StepIInv, PTL DEF Spec

-----------------------------------------------------------------------------
(***************************************************************************)
(* The variables of both ends keep their types.                            *)
(***************************************************************************)
THEOREM TypeCorrect == Spec => []TypeOK
<1>1. IInv => TypeOK
    BY DEF IInv
<1> QED
    BY SpecIInv, <1>1, PTL

(***************************************************************************)
(* Sender and receiver never drift apart by more than one message          *)
(* (m_expectedSeqNum of StopWaitTx and of StopWaitRx).                     *)
(***************************************************************************)
THEOREM EndsInStep == Spec => []SeqWindow
<1>1. IInv => SeqWindow
    BY DEF IInv
<1> QED
    BY SpecIInv, <1>1, PTL

(***************************************************************************)
(* The server executes no request twice (StopWaitRx::incommingCapsule).    *)
(***************************************************************************)
THEOREM ExecutedAtMostOnce == Spec => []AtMostOnce
BY SpecIInv, NoRequestTwice, PTL

(***************************************************************************)
(* A successful call returns the reply to its own request, or to an        *)
(* earlier one all of whose successors have failed and were ignored        *)
(* (StopWaitTx::sendReliableMessage).                                      *)
(***************************************************************************)
THEOREM RepliesMatch == Spec => []ReplyMatches
<1>1. IInv => ReplyMatches
    BY DEF IInv
<1> QED
    BY SpecIInv, <1>1, PTL

-----------------------------------------------------------------------------
(***************************************************************************)
(* The refinement: sending, waiting and repeating are stutters of          *)
(* RemoteCall; a request is executed where the receiver accepts it.        *)
(***************************************************************************)
LEMMA AbstractInit == Init => RC!Init
BY DEF Init, RC!Init, Answered, Calls, NONE

LEMMA AnsweredUnchanged ==
    ASSUME result' = result
    PROVE  Answered' = Answered
BY DEF Answered

(* Steps that change neither the calls nor what was executed. *)
LEMMA AbstractStutter ==
    ASSUME Send \/ AwaitFails \/ ServerExits
           \/ (\E m \in toTx : SkipResponse(m)) \/ (\E m \in toRx : RepeatLast(m))
    PROVE  UNCHANGED RC!vars
<1>1. UNCHANGED <<call, executed, result>> /\ Busy' = Busy
    BY DEF Send, AwaitFails, ServerExits, SkipResponse, RepeatLast, txVars, rxVars, Busy
<1> QED
    BY <1>1, AnsweredUnchanged DEF RC!vars, Busy

LEMMA AbstractIssue ==
    ASSUME Call
    PROVE  RC!Issue
BY AnsweredUnchanged DEF Call, rxVars, RC!Issue

LEMMA AbstractFail ==
    ASSUME IInv, GiveUp \/ Abort
    PROVE  RC!Fail
<1>1. Busy /\ ~Busy' /\ UNCHANGED <<call, executed>>
    BY DEF GiveUp, Abort, ReturnFalse, Busy, rxVars
<1>2. /\ call \in Calls /\ result[call] = NONE
      /\ result' = [result EXCEPT ![call] = FAILED]
    BY <1>1 DEF IInv, TypeOK, NoResultYet, Busy, Calls, GiveUp, Abort, ReturnFalse
<1>3. \A c \in Calls : /\ result'[c] \in Calls <=> result[c] \in Calls
                       /\ result[c] \in Calls => result'[c] = result[c]
    BY <1>2, MaxCallsAssumption DEF IInv, TypeOK, Calls, NONE, FAILED
<1>4. Answered' = Answered
    BY <1>3 DEF Answered
<1> QED
    BY <1>1, <1>4 DEF RC!Fail, Busy

LEMMA AbstractSucceed ==
    ASSUME IInv, NEW m \in toTx, AcceptResponse(m)
    PROVE  RC!Succeed
<1> USE DEF IInv
<1>1. /\ txSeq \in DOMAIN executed /\ m.req = executed[txSeq] /\ txSeq \in Nat \ {0}
      /\ m.req \in Calls
    BY DEF TypeOK, Msg, RepliesTrue, AcceptResponse
<1>2. txSeq = Len(executed)
    BY <1>1 DEF TypeOK, SeqWindow, ExecutedInOrder
<1>3. /\ call \in Calls /\ result[call] = NONE
      /\ result' = [result EXCEPT ![call] = m.req]
    BY DEF TypeOK, NoResultYet, Busy, Calls, AcceptResponse
<1>4. \A a \in Answered : a[2] # m.req
  <2> SUFFICES ASSUME NEW c \in Calls, result[c] \in Calls PROVE result[c] # m.req
      BY DEF Answered
  <2>1. PICK s \in DOMAIN executed : s < txSeq /\ executed[s] = result[c]
      BY DEF HandedOut
  <2> QED
      BY <1>1, <2>1, NoRequestTwice DEF AtMostOnce
<1>5. Answered' = Answered \cup {<<call, m.req>>}
  <2>1. \A c \in Calls : c # call => result'[c] = result[c]
      BY <1>3 DEF TypeOK
  <2>2. result'[call] = m.req /\ result[call] \notin Calls
      BY <1>3, MaxCallsAssumption DEF TypeOK, Calls, NONE
  <2> QED
      BY <1>1, <1>3, <2>1, <2>2 DEF Answered
<1> QED
    BY <1>1, <1>2, <1>4, <1>5 DEF AcceptResponse, rxVars, RC!Succeed

LEMMA AbstractExecute ==
    ASSUME IInv, NEW m \in toRx, Process(m)
    PROVE  m.req \in 1..call /\ RC!Execute(m.req)
<1> USE DEF IInv, Process, txVars
<1>1. m.req \in 1..call
    BY DEF TypeOK, Msg, Calls, Reached
<1>2. \A i \in DOMAIN executed : executed[i] # m.req
  <2> SUFFICES ASSUME NEW i \in DOMAIN executed, executed[i] = m.req PROVE FALSE
      OBVIOUS
  <2>1. [seq |-> i, req |-> executed[i]] \in toRx /\ i < rxSeq
      BY DEF TypeOK, ExecutedInOrder
  <2>2. m.seq = i
      BY <2>1 DEF OneSeqPerRequest
  <2> QED
      BY <2>1, <2>2 DEF TypeOK
<1> QED
    BY <1>1, <1>2, AnsweredUnchanged DEF RC!Execute

LEMMA AbstractStep == IInv /\ [Next]_vars => [RC!Next]_(RC!vars)
<1> SUFFICES ASSUME IInv, [Next]_vars PROVE [RC!Next]_(RC!vars)
    OBVIOUS
<1>1. CASE Call
    BY <1>1, AbstractIssue DEF RC!Next
<1>2. CASE GiveUp \/ Abort
    BY <1>2, AbstractFail DEF RC!Next
<1>3. ASSUME NEW m \in toTx, AcceptResponse(m) PROVE RC!Next
    BY <1>3, AbstractSucceed DEF RC!Next
<1>4. ASSUME NEW m \in toRx, Process(m) PROVE RC!Next
    BY <1>4, AbstractExecute DEF RC!Next
<1>5. CASE \/ Send \/ AwaitFails \/ ServerExits
           \/ \E m \in toTx : SkipResponse(m)
           \/ \E m \in toRx : RepeatLast(m)
    BY <1>5, AbstractStutter
<1>6. CASE UNCHANGED vars
    BY <1>6, AnsweredUnchanged DEF vars, RC!vars
<1> QED
    BY <1>1, <1>2, <1>3, <1>4, <1>5, <1>6 DEF Next

(***************************************************************************)
(* The exchange keeps the promise of RemoteCall: a request is executed at  *)
(* most once and a reply reaches at most one caller.                       *)
(***************************************************************************)
THEOREM RemoteCallRefinement == Spec => ImplementsRemoteCall
BY AbstractInit, SpecIInv, AbstractStep, PTL DEF Spec, ImplementsRemoteCall, RC!Spec
=============================================================================
