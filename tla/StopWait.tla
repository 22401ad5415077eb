------------------------------ MODULE StopWait ------------------------------
(***************************************************************************)
(* The stop-and-wait exchange of the shell: StopWaitTx of one client       *)
(* (src/shell/stopwaittx.cpp) and the StopWaitRx of its session in the     *)
(* shell server (src/shell/stopwaitrx.cpp), over the capsule network.      *)
(*                                                                         *)
(* The network drops capsules (tail drop on every queue, a lost line),     *)
(* duplicates them (CNode::run sends on every interface whose peer         *)
(* matches), delays and reorders them.  A capsule that was sent stays in   *)
(* flight: it may be delivered never, once, or again at any later time.    *)
(*                                                                         *)
(* The payload of a request is the number of the call that sends it; the   *)
(* payload of a response is the request it answers.                        *)
(***************************************************************************)
EXTENDS Integers, Sequences, FiniteSets

CONSTANTS Repetitions,   \* m_repetitions (shell_client.cpp passes 3)
          Ignored,       \* the calls whose failure the client ignores (clientsession.cpp:150)
          MaxCalls       \* bound on the calls the client makes

ASSUME RepetitionsAssumption == Repetitions \in Nat
ASSUME MaxCallsAssumption == MaxCalls \in Nat

VARIABLES txPc,       \* "idle", "send" (top of the loop), "await" or "stopped"
          txSeq,      \* StopWaitTx::m_expectedSeqNum
          tries,      \* the local of sendReliableMessage
          call,       \* the number of calls made; the last one is the current request
          result,     \* what each call returned
          rxUp,       \* the server process is running
          rxSeq,      \* StopWaitRx::m_expectedSeqNum
          lastResp,   \* m_lastSerializedCapsule: empty or one response
          executed,   \* the requests processDatagram accepted, in order
          toRx,       \* request capsules sent
          toTx        \* response capsules sent

txVars  == <<txPc, txSeq, tries, call, result>>
rxVars  == <<rxUp, rxSeq, lastResp, executed>>
vars == <<txPc, txSeq, tries, call, result, rxUp, rxSeq, lastResp, executed, toRx, toTx>>

Calls == 1..MaxCalls
NONE == 0          \* the call has not returned
FAILED == -1       \* sendReliableMessage returned false

Msg == [seq : Nat \ {0}, req : Calls]

-----------------------------------------------------------------------------
Init ==
    /\ txPc = "idle" /\ txSeq = 1 /\ tries = 0 /\ call = 0
    /\ result = [c \in Calls |-> NONE]
    /\ rxUp = TRUE /\ rxSeq = 1 /\ lastResp = {} /\ executed = <<>>
    /\ toRx = {} /\ toTx = {}

-----------------------------------------------------------------------------
(* StopWaitTx::sendReliableMessage, as ClientSession calls it. *)

Call ==
    /\ txPc = "idle"
    /\ call < MaxCalls
    /\ call' = call + 1
    /\ tries' = Repetitions
    /\ txPc' = "send"
    /\ UNCHANGED <<txSeq, result, rxVars, toRx, toTx>>

(* return false; the client then gives up, unless it ignores this failure. *)
ReturnFalse ==
    /\ result' = [result EXCEPT ![call] = FAILED]
    /\ txPc' = IF call \in Ignored THEN "idle" ELSE "stopped"

(* A slip: the loop runs while (tries >= 0). *)
SendOnceMore ==
    /\ txPc = "send"
    /\ toRx' = toRx \cup {[seq |-> txSeq, req |-> call]}
    /\ txPc' = "await"
    /\ UNCHANGED <<txSeq, tries, call, result, rxVars, toTx>>

Send ==
    /\ txPc = "send"
    /\ tries > 0
    /\ toRx' = toRx \cup {[seq |-> txSeq, req |-> call]}
    /\ txPc' = "await"
    /\ UNCHANGED <<txSeq, tries, call, result, rxVars, toTx>>

(* A slip: a failed call advances the sequence number as well. *)
GiveUpAndAdvance ==
    /\ txPc = "send"
    /\ tries = 0
    /\ ReturnFalse
    /\ txSeq' = txSeq + 1
    /\ UNCHANGED <<tries, call, rxVars, toRx, toTx>>

(* while (tries > 0) is left: every repetition was used up. *)
GiveUp ==
    /\ txPc = "send"
    /\ tries = 0
    /\ ReturnFalse
    /\ UNCHANGED <<txSeq, tries, call, rxVars, toRx, toTx>>

(* sendCapsule fails, or a capsule of the server's port is not a response. *)
Abort ==
    /\ \/ txPc = "send" /\ tries > 0
       \/ txPc = "await"
    /\ ReturnFalse
    /\ UNCHANGED <<txSeq, tries, call, rxVars, toRx, toTx>>

(* A slip: a repetition is not counted. *)
AwaitForFree ==
    /\ txPc = "await"
    /\ txPc' = "send"
    /\ UNCHANGED <<txSeq, tries, call, result, rxVars, toRx, toTx>>

(* awaitDatagram returns false: a timeout, or a capsule of somebody else. *)
AwaitFails ==
    /\ txPc = "await"
    /\ tries' = tries - 1
    /\ txPc' = "send"
    /\ UNCHANGED <<txSeq, call, result, rxVars, toRx, toTx>>

(* A late response to an earlier request uses up one repetition. *)
SkipResponse(m) ==
    /\ txPc = "await"
    /\ m \in toTx
    /\ m.seq # txSeq
    /\ tries' = tries - 1
    /\ txPc' = "send"
    /\ UNCHANGED <<txSeq, call, result, rxVars, toRx, toTx>>

(* A slip: the sequence number of the response is not compared. *)
AcceptAnyResponse(m) ==
    /\ txPc = "await"
    /\ m \in toTx
    /\ result' = [result EXCEPT ![call] = m.req]
    /\ txSeq' = txSeq + 1
    /\ txPc' = "idle"
    /\ UNCHANGED <<tries, call, rxVars, toRx, toTx>>

AcceptResponse(m) ==
    /\ txPc = "await"
    /\ m \in toTx
    /\ m.seq = txSeq
    /\ result' = [result EXCEPT ![call] = m.req]
    /\ txSeq' = txSeq + 1
    /\ txPc' = "idle"
    /\ UNCHANGED <<tries, call, rxVars, toRx, toTx>>

-----------------------------------------------------------------------------
(* StopWaitRx::incommingCapsule, as the loop of shell_server.cpp calls it:  *)
(* when it returns false the process exits.                                 *)

(* rxseq != m_expectedSeqNum: repeat the last response; a failure to send is ignored. *)
RepeatLast(m) ==
    /\ rxUp
    /\ m \in toRx
    /\ m.seq # rxSeq
    /\ toTx' = toTx \cup lastResp
    /\ UNCHANGED <<txVars, rxVars, toRx>>

(* A slip: the sequence number of the request is not compared. *)
ProcessAnySeq(m) ==
    /\ rxUp
    /\ m \in toRx
    /\ executed' = Append(executed, m.req)
    /\ rxSeq' = rxSeq + 1
    /\ lastResp' = {[seq |-> rxSeq, req |-> m.req]}
    /\ \/ toTx' = toTx \cup lastResp' /\ UNCHANGED rxUp
       \/ rxUp' = FALSE /\ UNCHANGED toTx
    /\ UNCHANGED <<txVars, toRx>>

Process(m) ==
    /\ rxUp
    /\ m \in toRx
    /\ m.seq = rxSeq
    /\ executed' = Append(executed, m.req)
    /\ rxSeq' = rxSeq + 1
    /\ lastResp' = {[seq |-> rxSeq, req |-> m.req]}
    /\ \/ toTx' = toTx \cup lastResp' /\ UNCHANGED rxUp
       \/ rxUp' = FALSE /\ UNCHANGED toTx      \* sendCapsule failed
    /\ UNCHANGED <<txVars, toRx>>

(***************************************************************************)
(* processDatagram returned false for this request, or incommingCapsule    *)
(* returned false for a capsule of any other client: the server is gone,   *)
(* with the sessions of all clients.                                       *)
(***************************************************************************)
ServerExits ==
    /\ rxUp
    /\ rxUp' = FALSE
    /\ UNCHANGED <<txVars, rxSeq, lastResp, executed, toRx, toTx>>

-----------------------------------------------------------------------------
Next ==
    \/ Call \/ Send \/ GiveUp \/ Abort \/ AwaitFails
    \/ \E m \in toTx : SkipResponse(m) \/ AcceptResponse(m)
    \/ \E m \in toRx : RepeatLast(m) \/ Process(m)
    \/ ServerExits

Spec == Init /\ [][Next]_vars

(***************************************************************************)
(* Fairness: the client's thread runs, and waitForCapsule returns within   *)
(* its timeout.  Nothing is assumed of the network or of the server.       *)
(***************************************************************************)
FairSpec == Spec /\ WF_vars(Send \/ GiveUp) /\ WF_vars(AwaitFails)

-----------------------------------------------------------------------------
TypeOK ==
    /\ txPc \in {"idle", "send", "await", "stopped"}
    /\ txSeq \in Nat \ {0}
    /\ tries \in 0..Repetitions
    /\ (txPc = "await" => tries > 0)
    /\ call \in 0..MaxCalls
    /\ (txPc # "idle" => call > 0)
    /\ result \in [Calls -> {NONE, FAILED} \cup Calls]
    /\ rxUp \in BOOLEAN
    /\ rxSeq \in Nat \ {0}
    /\ lastResp \in SUBSET Msg
    /\ executed \in Seq(Calls)
    /\ toRx \in SUBSET Msg
    /\ toTx \in SUBSET Msg

(***************************************************************************)
(* The two ends never drift: the receiver expects the number the sender    *)
(* uses, or the one after it when the response is still on its way,        *)
(* whatever was lost, repeated or delayed.                                 *)
(***************************************************************************)
SeqWindow == rxSeq \in {txSeq, txSeq + 1}

(***************************************************************************)
(* No request is executed twice, although every request is repeated and    *)
(* its capsules arrive at any time, even after the call has failed.        *)
(***************************************************************************)
AtMostOnce ==
    \A i, j \in DOMAIN executed : executed[i] = executed[j] => i = j

(***************************************************************************)
(* A call that succeeds returns the reply to its own request - or, and     *)
(* only then, to an earlier request when that call and every call since    *)
(* has failed and the client went on: sendReliableMessage does not advance *)
(* m_expectedSeqNum on failure, so the next request reuses the number of   *)
(* the lost one and the server repeats the reply it has already given.     *)
(***************************************************************************)
ReplyMatches ==
    \A c \in Calls : result[c] \in Calls =>
        /\ result[c] <= c
        /\ \A d \in result[c] .. (c - 1) : result[d] = FAILED /\ d \in Ignored

(* sendReliableMessage always returns, whatever happens to network and server. *)
SendReturns == (txPc \in {"send", "await"}) ~> (txPc \in {"idle", "stopped"})

(***************************************************************************)
(* The exchange implements RemoteCall: at most one execution of a request, *)
(* at most one caller for a reply.                                         *)
(***************************************************************************)
Answered == {<<c, result[c]>> : c \in {d \in Calls : result[d] \in Calls}}
RC == INSTANCE RemoteCall WITH
        active <- txPc \in {"send", "await"},
        answered <- Answered
ImplementsRemoteCall == RC!Spec
=============================================================================
