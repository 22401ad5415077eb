----------------------------- MODULE RemoteCall -----------------------------
(***************************************************************************)
(* What a caller of StopWaitTx::sendReliableMessage                        *)
(* (src/shell/stopwaittx.cpp) may rely on.  Calls are numbered 1, 2, ...   *)
(* and a call carries its number as the request.  The server executes a    *)
(* request at most once; a call that succeeds is handed the reply to the   *)
(* request executed last, and no reply is handed out twice.  Nothing is    *)
(* said here of sequence numbers, retransmissions or capsules.             *)
(***************************************************************************)
EXTENDS Integers, Sequences

VARIABLES call,       \* the number of calls made so far
          active,     \* the last of them has not returned
          executed,   \* the requests executed by the server, in order
          answered    \* <<call, request>>: the call returned with the reply to the request

vars == <<call, active, executed, answered>>

Init == call = 0 /\ active = FALSE /\ executed = <<>> /\ answered = {}

Issue ==
    /\ ~active
    /\ call' = call + 1
    /\ active' = TRUE
    /\ UNCHANGED <<executed, answered>>

(* A request may be executed after its call has failed. *)
Execute(r) ==
    /\ r \in 1..call
    /\ \A i \in DOMAIN executed : executed[i] # r
    /\ executed' = Append(executed, r)
    /\ UNCHANGED <<call, active, answered>>

Succeed ==
    /\ active
    /\ executed # <<>>
    /\ LET r == executed[Len(executed)] IN
         /\ \A a \in answered : a[2] # r
         /\ answered' = answered \cup {<<call, r>>}
    /\ active' = FALSE
    /\ UNCHANGED <<call, executed>>

Fail ==
    /\ active
    /\ active' = FALSE
    /\ UNCHANGED <<call, executed, answered>>

Next == Issue \/ (\E r \in 1..call : Execute(r)) \/ Succeed \/ Fail

Spec == Init /\ [][Next]_vars
=============================================================================
