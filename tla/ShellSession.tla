---------------------------- MODULE ShellSession ----------------------------
(***************************************************************************)
(* The shell: clients (src/shell/clientsession.cpp) that log in and send   *)
(* commands, and the server process (src/shell/shell_server.cpp) with one  *)
(* Session (src/shell/session.cpp) for each address and port a capsule     *)
(* ever came from (src/shell/sessionmanager.hpp).                          *)
(*                                                                         *)
(* StopWait has the exchange of one message in detail.  Here a client that *)
(* waits has its request in the network, which repeats, delays and reorders*)
(* it, and may give up at any time; what matters is what the two automata  *)
(* make of messages of the wrong phase, of an earlier run of the client or *)
(* of an earlier life of the server.                                       *)
(*                                                                         *)
(* SRP and the ciphers are what they promise: the server's challenge of a  *)
(* login is new each time (random.getRandom), M1 is right exactly if it    *)
(* was made with the right password for this challenge, and a datagram     *)
(* decrypts exactly under the key and the sequence number it was made with.*)
(***************************************************************************)
EXTENDS Integers, Sequences, FiniteSets

CONSTANTS Ports,         \* the client ports, each on the address of its node
          MaxRuns,       \* bound on the number of client programs started
          MaxCommands,   \* bound on the commands one user types
          MaxRestarts,   \* bound on the restarts of the server
          Words          \* what a user may type

ASSUME BoundsAssumption ==
    MaxRuns \in Nat /\ MaxCommands \in Nat /\ MaxRestarts \in Nat

VARIABLES
    \* the clients
    client,      \* for each port: the program that uses it, see Idle
    runs,        \* how many client programs were started
    cred,        \* what the user of each of them typed: "good", "badpw", "nouser"
    outcome,     \* how each of them ended
    shown,       \* for each of them, the answers shown, see Show
    \* the server
    srv,         \* "up", "down" (stopped) or "failed" (return -6 for a request)
    restarts,    \* how many times it was started again
    sess,        \* SessionManager::sessionStorage
    challenges,  \* how many verificators were made
    ran,         \* the commands processApplicationDatagram was given, in order
    \* the network
    toSrv, toCli

cliVars == <<client, runs, cred, outcome, shown>>
srvVars == <<srv, restarts, sess, challenges, ran>>
vars == <<client, runs, cred, outcome, shown, srv, restarts, sess, challenges, ran, toSrv, toCli>>

Runs == 1..MaxRuns
Creds == {"good", "badpw", "nouser"}
Hostname == 0                       \* the command a client sends of itself
Commands == 0..MaxCommands
NoKey == <<0, 0>>                   \* a session key is a client run and a challenge

-----------------------------------------------------------------------------
(* Messages.  key is <<A, B>>: the client's and the server's share.         *)

Request(p, s, t, k, c, w) == [port |-> p, seq |-> s, type |-> t, key |-> k, cmd |-> c, word |-> w]
Reply(s, t, e, k, c, a) == [seq |-> s, type |-> t, err |-> e, key |-> k, cmd |-> c, answer |-> a]

(***************************************************************************)
(* processApplicationDatagram: result overwrites every other response, so  *)
(* help and each failure of the node are answered "Unknown command" -      *)
(* except for version, to which the server adds its own.                   *)
(***************************************************************************)
Answers(w) ==
    CASE w = "version" -> {"version", "half_version"}
      [] w \in {"hostname", "uptime", "peers"} -> {w, "unknown"}
      [] OTHER -> {"unknown"}

-----------------------------------------------------------------------------
NoSession == [live |-> FALSE, seq |-> 0, last |-> {}, state |-> "ZERO", key |-> NoKey]

(* Session::Session *)
NewSession == [live |-> TRUE, seq |-> 1, last |-> {}, state |-> "ZERO", key |-> NoKey]

(* SessionManager::getSession finds a session or creates one; none is ever removed. *)
SessionOf(p) == IF sess[p].live THEN sess[p] ELSE NewSession

Idle == [pc |-> "off", run |-> 0, seq |-> 0, key |-> NoKey, cmd |-> 0, word |-> "hostname"]

(* A new StopWaitTx starts with sequence number 1. *)
Program(r) == [pc |-> "A", run |-> r, seq |-> 1, key |-> NoKey, cmd |-> 0, word |-> "hostname"]

Init ==
    /\ client = [p \in Ports |-> Idle]
    /\ runs = 0
    /\ cred = [r \in Runs |-> "good"]
    /\ outcome = [r \in Runs |-> "none"]
    /\ shown = [r \in Runs |-> {}]
    /\ srv = "up" /\ restarts = 0 /\ challenges = 0 /\ ran = <<>>
    /\ sess = [p \in Ports |-> NoSession]
    /\ toSrv = {} /\ toCli = [p \in Ports |-> {}]

-----------------------------------------------------------------------------
(* ClientSession.  pc is the message whose answer is awaited, or "prompt". *)

Waiting(p) == client[p].pc \in {"A", "B", "C"}

(* The program ends; its port may be given to another one. *)
End(p, how) ==
    /\ outcome' = [outcome EXCEPT ![client[p].run] = how]
    /\ client' = [client EXCEPT ![p] = Idle]

(* The program goes on: what it does next, with which number, key and command. *)
GoesOn(p, pc, s, k, c, w) ==
    client' = [client EXCEPT ![p] =
                  [pc |-> pc, run |-> @.run, seq |-> s, key |-> k, cmd |-> c, word |-> w]]

(* The user is prompted for the next command. *)
Prompt(p, s) == GoesOn(p, "prompt", s, client[p].key, client[p].cmd, client[p].word)

(* main of shell_client.cpp *)
Start(p) ==
    /\ client[p].pc = "off"
    /\ runs < MaxRuns
    /\ LET r == runs + 1 IN
         /\ runs' = r
         /\ \E c \in Creds : cred' = [cred EXCEPT ![r] = c]
         /\ client' = [client EXCEPT ![p] = Program(r)]
         /\ toSrv' = toSrv \cup {Request(p, 1, "A", <<r, 0>>, 0, "hostname")}
    /\ UNCHANGED <<outcome, shown, srvVars, toCli>>

(* The answer to A: a challenge, to which M1 is sent, or a refusal. *)
LoginAnswer(p, m) ==
    /\ client[p].pc = "A" /\ m \in toCli[p] /\ m.seq = client[p].seq
    /\ IF m.type = "P" /\ m.err = "ok"
       THEN LET k == <<client[p].run, m.key[2]>> IN
              /\ GoesOn(p, "B", m.seq + 1, k, client[p].cmd, client[p].word)
              /\ toSrv' = toSrv \cup {Request(p, m.seq + 1, "B", k, 0, "hostname")}
              /\ UNCHANGED outcome
       ELSE /\ End(p, IF m.type = "P" /\ m.err = "user_not_found" THEN "refused" ELSE "failed")
            /\ UNCHANGED toSrv
    /\ UNCHANGED <<runs, cred, shown, srvVars, toCli>>

(* getShellServerResponse encrypts with the sequence number that comes next. *)
Ask(p, s, c, w) ==
    /\ GoesOn(p, "C", s, client[p].key, c, w)
    /\ toSrv' = toSrv \cup {Request(p, s, "C", client[p].key, c, w)}

(* A slip: M2 is not compared. *)
ProofAnswerTrusting(p, m) ==
    /\ client[p].pc = "B" /\ m \in toCli[p] /\ m.seq = client[p].seq
    /\ Ask(p, m.seq + 1, Hostname, "hostname")
    /\ UNCHANGED <<runs, cred, outcome, shown, srvVars, toCli>>

(* The answer to B: M2 proves that the server has the same key. *)
ProofAnswer(p, m) ==
    /\ client[p].pc = "B" /\ m \in toCli[p] /\ m.seq = client[p].seq
    /\ IF m.type = "Q" /\ m.err = "ok" /\ m.key = client[p].key
       THEN Ask(p, m.seq + 1, Hostname, "hostname") /\ UNCHANGED outcome
       ELSE /\ End(p, IF m.type = "Q" /\ m.err = "authentication_failed" THEN "refused" ELSE "failed")
            /\ UNCHANGED toSrv
    /\ UNCHANGED <<runs, cred, shown, srvVars, toCli>>

(* The answer m is shown for the command c. *)
Show(c, m) == [asked |-> c, cmd |-> m.cmd, answer |-> m.answer]

(***************************************************************************)
(* The answer to a command.  An error ends the client unless the command   *)
(* was hostname; what decryptAndVerifyMac throws nobody catches.           *)
(***************************************************************************)
CommandAnswer(p, m) ==
    /\ client[p].pc = "C" /\ m \in toCli[p] /\ m.seq = client[p].seq
    /\ \/ /\ m.type = "R" /\ m.key = client[p].key
          /\ shown' = [shown EXCEPT ![client[p].run] = @ \cup {Show(client[p].cmd, m)}]
          /\ Prompt(p, m.seq + 1)
          /\ UNCHANGED outcome
       \/ m.type = "R" /\ m.key # client[p].key /\ End(p, "aborted") /\ UNCHANGED shown
       \/ /\ m.type # "R" /\ client[p].cmd = Hostname
          /\ Prompt(p, m.seq + 1)
          /\ UNCHANGED <<outcome, shown>>
       \/ m.type # "R" /\ client[p].cmd # Hostname /\ End(p, "failed") /\ UNCHANGED shown
    /\ UNCHANGED <<runs, cred, srvVars, toSrv, toCli>>

(* A slip: the user is asked for the next command when one has failed. *)
GiveUpGoOn(p) ==
    /\ Waiting(p)
    /\ IF client[p].pc = "C"
       THEN Prompt(p, client[p].seq) /\ UNCHANGED outcome
       ELSE End(p, "gave_up")
    /\ UNCHANGED <<runs, cred, shown, srvVars, toSrv, toCli>>

(* sendReliableMessage returns false; for hostname the client goes on with the same number. *)
GiveUp(p) ==
    /\ Waiting(p)
    /\ IF client[p].pc = "C" /\ client[p].cmd = Hostname
       THEN Prompt(p, client[p].seq) /\ UNCHANGED outcome
       ELSE End(p, "gave_up")
    /\ UNCHANGED <<runs, cred, shown, srvVars, toSrv, toCli>>

UserCommand(p) ==
    /\ client[p].pc = "prompt"
    /\ client[p].cmd < MaxCommands
    /\ \E w \in Words : Ask(p, client[p].seq, client[p].cmd + 1, w)
    /\ UNCHANGED <<runs, cred, outcome, shown, srvVars, toCli>>

(* "exit", or the program is killed. *)
Exit(p) ==
    /\ client[p].pc # "off"
    /\ End(p, "exit")
    /\ UNCHANGED <<runs, cred, shown, srvVars, toSrv, toCli>>

-----------------------------------------------------------------------------
(* The server. *)

(* incommingCapsule: a number that is not expected has the last response repeated. *)
Repeat(m) ==
    /\ srv = "up" /\ m \in toSrv
    /\ m.seq # SessionOf(m.port).seq
    /\ sess' = [sess EXCEPT ![m.port] = SessionOf(m.port)]
    /\ toCli' = [toCli EXCEPT ![m.port] = @ \cup SessionOf(m.port).last]
    /\ UNCHANGED <<cliVars, srv, restarts, challenges, ran, toSrv>>

(* A slip: the sequence number of a request is not compared. *)
ExpectedAny(m) == srv = "up" /\ m \in toSrv

Expected(m) == srv = "up" /\ m \in toSrv /\ m.seq = SessionOf(m.port).seq

(* A slip: the reply is not kept. *)
RespondForgetting(m, r, newState, k) ==
    /\ sess' = [sess EXCEPT ![m.port] =
                  [live |-> TRUE, seq |-> m.seq + 1, last |-> {}, state |-> newState, key |-> k]]
    /\ toCli' = [toCli EXCEPT ![m.port] = @ \cup {r}]
    /\ UNCHANGED <<cliVars, srv, restarts, toSrv>>

(* processDatagram returned true: the reply is kept, the number advances. *)
Respond(m, r, newState, k) ==
    /\ sess' = [sess EXCEPT ![m.port] =
                  [live |-> TRUE, seq |-> m.seq + 1, last |-> {r}, state |-> newState, key |-> k]]
    /\ toCli' = [toCli EXCEPT ![m.port] = @ \cup {r}]
    /\ UNCHANGED <<cliVars, srv, restarts, toSrv>>

(* A slip: the server's share is the same in every life of the server. *)
ZeroSameChallenge(m) ==
    /\ Expected(m) /\ SessionOf(m.port).state = "ZERO"
    /\ m.type = "A" /\ cred[m.key[1]] # "nouser"
    /\ LET k == <<m.key[1], 1>> IN
         Respond(m, Reply(m.seq, "P", "ok", k, 0, "none"), "ALPHA", k)
    /\ UNCHANGED <<challenges, ran>>

(* State ZERO: the verificator of a known user is made, with a new challenge. *)
ZeroKnown(m) ==
    /\ Expected(m) /\ SessionOf(m.port).state = "ZERO"
    /\ m.type = "A" /\ cred[m.key[1]] # "nouser"
    /\ challenges' = challenges + 1
    /\ LET k == <<m.key[1], challenges'>> IN
         Respond(m, Reply(m.seq, "P", "ok", k, 0, "none"), "ALPHA", k)
    /\ UNCHANGED ran

(***************************************************************************)
(* State ZERO: the user is unknown, or the message is no A.  In the latter *)
(* case the code goes on with an empty user name, which is not found: the  *)
(* failure reply "parsing failed" is overwritten.                          *)
(***************************************************************************)
ZeroUnknown(m) ==
    /\ Expected(m) /\ SessionOf(m.port).state = "ZERO"
    /\ m.type = "A" => cred[m.key[1]] = "nouser"
    /\ Respond(m, Reply(m.seq, "P", "user_not_found", NoKey, 0, "none"), "ZERO", NoKey)
    /\ UNCHANGED <<challenges, ran>>

Proves(m) == m.type = "B" /\ m.key = SessionOf(m.port).key /\ cred[m.key[1]] = "good"

(* A slip: M1 is not compared. *)
AlphaTrusting(m) ==
    /\ Expected(m) /\ SessionOf(m.port).state = "ALPHA"
    /\ LET k == SessionOf(m.port).key IN
         Respond(m, Reply(m.seq, "Q", "ok", k, 0, "none"), "BETA", k)
    /\ UNCHANGED <<challenges, ran>>

(* State ALPHA: M1 shows that the client knows the password. *)
AlphaProved(m) ==
    /\ Expected(m) /\ SessionOf(m.port).state = "ALPHA"
    /\ Proves(m)
    /\ LET k == SessionOf(m.port).key IN
         Respond(m, Reply(m.seq, "Q", "ok", k, 0, "none"), "BETA", k)
    /\ UNCHANGED <<challenges, ran>>

(* State ALPHA: no B message, or a wrong M1; resetState. *)
AlphaRefused(m) ==
    /\ Expected(m) /\ SessionOf(m.port).state = "ALPHA"
    /\ ~Proves(m)
    /\ LET e == IF m.type = "B" THEN "authentication_failed" ELSE "parsing_failed" IN
         Respond(m, Reply(m.seq, "Q", e, NoKey, 0, "none"), "ZERO", NoKey)
    /\ UNCHANGED <<challenges, ran>>

Decrypts(m) == m.type = "C" /\ m.key = SessionOf(m.port).key

(* State BETA: initCrypto, processEncrpytedDatagram. *)
BetaCommand(m) ==
    /\ Expected(m) /\ SessionOf(m.port).state = "BETA"
    /\ Decrypts(m)
    /\ ran' = Append(ran, <<m.key, m.cmd>>)
    /\ LET k == SessionOf(m.port).key IN
         \E a \in Answers(m.word) : Respond(m, Reply(m.seq, "R", "ok", k, m.cmd, a), "BETA", k)
    /\ UNCHANGED challenges

(* State BETA: anything else makes processDatagram return false, and main return -6. *)
BetaFails(m) ==
    /\ Expected(m) /\ SessionOf(m.port).state = "BETA"
    /\ ~Decrypts(m)
    /\ srv' = "failed"
    /\ UNCHANGED <<cliVars, restarts, sess, challenges, ran, toSrv, toCli>>

(* The server is stopped, the node is gone, or sendCapsule failed. *)
Stop ==
    /\ srv = "up"
    /\ srv' = "down"
    /\ UNCHANGED <<cliVars, restarts, sess, challenges, ran, toSrv, toCli>>

(* Somebody starts the server again: the sessions are gone. *)
Restart ==
    /\ srv \in {"down", "failed"} /\ restarts < MaxRestarts
    /\ srv' = "up" /\ restarts' = restarts + 1
    /\ sess' = [p \in Ports |-> NoSession]
    /\ UNCHANGED <<cliVars, challenges, ran, toSrv, toCli>>

-----------------------------------------------------------------------------
Answered(p) == \E m \in toCli[p] : LoginAnswer(p, m) \/ ProofAnswer(p, m) \/ CommandAnswer(p, m)

Serve(p) ==
    \E m \in toSrv :
        /\ m.port = p
        /\ \/ Repeat(m) \/ ZeroKnown(m) \/ ZeroUnknown(m)
           \/ AlphaProved(m) \/ AlphaRefused(m) \/ BetaCommand(m) \/ BetaFails(m)

Next ==
    \/ \E p \in Ports : Start(p) \/ Answered(p) \/ GiveUp(p) \/ UserCommand(p) \/ Exit(p) \/ Serve(p)
    \/ Stop \/ Restart

Spec == Init /\ [][Next]_vars
-----------------------------------------------------------------------------
Keys == (0..MaxRuns) \X Nat

Typed == Words \cup {"hostname"}
Shown == {"none"} \cup UNION {Answers(w) : w \in Typed}

Clients ==
    [pc : {"off", "A", "B", "C", "prompt"}, run : 0..MaxRuns, seq : Nat, key : Keys,
     cmd : Commands, word : Typed]
Requests ==
    [port : Ports, seq : Nat, type : {"A", "B", "C"}, key : Keys, cmd : Commands, word : Typed]
Replies ==
    [seq : Nat, type : {"P", "Q", "R"}, key : Keys, cmd : Commands, answer : Shown,
     err : {"ok", "user_not_found", "authentication_failed", "parsing_failed"}]
Sessions ==
    [live : BOOLEAN, seq : Nat, last : SUBSET Replies, state : {"ZERO", "ALPHA", "BETA"}, key : Keys]

TypeOK ==
    /\ client \in [Ports -> Clients]
    /\ runs \in 0..MaxRuns
    /\ cred \in [Runs -> Creds]
    /\ outcome \in [Runs -> {"none", "refused", "failed", "aborted", "gave_up", "exit"}]
    /\ shown \in [Runs -> SUBSET [asked : Commands, cmd : Commands, answer : Shown]]
    /\ srv \in {"up", "down", "failed"} /\ restarts \in 0..MaxRestarts
    /\ sess \in [Ports -> Sessions]
    /\ \A p \in Ports : sess[p].last = {} <=> sess[p].seq <= 1
    /\ challenges \in Nat
    /\ ran \in Seq(Keys \X Commands)
    /\ toSrv \subseteq Requests
    /\ toCli \in [Ports -> SUBSET Replies]

(***************************************************************************)
(* Only a user who typed the right password has a session in state BETA,   *)
(* gets past M2, or has a command executed - whatever messages of other    *)
(* runs, of other phases or of an earlier life of the server come between  *)
(* (session.cpp:126, clientsession.cpp:107).                               *)
(***************************************************************************)
OnlyTheUser ==
    /\ \A p \in Ports : sess[p].state = "BETA" => cred[sess[p].key[1]] = "good"
    /\ \A p \in Ports : client[p].pc \in {"C", "prompt"} => cred[client[p].run] = "good"
    /\ \A i \in DOMAIN ran : cred[ran[i][1][1]] = "good"

(***************************************************************************)
(* The server executes the commands of one client program in the order in  *)
(* which they were typed and none of them twice, also if the server was    *)
(* restarted while they were on their way: its challenge is new, so what   *)
(* was encrypted for the earlier session does not decrypt.                 *)
(***************************************************************************)
ExecutedInOrder ==
    \A i, j \in DOMAIN ran : i < j /\ ran[i][1][1] = ran[j][1][1] => ran[i][2] < ran[j][2]

(***************************************************************************)
(* What the client shows is the server's answer to the very command the    *)
(* user typed.  The one exception: the answer to hostname is shown for the *)
(* first command when the client has given up waiting for it               *)
(* (clientsession.cpp:150 ignores that, and the number is used again).     *)
(***************************************************************************)
AnswerShown ==
    \A r \in Runs : \A x \in shown[r] :
        /\ \E i \in DOMAIN ran : ran[i][1][1] = r /\ ran[i][2] = x.cmd
        /\ \/ x.cmd = x.asked
           \/ x.cmd = Hostname /\ x.asked = 1 /\ \A y \in shown[r] : y.asked # Hostname

(***************************************************************************)
(* A user with the right password is told that the user does not exist or  *)
(* the password is wrong only when the port was used by an earlier program *)
(* - its session is never removed (sessionmanager.hpp:31) - or the server  *)
(* was started again during the login.                                     *)
(***************************************************************************)
RefusedRightly ==
    \A r \in Runs : outcome[r] = "refused" /\ cred[r] = "good" =>
        \/ restarts > 0
        \/ \E m, n \in toSrv : m.key[1] = r /\ n.port = m.port /\ n.key[1] < r

(***************************************************************************)
(* The return -6 of shell_server.cpp:155, which ends the sessions of all   *)
(* clients, and the exception of decryptAndVerifyMac that no client        *)
(* catches: as long as the server is not restarted, clients that follow    *)
(* the protocol never cause them, not even when they share a port one      *)
(* after the other and their capsules are late.                            *)
(***************************************************************************)
NobodyFails ==
    restarts = 0 => srv # "failed" /\ \A r \in Runs : outcome[r] # "aborted"

(***************************************************************************)
(* A port whose session has answered an earlier program is of no use to a  *)
(* later one until the server is restarted: its numbers start at 1 again,  *)
(* and the session, which is never removed, does not go back.  No such     *)
(* program gets as far as a command.                                       *)
(***************************************************************************)
SecondProgramShutOut ==
    [][\A p \in Ports :
          client'[p].pc = "C" /\ client[p].pc = "B" /\ restarts = 0 =>
              sess[p].key[1] = client[p].run]_vars
=============================================================================
