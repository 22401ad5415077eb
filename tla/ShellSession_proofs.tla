------------------------- MODULE ShellSession_proofs -------------------------
(***************************************************************************)
(* What holds of the shell for any number of ports, client programs,       *)
(* commands and lives of the server.                                       *)
(***************************************************************************)
EXTENDS ShellSession, TLAPS

(* What was or may once more be sent to a port. *)
Got(p) == toCli[p] \cup sess[p].last

(* Only programs that were started and challenges that were made are named. *)
Known ==
    /\ \A p \in Ports : client[p].pc # "off" => client[p].run \in 1..runs
    /\ \A m \in toSrv : m.key[1] \in 1..runs
    /\ \A p \in Ports : sess[p].state # "ZERO" =>
          sess[p].key[1] \in 1..runs /\ sess[p].key[2] \in 1..challenges
    /\ \A p \in Ports : \A m \in Got(p) : m.err = "ok" => m.key[1] \in 1..runs
    /\ \A i \in DOMAIN ran : ran[i][1][1] \in 1..runs /\ ran[i][1][2] \in 1..challenges

(* The two automata count the messages of the handshake alike. *)
Phases ==
    /\ \A p \in Ports :
         /\ client[p].pc = "A" => client[p].seq = 1
         /\ client[p].pc = "B" => client[p].seq = 2
         /\ client[p].pc \in {"C", "prompt"} => client[p].seq >= 3
         /\ client[p].pc \in {"B", "C", "prompt"} => client[p].key[1] = client[p].run
    /\ \A m \in toSrv :
         /\ m.type = "A" => m.seq = 1
         /\ m.type = "B" => m.seq = 2
         /\ m.type = "C" => m.seq >= 3
    /\ \A p \in Ports :
         /\ sess[p].state = "ALPHA" => sess[p].seq = 2
         /\ sess[p].state = "BETA" => sess[p].seq >= 3
         /\ sess[p].live => sess[p].seq >= 1
         /\ ~sess[p].live => sess[p].state = "ZERO" /\ sess[p].last = {}

(* A proof M2 is made for nobody but a user with the right password. *)
ProofsDeserved ==
    \A p \in Ports : \A m \in Got(p) : m.type = "Q" /\ m.err = "ok" => cred[m.key[1]] = "good"

IInv == TypeOK /\ Known /\ Phases /\ ProofsDeserved /\ OnlyTheUser

LEMMA InitIInv == Init => IInv
<1> SUFFICES ASSUME Init PROVE IInv
    OBVIOUS
<1>1. "hostname" \in Typed /\ NoKey \in Keys /\ 0 \in Commands /\ Runs \in SUBSET Nat
    BY BoundsAssumption DEF Typed, NoKey, Keys, Commands, Runs
<1>2. Idle \in Clients /\ NoSession \in Sessions
    BY <1>1, BoundsAssumption DEF Idle, NoSession, Clients, Sessions
<1>3. TypeOK
    BY <1>2, BoundsAssumption DEF Init, TypeOK, Runs, Creds, NoSession
<1>4. Known /\ Phases /\ ProofsDeserved /\ OnlyTheUser
    BY DEF Init, Known, Phases, ProofsDeserved, OnlyTheUser, Got, Idle, NoSession
<1> QED
    BY <1>3, <1>4 DEF IInv

-----------------------------------------------------------------------------
(* The clients. *)

(* Values the program starts with. *)
LEMMA Values ==
    /\ MaxRuns \in Nat /\ 0 \in Commands /\ Hostname \in Commands
    /\ "hostname" \in Typed /\ "none" \in Shown
    /\ NoKey \in Keys
<1>1. MaxRuns \in Nat /\ 0 \in Commands /\ Hostname \in Commands
    BY BoundsAssumption DEF Commands, Hostname
<1>2. "hostname" \in Typed /\ "none" \in Shown
    BY DEF Typed, Shown
<1>3. NoKey \in Keys
    BY BoundsAssumption DEF Keys, NoKey
<1> QED
    BY <1>1, <1>2, <1>3

LEMMA StartStep ==
    ASSUME IInv, NEW p \in Ports, Start(p)
    PROVE  IInv'
<1> DEFINE k == <<runs + 1, 0>>
           m == Request(p, 1, "A", k, 0, "hostname")
<1> TypeOK /\ Known /\ Phases /\ ProofsDeserved /\ OnlyTheUser
    BY DEF IInv
<1>1. /\ runs < MaxRuns /\ runs' = runs + 1
      /\ client' = [client EXCEPT ![p] = Program(runs + 1)]
      /\ toSrv' = toSrv \cup {m}
      /\ UNCHANGED <<outcome, shown, srv, restarts, sess, challenges, ran, toCli>>
    BY DEF Start, srvVars
<1>2. PICK g \in Creds : cred' = [cred EXCEPT ![runs + 1] = g]
    BY DEF Start
<1>3. runs \in Nat /\ runs + 1 \in 0..MaxRuns /\ runs + 1 \in Runs
    BY <1>1, Values DEF TypeOK, Runs
<1> k \in Keys
    BY <1>3 DEF Keys
<1>4. /\ m = [port |-> p, seq |-> 1, type |-> "A", key |-> k, cmd |-> 0, word |-> "hostname"]
      /\ m \in Requests
    BY Values DEF Request, Requests
<1>5. Program(runs + 1) \in Clients
    BY <1>3, Values DEF Program, Clients
<1> HIDE DEF m
<1>6. TypeOK'
    BY <1>1, <1>2, <1>3, <1>4, <1>5 DEF TypeOK
<1>7. Known'
    BY <1>1, <1>3, <1>4 DEF TypeOK, Known, Got, Program
<1>8. Phases'
    BY <1>1, <1>4 DEF TypeOK, Phases, Program
<1>9. \A r \in 1..runs : cred'[r] = cred[r]
    BY <1>2, <1>3 DEF TypeOK, Runs
<1>10. ProofsDeserved'
    BY <1>1, <1>9 DEF Known, ProofsDeserved, Got
<1>11. OnlyTheUser'
    BY <1>1, <1>3, <1>9 DEF TypeOK, Known, OnlyTheUser, Program
<1> QED
    BY <1>6, <1>7, <1>8, <1>10, <1>11 DEF IInv

(* A program that ends. *)
LEMMA EndStep ==
    ASSUME IInv, NEW p \in Ports, client[p].pc # "off",
           NEW how \in {"refused", "failed", "aborted", "gave_up", "exit"}, End(p, how),
           UNCHANGED <<runs, cred, shown, srv, restarts, sess, challenges, ran, toSrv, toCli>>
    PROVE  IInv'
<1> TypeOK /\ Known /\ Phases /\ ProofsDeserved /\ OnlyTheUser
    BY DEF IInv
<1>1. /\ outcome' = [outcome EXCEPT ![client[p].run] = how]
      /\ client' = [client EXCEPT ![p] = Idle]
    BY DEF End
<1>2. Idle \in Clients
    BY Values DEF Idle, Clients
<1>3. TypeOK'
    BY <1>1, <1>2 DEF TypeOK
<1>4. Known'
    BY <1>1 DEF TypeOK, Known, Got, Idle
<1>5. Phases'
    BY <1>1 DEF TypeOK, Phases, Idle
<1>6. ProofsDeserved'
    BY DEF ProofsDeserved, Got
<1>7. OnlyTheUser'
    BY <1>1 DEF TypeOK, OnlyTheUser, Idle
<1> QED
    BY <1>3, <1>4, <1>5, <1>6, <1>7 DEF IInv

(* A command goes out. *)
LEMMA AskStep ==
    ASSUME IInv, NEW p \in Ports, client[p].pc \in {"B", "prompt"}, cred[client[p].run] = "good",
           NEW s \in Nat, s >= 3, NEW c \in Commands, NEW w \in Typed, Ask(p, s, c, w),
           UNCHANGED <<runs, cred, outcome, shown, srv, restarts, sess, challenges, ran, toCli>>
    PROVE  IInv'
<1> DEFINE x == [pc |-> "C", run |-> client[p].run, seq |-> s, key |-> client[p].key, cmd |-> c, word |-> w]
           m == Request(p, s, "C", client[p].key, c, w)
<1> TypeOK /\ Known /\ Phases /\ ProofsDeserved /\ OnlyTheUser
    BY DEF IInv
<1>1. client' = [client EXCEPT ![p] = x] /\ toSrv' = toSrv \cup {m}
    BY DEF Ask, GoesOn
<1>2. client[p] \in Clients /\ client[p].key \in Keys
    BY DEF TypeOK, Clients
<1>3. x \in Clients
    BY <1>2 DEF Clients
<1>4. /\ m = [port |-> p, seq |-> s, type |-> "C", key |-> client[p].key, cmd |-> c, word |-> w]
      /\ m \in Requests
    BY <1>2 DEF Request, Requests
<1> HIDE DEF m
<1>5. TypeOK'
    BY <1>1, <1>3, <1>4 DEF TypeOK
<1>6. Phases'
    BY <1>1, <1>3, <1>4 DEF TypeOK, Phases
<1>7. client[p].run \in 1..runs /\ client[p].key[1] = client[p].run
    BY DEF Known, Phases
<1>8. Known'
    BY <1>1, <1>3, <1>4, <1>7 DEF TypeOK, Known, Got
<1>9. ProofsDeserved'
    BY DEF ProofsDeserved, Got
<1>10. OnlyTheUser'
    BY <1>1, <1>3 DEF TypeOK, OnlyTheUser
<1> QED
    BY <1>5, <1>6, <1>8, <1>9, <1>10 DEF IInv

(* The user is prompted, with the number the exchange left behind. *)
LEMMA PromptStep ==
    ASSUME IInv, NEW p \in Ports, client[p].pc = "C", NEW s \in Nat, s >= client[p].seq,
           Prompt(p, s),
           shown' \in [Runs -> SUBSET [asked : Commands, cmd : Commands, answer : Shown]],
           UNCHANGED <<runs, cred, outcome, srv, restarts, sess, challenges, ran, toSrv, toCli>>
    PROVE  IInv'
<1> DEFINE x == [pc |-> "prompt", run |-> client[p].run, seq |-> s, key |-> client[p].key,
                 cmd |-> client[p].cmd, word |-> client[p].word]
<1> TypeOK /\ Known /\ Phases /\ ProofsDeserved /\ OnlyTheUser
    BY DEF IInv
<1>1. client[p] \in Clients
    BY DEF TypeOK
<1>2. client' = [client EXCEPT ![p] = x] /\ x \in Clients
    BY <1>1 DEF Clients, Prompt, GoesOn
<1>3. TypeOK'
    BY <1>2 DEF TypeOK
<1>4. Known'
    BY <1>2 DEF TypeOK, Known, Got
<1>5. Phases'
    BY <1>1, <1>2 DEF TypeOK, Phases, Clients
<1>6. ProofsDeserved'
    BY DEF ProofsDeserved, Got
<1>7. OnlyTheUser'
    BY <1>2 DEF TypeOK, OnlyTheUser
<1> QED
    BY <1>3, <1>4, <1>5, <1>6, <1>7 DEF IInv

LEMMA LoginAnswerStep ==
    ASSUME IInv, NEW p \in Ports, NEW m, LoginAnswer(p, m)
    PROVE  IInv'
<1> TypeOK /\ Known /\ Phases /\ ProofsDeserved /\ OnlyTheUser
    BY DEF IInv
<1>1. /\ client[p].pc = "A" /\ m \in toCli[p] /\ m.seq = 1
      /\ UNCHANGED <<runs, cred, shown, srv, restarts, sess, challenges, ran, toCli>>
    BY DEF LoginAnswer, srvVars, Phases
<1>2. CASE m.type = "P" /\ m.err = "ok"
    <2> DEFINE k == <<client[p].run, m.key[2]>>
               b == Request(p, 2, "B", k, 0, "hostname")
               x == [pc |-> "B", run |-> client[p].run, seq |-> 2, key |-> k,
                     cmd |-> client[p].cmd, word |-> client[p].word]
    <2>1. client[p] \in Clients /\ m \in Replies
        BY <1>1 DEF TypeOK
    <2>2. k \in Keys
        BY <2>1 DEF Clients, Replies, Keys
    <2>3. x \in Clients
        BY <2>1, <2>2 DEF Clients
    <2>4. /\ b = [port |-> p, seq |-> 2, type |-> "B", key |-> k, cmd |-> 0, word |-> "hostname"]
          /\ b \in Requests
        BY <2>2, Values DEF Request, Requests
    <2>5. client' = [client EXCEPT ![p] = x] /\ toSrv' = toSrv \cup {b} /\ UNCHANGED outcome
        BY <1>1, <1>2 DEF LoginAnswer, GoesOn
    <2>6. k[1] = client[p].run /\ k[1] \in 1..runs
        BY <1>1 DEF Known
    <2> HIDE DEF b, k
    <2>7. TypeOK'
        BY <1>1, <2>3, <2>4, <2>5 DEF TypeOK
    <2>8. Known'
        BY <1>1, <2>4, <2>5, <2>6 DEF TypeOK, Known, Got
    <2>9. Phases'
        BY <1>1, <2>4, <2>5, <2>6 DEF TypeOK, Phases
    <2>10. ProofsDeserved'
        BY <1>1 DEF ProofsDeserved, Got
    <2>11. OnlyTheUser'
        BY <1>1, <2>5 DEF TypeOK, OnlyTheUser
    <2> QED
        BY <2>7, <2>8, <2>9, <2>10, <2>11 DEF IInv
<1>3. CASE ~(m.type = "P" /\ m.err = "ok")
    <2>1. PICK how \in {"refused", "failed"} : End(p, how) /\ UNCHANGED toSrv
        BY <1>3 DEF LoginAnswer
    <2> QED
        BY <1>1, <2>1, EndStep
<1> QED
    BY <1>2, <1>3

LEMMA ProofAnswerStep ==
    ASSUME IInv, NEW p \in Ports, NEW m, ProofAnswer(p, m)
    PROVE  IInv'
<1>1. /\ client[p].pc = "B" /\ m \in toCli[p] /\ m.seq = 2
      /\ UNCHANGED <<runs, cred, shown, srv, restarts, sess, challenges, ran, toCli>>
    BY DEF ProofAnswer, srvVars, IInv, Phases
<1>2. CASE m.type = "Q" /\ m.err = "ok" /\ m.key = client[p].key
    <2>1. cred[client[p].run] = "good"
        BY <1>1, <1>2 DEF IInv, Phases, ProofsDeserved, Got
    <2>2. Ask(p, 3, Hostname, "hostname") /\ UNCHANGED outcome
        BY <1>1, <1>2 DEF ProofAnswer
    <2> QED
        BY <1>1, <2>1, <2>2, Values, AskStep
<1>3. CASE ~(m.type = "Q" /\ m.err = "ok" /\ m.key = client[p].key)
    <2>1. PICK how \in {"refused", "failed"} : End(p, how) /\ UNCHANGED toSrv
        BY <1>3 DEF ProofAnswer
    <2> QED
        BY <1>1, <2>1, EndStep
<1> QED
    BY <1>2, <1>3

LEMMA CommandAnswerStep ==
    ASSUME IInv, NEW p \in Ports, NEW m, CommandAnswer(p, m)
    PROVE  IInv'
<1>1. /\ client[p].pc = "C" /\ m \in toCli[p] /\ m.seq = client[p].seq
      /\ UNCHANGED <<runs, cred, srv, restarts, sess, challenges, ran, toSrv, toCli>>
    BY DEF CommandAnswer, srvVars
<1>2. client[p] \in Clients /\ m \in Replies /\ m.seq + 1 \in Nat
    BY <1>1 DEF IInv, TypeOK, Replies
<1>3. CASE /\ shown' = [shown EXCEPT ![client[p].run] = @ \cup {Show(client[p].cmd, m)}]
           /\ Prompt(p, m.seq + 1)
           /\ UNCHANGED outcome
    <2>1. Show(client[p].cmd, m) \in [asked : Commands, cmd : Commands, answer : Shown]
        BY <1>2 DEF Show, Clients, Replies
    <2>2. shown' \in [Runs -> SUBSET [asked : Commands, cmd : Commands, answer : Shown]]
        BY <1>3, <2>1 DEF IInv, TypeOK
    <2> QED
        BY <1>1, <1>2, <1>3, <2>2, PromptStep DEF Clients
<1>4. CASE \E how \in {"failed", "aborted"} : End(p, how) /\ UNCHANGED shown
    BY <1>1, <1>4, EndStep
<1>5. CASE Prompt(p, m.seq + 1) /\ UNCHANGED <<outcome, shown>>
    <2>1. shown' \in [Runs -> SUBSET [asked : Commands, cmd : Commands, answer : Shown]]
        BY <1>5 DEF IInv, TypeOK
    <2> QED
        BY <1>1, <1>2, <1>5, <2>1, PromptStep DEF Clients
<1> QED
    BY <1>3, <1>4, <1>5 DEF CommandAnswer

LEMMA GiveUpStep ==
    ASSUME IInv, NEW p \in Ports, GiveUp(p)
    PROVE  IInv'
<1>1. /\ client[p].pc \in {"A", "B", "C"}
      /\ UNCHANGED <<runs, cred, shown, srv, restarts, sess, challenges, ran, toSrv, toCli>>
    BY DEF GiveUp, Waiting, srvVars
<1>2. CASE client[p].pc = "C" /\ Prompt(p, client[p].seq) /\ UNCHANGED outcome
    <2>1. client[p].seq \in Nat /\ shown' \in [Runs -> SUBSET [asked : Commands, cmd : Commands, answer : Shown]]
        BY <1>1 DEF IInv, TypeOK, Clients
    <2> QED
        BY <1>1, <1>2, <2>1, PromptStep
<1>3. CASE End(p, "gave_up")
    BY <1>1, <1>3, EndStep
<1> QED
    BY <1>2, <1>3 DEF GiveUp

LEMMA UserCommandStep ==
    ASSUME IInv, NEW p \in Ports, UserCommand(p)
    PROVE  IInv'
<1>1. PICK w \in Words : Ask(p, client[p].seq, client[p].cmd + 1, w)
    BY DEF UserCommand
<1>2. /\ client[p].pc = "prompt" /\ client[p].cmd < MaxCommands
      /\ UNCHANGED <<runs, cred, outcome, shown, srv, restarts, sess, challenges, ran, toCli>>
    BY DEF UserCommand, srvVars
<1>3. client[p].cmd \in Commands /\ client[p].seq \in Nat
    BY DEF IInv, TypeOK, Clients
<1>4. client[p].cmd + 1 \in Commands
    BY <1>2, <1>3, BoundsAssumption DEF Commands
<1>5. w \in Typed
    BY DEF Typed
<1>6. client[p].seq >= 3 /\ cred[client[p].run] = "good"
    BY <1>2 DEF IInv, Phases, OnlyTheUser
<1> QED
    BY <1>1, <1>2, <1>3, <1>4, <1>5, <1>6, AskStep

LEMMA ExitStep ==
    ASSUME IInv, NEW p \in Ports, Exit(p)
    PROVE  IInv'
BY EndStep DEF Exit, srvVars

-----------------------------------------------------------------------------
(* The server. *)

LEMMA SessionTyped ==
    ASSUME IInv, NEW p \in Ports
    PROVE  /\ SessionOf(p) \in Sessions
           /\ SessionOf(p).last = {} <=> SessionOf(p).seq <= 1
           /\ SessionOf(p).live /\ SessionOf(p).seq >= 1
           /\ SessionOf(p).state = sess[p].state /\ SessionOf(p).last = sess[p].last
           /\ sess[p].state # "ZERO" => SessionOf(p) = sess[p]
<1>1. NewSession = [live |-> TRUE, seq |-> 1, last |-> {}, state |-> "ZERO", key |-> NoKey]
    BY DEF NewSession
<1>2. NewSession \in Sessions
    BY <1>1, Values DEF Sessions
<1>3. CASE sess[p].live
    BY <1>3 DEF SessionOf, IInv, TypeOK, Phases
<1>4. CASE ~sess[p].live
    BY <1>1, <1>2, <1>4 DEF SessionOf, IInv, Phases
<1> QED
    BY <1>3, <1>4

LEMMA RepeatStep ==
    ASSUME IInv, NEW m \in toSrv, Repeat(m)
    PROVE  IInv'
<1> DEFINE p == m.port
           s == SessionOf(p)
<1> TypeOK /\ Known /\ Phases /\ ProofsDeserved /\ OnlyTheUser
    BY DEF IInv
<1>1. p \in Ports
    BY DEF TypeOK, Requests
<1>2. /\ sess' = [sess EXCEPT ![p] = s]
      /\ toCli' = [toCli EXCEPT ![p] = @ \cup s.last]
      /\ UNCHANGED <<client, runs, cred, outcome, shown, srv, restarts, challenges, ran, toSrv>>
    BY DEF Repeat, cliVars
<1>3. /\ s \in Sessions /\ (s.last = {} <=> s.seq <= 1) /\ s.live /\ s.seq >= 1
      /\ s.state = sess[p].state /\ s.last = sess[p].last /\ (s.state # "ZERO" => s = sess[p])
    BY <1>1, SessionTyped
<1> HIDE DEF p, s
<1>4. TypeOK'
    BY <1>1, <1>2, <1>3 DEF TypeOK, Sessions
<1>5. \A q \in Ports : Got(q)' = Got(q)
    BY <1>1, <1>2, <1>3 DEF TypeOK, Got
<1>6. Known'
    BY <1>1, <1>2, <1>3, <1>5 DEF TypeOK, Known
<1>7. Phases'
    BY <1>1, <1>2, <1>3 DEF TypeOK, Phases
<1>8. ProofsDeserved'
    BY <1>2, <1>5 DEF ProofsDeserved
<1>9. OnlyTheUser'
    BY <1>1, <1>2, <1>3 DEF TypeOK, OnlyTheUser
<1> QED
    BY <1>4, <1>6, <1>7, <1>8, <1>9 DEF IInv

(* A request is answered. *)
LEMMA RespondStep ==
    ASSUME IInv, NEW m \in toSrv, m.seq = SessionOf(m.port).seq,
           NEW r \in Replies, NEW st \in {"ZERO", "ALPHA", "BETA"}, NEW k \in Keys,
           Respond(m, r, st, k),
           challenges' \in Nat, challenges' >= challenges,
           ran' \in Seq(Keys \X Commands),
           \A i \in DOMAIN ran' :
               /\ ran'[i][1][1] \in 1..runs /\ ran'[i][1][2] \in 1..challenges'
               /\ cred[ran'[i][1][1]] = "good",
           st # "ZERO" => k[1] \in 1..runs /\ k[2] \in 1..challenges',
           st = "ALPHA" => m.seq = 1,
           st = "BETA" => m.seq >= 2 /\ cred[k[1]] = "good",
           r.err = "ok" => r.key = k /\ st # "ZERO" /\ (r.type = "Q" => st = "BETA")
    PROVE  IInv'
<1> DEFINE p == m.port
           s == [live |-> TRUE, seq |-> m.seq + 1, last |-> {r}, state |-> st, key |-> k]
<1> TypeOK /\ Known /\ Phases /\ ProofsDeserved /\ OnlyTheUser
    BY DEF IInv
<1>1. p \in Ports /\ m.seq \in Nat
    BY DEF TypeOK, Requests
<1>2. /\ sess' = [sess EXCEPT ![p] = s]
      /\ toCli' = [toCli EXCEPT ![p] = @ \cup {r}]
      /\ UNCHANGED <<client, runs, cred, outcome, shown, srv, restarts, toSrv>>
    BY DEF Respond, cliVars
<1>3. s \in Sessions
    BY <1>1 DEF Sessions
<1>4. m.seq >= 1
    BY <1>1, SessionTyped
<1>5. TypeOK'
    <2>1. sess' \in [Ports -> Sessions] /\ toCli' \in [Ports -> SUBSET Replies]
        BY <1>2, <1>3 DEF TypeOK
    <2>2. s.last # {} /\ s.seq > 1
        BY <1>1, <1>4
    <2>3. \A q \in Ports : sess'[q].last = {} <=> sess'[q].seq <= 1
        <3> HIDE DEF s
        <3> QED BY <1>1, <1>2, <1>3, <2>2 DEF TypeOK, Sessions
    <2> QED
        BY <1>2, <2>1, <2>3 DEF TypeOK
<1>6. \A q \in Ports : \A x \in Got(q)' : x \in Got(q) \/ (q = p /\ x = r)
    BY <1>1, <1>2 DEF TypeOK, Got
<1>7. Known'
    <2>1. \A q \in Ports : sess'[q].state # "ZERO" =>
              sess'[q].key[1] \in 1..runs /\ sess'[q].key[2] \in 1..challenges'
        BY <1>1, <1>2 DEF TypeOK, Known
    <2>2. \A q \in Ports : \A x \in Got(q)' : x.err = "ok" => x.key[1] \in 1..runs
        BY <1>6 DEF Known
    <2> QED
        BY <1>2, <2>1, <2>2 DEF Known
<1>8. Phases'
    BY <1>1, <1>2, <1>4 DEF TypeOK, Phases
<1>9. ProofsDeserved'
    BY <1>2, <1>6 DEF ProofsDeserved
<1>10. OnlyTheUser'
    BY <1>1, <1>2 DEF TypeOK, OnlyTheUser
<1> QED
    BY <1>5, <1>7, <1>8, <1>9, <1>10 DEF IInv

(* What every request that is answered has to do with the session it is for. *)
LEMMA ExpectedRequest ==
    ASSUME IInv, NEW m \in toSrv, Expected(m)
    PROVE  /\ m \in Requests /\ m.port \in Ports /\ m.seq \in Nat
           /\ m.key \in Keys /\ m.cmd \in Commands /\ m.word \in Typed
           /\ m.key[1] \in 1..runs /\ m.key[1] \in Nat
           /\ m.seq = SessionOf(m.port).seq
           /\ SessionOf(m.port).state = sess[m.port].state
           /\ SessionOf(m.port).state # "ZERO" => SessionOf(m.port) = sess[m.port]
           /\ SessionOf(m.port).key \in Keys
<1>1. /\ m \in Requests /\ m.port \in Ports /\ m.seq \in Nat
      /\ m.key \in Keys /\ m.cmd \in Commands /\ m.word \in Typed
    BY DEF IInv, TypeOK, Requests
<1>2. m.key[1] \in 1..runs /\ m.key[1] \in Nat
    BY <1>1 DEF IInv, Known, Keys
<1>3. /\ SessionOf(m.port).state = sess[m.port].state
      /\ SessionOf(m.port).state # "ZERO" => SessionOf(m.port) = sess[m.port]
    BY <1>1, SessionTyped
<1>4. SessionOf(m.port).key \in Keys
    BY <1>1, SessionTyped DEF Sessions
<1> QED
    BY <1>1, <1>2, <1>3, <1>4 DEF Expected

LEMMA ZeroKnownStep ==
    ASSUME IInv, NEW m \in toSrv, ZeroKnown(m)
    PROVE  IInv'
<1> DEFINE k == <<m.key[1], challenges'>>
           r == Reply(m.seq, "P", "ok", k, 0, "none")
<1>1. /\ Expected(m) /\ m.type = "A" /\ challenges' = challenges + 1 /\ ran' = ran
      /\ Respond(m, r, "ALPHA", k)
    BY DEF ZeroKnown
<1>2. challenges \in Nat /\ ran \in Seq(Keys \X Commands)
    BY DEF IInv, TypeOK
<1>3. k \in Keys /\ k[1] \in 1..runs /\ k[2] \in 1..challenges'
    BY <1>1, <1>2, ExpectedRequest DEF Keys
<1>4. m.seq = 1
    BY <1>1 DEF IInv, Phases
<1>5. r \in Replies /\ r.type = "P" /\ r.key = k
    BY <1>1, <1>3, <1>4, Values DEF Reply, Replies
<1>6. \A i \in DOMAIN ran' :
          ran'[i][1][1] \in 1..runs /\ ran'[i][1][2] \in 1..challenges' /\ cred[ran'[i][1][1]] = "good"
    BY <1>1, <1>2 DEF IInv, Known, OnlyTheUser
<1> HIDE DEF k, r
<1> QED
    BY <1>1, <1>2, <1>3, <1>4, <1>5, <1>6, ExpectedRequest, RespondStep

LEMMA RanSoFar ==
    ASSUME IInv, UNCHANGED <<challenges, ran>>
    PROVE  /\ challenges' \in Nat /\ challenges' >= challenges
           /\ ran' \in Seq(Keys \X Commands)
           /\ \A i \in DOMAIN ran' :
                /\ ran'[i][1][1] \in 1..runs /\ ran'[i][1][2] \in 1..challenges'
                /\ cred[ran'[i][1][1]] = "good"
BY DEF IInv, TypeOK, Known, OnlyTheUser

LEMMA ZeroUnknownStep ==
    ASSUME IInv, NEW m \in toSrv, ZeroUnknown(m)
    PROVE  IInv'
<1> DEFINE r == Reply(m.seq, "P", "user_not_found", NoKey, 0, "none")
<1>1. Expected(m) /\ UNCHANGED <<challenges, ran>> /\ Respond(m, r, "ZERO", NoKey)
    BY DEF ZeroUnknown
<1>2. r \in Replies /\ r.err = "user_not_found"
    BY <1>1, ExpectedRequest, Values DEF Reply, Replies
<1> HIDE DEF r
<1> QED
    BY <1>1, <1>2, ExpectedRequest, Values, RanSoFar, RespondStep

LEMMA AlphaProvedStep ==
    ASSUME IInv, NEW m \in toSrv, AlphaProved(m)
    PROVE  IInv'
<1> DEFINE k == SessionOf(m.port).key
           r == Reply(m.seq, "Q", "ok", k, 0, "none")
<1>1. /\ Expected(m) /\ SessionOf(m.port).state = "ALPHA" /\ UNCHANGED <<challenges, ran>>
      /\ Respond(m, r, "BETA", k)
    BY DEF AlphaProved
<1>2. m.type = "B" /\ m.key = k /\ cred[k[1]] = "good"
    BY DEF AlphaProved, Proves
<1>3. SessionOf(m.port) = sess[m.port] /\ sess[m.port].state = "ALPHA" /\ k \in Keys
    BY <1>1, ExpectedRequest
<1>4. k[1] \in 1..runs /\ k[2] \in 1..challenges /\ m.seq = 2
    BY <1>1, <1>2, <1>3, ExpectedRequest DEF IInv, Known, Phases
<1> HIDE DEF k
<1>5. r \in Replies /\ r.err = "ok" /\ r.key = k
    BY <1>3, <1>4, Values DEF Reply, Replies
<1> HIDE DEF r
<1> QED
    BY <1>1, <1>2, <1>3, <1>4, <1>5, ExpectedRequest, RanSoFar, RespondStep

LEMMA AlphaRefusedStep ==
    ASSUME IInv, NEW m \in toSrv, AlphaRefused(m)
    PROVE  IInv'
<1> DEFINE e == IF m.type = "B" THEN "authentication_failed" ELSE "parsing_failed"
           r == Reply(m.seq, "Q", e, NoKey, 0, "none")
<1>1. Expected(m) /\ UNCHANGED <<challenges, ran>> /\ Respond(m, r, "ZERO", NoKey)
    BY DEF AlphaRefused
<1>2. r \in Replies /\ r.err = e /\ e # "ok"
    BY <1>1, ExpectedRequest, Values DEF Reply, Replies
<1> HIDE DEF e, r
<1> QED
    BY <1>1, <1>2, ExpectedRequest, Values, RanSoFar, RespondStep

LEMMA BetaCommandStep ==
    ASSUME IInv, NEW m \in toSrv, BetaCommand(m)
    PROVE  IInv'
<1> DEFINE k == SessionOf(m.port).key
<1>1. /\ Expected(m) /\ SessionOf(m.port).state = "BETA" /\ UNCHANGED challenges
      /\ m.type = "C" /\ m.key = k
      /\ ran' = Append(ran, <<k, m.cmd>>)
    BY DEF BetaCommand, Decrypts
<1>2. PICK a \in Answers(m.word) : Respond(m, Reply(m.seq, "R", "ok", k, m.cmd, a), "BETA", k)
    BY DEF BetaCommand
<1> DEFINE r == Reply(m.seq, "R", "ok", k, m.cmd, a)
<1>3. a \in Shown
    BY <1>1, ExpectedRequest DEF Shown
<1>4. SessionOf(m.port) = sess[m.port] /\ sess[m.port].state = "BETA" /\ k \in Keys
    BY <1>1, ExpectedRequest
<1>5. /\ k[1] \in 1..runs /\ k[2] \in 1..challenges /\ m.seq >= 2
      /\ cred[k[1]] = "good"
    BY <1>1, <1>4, ExpectedRequest DEF IInv, Known, Phases, OnlyTheUser
<1>6. r \in Replies /\ r.err = "ok" /\ r.key = k /\ r.type = "R"
    BY <1>1, <1>3, <1>4, ExpectedRequest, Values DEF Reply, Replies
<1>7. challenges \in Nat /\ ran \in Seq(Keys \X Commands) /\ <<k, m.cmd>> \in Keys \X Commands
    BY <1>1, <1>4, ExpectedRequest DEF IInv, TypeOK
<1>8. \A i \in DOMAIN ran : /\ ran[i][1][1] \in 1..runs /\ ran[i][1][2] \in 1..challenges
                            /\ cred[ran[i][1][1]] = "good"
    BY DEF IInv, Known, OnlyTheUser
<1> HIDE DEF k, r
<1>9. \A i \in DOMAIN ran' : /\ ran'[i][1][1] \in 1..runs /\ ran'[i][1][2] \in 1..challenges'
                             /\ cred[ran'[i][1][1]] = "good"
    BY <1>1, <1>5, <1>7, <1>8
<1>10. ran' \in Seq(Keys \X Commands)
    BY <1>1, <1>7
<1>11. Respond(m, r, "BETA", k) /\ m.seq = SessionOf(m.port).seq
    BY <1>1, <1>2, ExpectedRequest DEF r
<1>12. challenges' \in Nat /\ challenges' >= challenges
    BY <1>1, <1>7
<1> QED
    BY <1>4, <1>5, <1>6, <1>9, <1>10, <1>11, <1>12, <1>1, RespondStep

LEMMA RestartStep ==
    ASSUME IInv, Restart
    PROVE  IInv'
<1> TypeOK /\ Known /\ Phases /\ ProofsDeserved /\ OnlyTheUser
    BY DEF IInv
<1>1. /\ restarts < MaxRestarts /\ restarts' = restarts + 1 /\ srv' = "up"
      /\ sess' = [p \in Ports |-> NoSession]
      /\ UNCHANGED <<client, runs, cred, outcome, shown, challenges, ran, toSrv, toCli>>
    BY DEF Restart, cliVars
<1>2. /\ NoSession = [live |-> FALSE, seq |-> 0, last |-> {}, state |-> "ZERO", key |-> NoKey]
      /\ NoSession \in Sessions
    BY Values DEF NoSession, Sessions
<1>3. restarts' \in 0..MaxRestarts
    BY <1>1, BoundsAssumption DEF TypeOK
<1>4. TypeOK'
    BY <1>1, <1>2, <1>3 DEF TypeOK
<1>5. \A p \in Ports : Got(p)' \subseteq Got(p)
    BY <1>1, <1>2 DEF Got
<1>6. Known'
    BY <1>1, <1>2, <1>5 DEF Known
<1>7. Phases'
    BY <1>1, <1>2 DEF Phases
<1>8. ProofsDeserved'
    BY <1>1, <1>5 DEF ProofsDeserved
<1>9. OnlyTheUser'
    BY <1>1, <1>2 DEF OnlyTheUser
<1> QED
    BY <1>4, <1>6, <1>7, <1>8, <1>9 DEF IInv

(* Only srv changes, or nothing. *)
LEMMA QuietStep ==
    ASSUME IInv, srv' \in {"up", "down", "failed"},
           UNCHANGED <<client, runs, cred, outcome, shown, restarts, sess, challenges, ran, toSrv, toCli>>
    PROVE  IInv'
<1>1. TypeOK'
    BY DEF IInv, TypeOK
<1>2. Known' /\ Phases'
    BY DEF IInv, Known, Phases, Got
<1>3. ProofsDeserved' /\ OnlyTheUser'
    BY DEF IInv, ProofsDeserved, OnlyTheUser, Got
<1> QED
    BY <1>1, <1>2, <1>3 DEF IInv

LEMMA NextIInv == IInv /\ [Next]_vars => IInv'
<1> SUFFICES ASSUME IInv, [Next]_vars PROVE IInv'
    OBVIOUS
<1>1. CASE \E p \in Ports : Start(p) \/ GiveUp(p) \/ UserCommand(p) \/ Exit(p)
    BY <1>1, StartStep, GiveUpStep, UserCommandStep, ExitStep
<1>2. CASE \E p \in Ports : Answered(p)
    BY <1>2, LoginAnswerStep, ProofAnswerStep, CommandAnswerStep DEF Answered
<1>3. CASE \E m \in toSrv : \/ Repeat(m) \/ ZeroKnown(m) \/ ZeroUnknown(m)
                            \/ AlphaProved(m) \/ AlphaRefused(m) \/ BetaCommand(m)
    BY <1>3, RepeatStep, ZeroKnownStep, ZeroUnknownStep, AlphaProvedStep, AlphaRefusedStep,
       BetaCommandStep
<1>4. CASE \/ \E m \in toSrv : BetaFails(m)
           \/ Stop
           \/ UNCHANGED vars
    BY <1>4, QuietStep DEF BetaFails, Stop, vars, cliVars, IInv, TypeOK
<1>5. CASE Restart
    BY <1>5, RestartStep
<1> QED
    BY <1>1, <1>2, <1>3, <1>4, <1>5 DEF Next, Serve

THEOREM Inductive == Spec => []IInv
BY InitIInv, NextIInv, PTL DEF Spec

(* Everything stays in its range, and an empty last response means that    *)
(* the session has answered nothing (StopWaitRx).                          *)
THEOREM TypeCorrect == Spec => []TypeOK
<1>1. IInv => TypeOK
    BY DEF IInv
<1> QED
    BY <1>1, Inductive, PTL

(* Only a user with the right password gets as far as the commands, at     *)
(* either end: Session and ClientSession prove it to each other.           *)
THEOREM PasswordNeeded == Spec => []OnlyTheUser
<1>1. IInv => OnlyTheUser
    BY DEF IInv
<1> QED
    BY <1>1, Inductive, PTL

-----------------------------------------------------------------------------
(* The commands: what was sent, what of it was executed, what is shown. *)

OneProgram ==
    \A p, q \in Ports :
        client[p].pc # "off" /\ client[q].pc # "off" /\ client[p].run = client[q].run => p = q

(* A challenge belongs to one session. *)
SessionsDiffer ==
    \A p, q \in Ports :
        sess[p].state # "ZERO" /\ sess[q].state # "ZERO" /\ sess[p].key = sess[q].key => p = q

NoHostname(r) == \A x \in shown[r] : x.asked # Hostname

(* The requests of a program that runs; two may carry one number when it gave up hostname. *)
RequestsSoFar ==
    \A p \in Ports : \A m \in toSrv :
        client[p].pc # "off" /\ m.type = "C" /\ m.key[1] = client[p].run =>
            /\ client[p].pc \in {"C", "prompt"}
            /\ m.key = client[p].key /\ m.seq <= client[p].seq /\ m.cmd <= client[p].cmd
            /\ m.seq = client[p].seq =>
                  \/ client[p].pc = "C" /\ m.cmd = client[p].cmd
                  \/ /\ m.cmd = Hostname /\ NoHostname(client[p].run)
                     /\ client[p].pc = "C" => client[p].cmd = 1
                     /\ client[p].pc = "prompt" => client[p].cmd = Hostname

SentInOrder ==
    \A m, n \in toSrv :
        m.type = "C" /\ n.type = "C" /\ m.key[1] = n.key[1] =>
            m.key = n.key /\ (m.seq < n.seq => m.cmd < n.cmd)

(* What ran was sent, and the session whose key it has is past its number. *)
RanSent ==
    \A i \in DOMAIN ran : \E m \in toSrv :
        /\ m.type = "C" /\ m.key = ran[i][1] /\ m.cmd = ran[i][2]
        /\ \A p \in Ports : sess[p].state # "ZERO" /\ sess[p].key = m.key => m.seq < sess[p].seq

AnswersRan ==
    \A p \in Ports : \A m \in Got(p) : m.type = "R" =>
        /\ \E n \in toSrv : n.type = "C" /\ n.key = m.key /\ n.cmd = m.cmd /\ n.seq = m.seq
        /\ \E i \in DOMAIN ran : ran[i][1] = m.key /\ ran[i][2] = m.cmd

ShownSoFar ==
    /\ \A p \in Ports : client[p].pc # "off" => \A x \in shown[client[p].run] :
          /\ client[p].pc \in {"C", "prompt"} /\ x.asked <= client[p].cmd
          /\ client[p].pc = "C" => x.asked < client[p].cmd
    /\ \A r \in Runs : r > runs => shown[r] = {}

CInv ==
    /\ OneProgram /\ RequestsSoFar /\ SentInOrder /\ ShownSoFar /\ AnswerShown
    /\ SessionsDiffer /\ RanSent /\ AnswersRan /\ ExecutedInOrder

LEMMA InitCInv == Init => CInv
<1> SUFFICES ASSUME Init PROVE CInv
    OBVIOUS
<1>1. OneProgram /\ RequestsSoFar /\ SentInOrder
    BY DEF Init, OneProgram, RequestsSoFar, SentInOrder, Idle
<1>2. ShownSoFar /\ AnswerShown
    BY DEF Init, ShownSoFar, AnswerShown, Idle
<1>3. SessionsDiffer /\ AnswersRan
    BY DEF Init, SessionsDiffer, AnswersRan, Got, NoSession
<1>4. RanSent /\ ExecutedInOrder
    BY DEF Init, RanSent, ExecutedInOrder
<1> QED
    BY <1>1, <1>2, <1>3, <1>4 DEF CInv

(* A step of a client leaves what the server has done. *)
LEMMA ServerKept ==
    ASSUME CInv, UNCHANGED <<sess, challenges, ran, toCli>>, toSrv \subseteq toSrv'
    PROVE  SessionsDiffer' /\ RanSent' /\ AnswersRan' /\ ExecutedInOrder'
<1>1. SessionsDiffer' /\ ExecutedInOrder'
    BY DEF CInv, SessionsDiffer, ExecutedInOrder
<1>2. RanSent'
    BY DEF CInv, RanSent
<1>3. AnswersRan'
    BY DEF CInv, AnswersRan, Got
<1> QED
    BY <1>1, <1>2, <1>3

(* A step of the server leaves what the clients have sent and shown. *)
LEMMA ClientsKept ==
    ASSUME CInv, UNCHANGED <<client, runs, shown, toSrv>>,
           \A i \in DOMAIN ran : i \in DOMAIN ran' /\ ran'[i] = ran[i]
    PROVE  OneProgram' /\ RequestsSoFar' /\ SentInOrder' /\ ShownSoFar' /\ AnswerShown'
<1>1. OneProgram' /\ SentInOrder' /\ ShownSoFar'
    BY DEF CInv, OneProgram, SentInOrder, ShownSoFar
<1>2. RequestsSoFar'
    BY DEF CInv, RequestsSoFar, NoHostname
<1>3. AnswerShown'
    BY DEF CInv, AnswerShown
<1> QED
    BY <1>1, <1>2, <1>3

LEMMA StartCInv ==
    ASSUME IInv, CInv, NEW p \in Ports, Start(p)
    PROVE  CInv'
<1> DEFINE m == Request(p, 1, "A", <<runs + 1, 0>>, 0, "hostname")
<1>1. /\ runs < MaxRuns /\ runs' = runs + 1
      /\ client' = [client EXCEPT ![p] = Program(runs + 1)]
      /\ toSrv' = toSrv \cup {m}
      /\ UNCHANGED <<shown, sess, challenges, ran, toCli>>
    BY DEF Start, srvVars
<1>2. m.type = "A"
    BY DEF Request
<1>3. runs \in Nat /\ runs + 1 \in Runs
    BY <1>1, Values DEF IInv, TypeOK, Runs
<1> HIDE DEF m
<1>4. SessionsDiffer' /\ RanSent' /\ AnswersRan' /\ ExecutedInOrder'
    BY <1>1, ServerKept
<1>5. \A q \in Ports : client[q].pc # "off" => client[q].run # runs + 1
    BY <1>3 DEF IInv, Known
<1>6. /\ client'[p].pc = "A" /\ client'[p].run = runs + 1
      /\ \A q \in Ports : q # p => client'[q] = client[q]
    BY <1>1 DEF IInv, TypeOK, Program
<1>7. OneProgram'
    BY <1>5, <1>6 DEF CInv, OneProgram
<1>8. \A n \in toSrv : n.key[1] # runs + 1
    BY <1>3 DEF IInv, Known
<1>9. RequestsSoFar'
    BY <1>1, <1>2, <1>6, <1>8 DEF CInv, RequestsSoFar, NoHostname
<1>10. SentInOrder'
    BY <1>1, <1>2 DEF CInv, SentInOrder
<1>11. shown[runs + 1] = {}
    BY <1>3 DEF CInv, ShownSoFar
<1>12. ShownSoFar'
    BY <1>1, <1>3, <1>6, <1>11 DEF CInv, ShownSoFar, Runs
<1>13. AnswerShown'
    BY <1>1 DEF CInv, AnswerShown
<1> QED
    BY <1>4, <1>7, <1>9, <1>10, <1>12, <1>13 DEF CInv

LEMMA EndCInv ==
    ASSUME IInv, CInv, NEW p \in Ports, NEW how, End(p, how),
           UNCHANGED <<runs, cred, shown, srv, restarts, sess, challenges, ran, toSrv, toCli>>
    PROVE  CInv'
<1>1. /\ client'[p].pc = "off"
      /\ \A q \in Ports : q # p => client'[q] = client[q]
    BY DEF IInv, TypeOK, End, Idle
<1>2. SessionsDiffer' /\ RanSent' /\ AnswersRan' /\ ExecutedInOrder'
    BY ServerKept
<1>3. OneProgram' /\ SentInOrder'
    BY <1>1 DEF CInv, OneProgram, SentInOrder
<1>4. RequestsSoFar'
    BY <1>1 DEF CInv, RequestsSoFar, NoHostname
<1>5. ShownSoFar' /\ AnswerShown'
    BY <1>1 DEF CInv, ShownSoFar, AnswerShown
<1> QED
    BY <1>2, <1>3, <1>4, <1>5 DEF CInv

LEMMA AskCInv ==
    ASSUME IInv, CInv, NEW p \in Ports, NEW s \in Nat, NEW c \in Commands, NEW w, Ask(p, s, c, w),
           \/ client[p].pc = "B" /\ c = Hostname
           \/ client[p].pc = "prompt" /\ s = client[p].seq /\ c = client[p].cmd + 1,
           UNCHANGED <<runs, cred, outcome, shown, srv, restarts, sess, challenges, ran, toCli>>
    PROVE  CInv'
<1> DEFINE x == [pc |-> "C", run |-> client[p].run, seq |-> s, key |-> client[p].key, cmd |-> c, word |-> w]
           m == Request(p, s, "C", client[p].key, c, w)
<1>1. client' = [client EXCEPT ![p] = x] /\ toSrv' = toSrv \cup {m}
    BY DEF Ask, GoesOn
<1>2. m.type = "C" /\ m.seq = s /\ m.key = client[p].key /\ m.cmd = c
    BY DEF Request
<1>3. /\ client'[p] = x
      /\ \A q \in Ports : q # p => client'[q] = client[q]
    BY <1>1 DEF IInv, TypeOK
<1> HIDE DEF m
<1>4. SessionsDiffer' /\ RanSent' /\ AnswersRan' /\ ExecutedInOrder'
    BY <1>1, ServerKept
<1>5. OneProgram'
    BY <1>3 DEF CInv, OneProgram
<1>6. client[p].key[1] = client[p].run /\ client[p].cmd \in Nat /\ Hostname = 0
    BY BoundsAssumption DEF IInv, Phases, TypeOK, Clients, Commands, Hostname
<1>7. \A n \in toSrv : n.type = "C" /\ n.key[1] = client[p].run =>
          /\ client[p].pc = "prompt" /\ c = client[p].cmd + 1
          /\ n.key = client[p].key /\ n.seq \in Nat /\ n.seq <= s
          /\ n.cmd \in Nat /\ n.cmd <= client[p].cmd
          /\ n.seq = s => n.cmd = Hostname /\ NoHostname(client[p].run) /\ client[p].cmd = Hostname
    <2> SUFFICES ASSUME NEW n \in toSrv, n.type = "C", n.key[1] = client[p].run
                 PROVE  /\ client[p].pc = "prompt" /\ c = client[p].cmd + 1
                        /\ n.key = client[p].key /\ n.seq \in Nat /\ n.seq <= s
                        /\ n.cmd \in Nat /\ n.cmd <= client[p].cmd
                        /\ n.seq = s =>
                             n.cmd = Hostname /\ NoHostname(client[p].run) /\ client[p].cmd = Hostname
        OBVIOUS
    <2>1. client[p].pc = "prompt" /\ c = client[p].cmd + 1 /\ s = client[p].seq
        BY DEF CInv, RequestsSoFar
    <2>2. n.seq \in Nat /\ n.cmd \in Nat
        BY BoundsAssumption DEF IInv, TypeOK, Requests, Commands
    <2> QED
        BY <2>1, <2>2 DEF CInv, RequestsSoFar
<1>8. RequestsSoFar'
    <2>1. \A n \in toSrv : n.type = "C" /\ n.key[1] = client[p].run =>
              /\ n.key = x.key /\ n.seq <= x.seq /\ n.cmd <= x.cmd
              /\ n.seq = x.seq => n.cmd = Hostname /\ NoHostname(client[p].run) /\ x.cmd = 1
        BY <1>6, <1>7
    <2>2. NoHostname(client[p].run)' <=> NoHostname(client[p].run)
        BY <1>3 DEF NoHostname
    <2>3. m.seq <= x.seq /\ m.cmd <= x.cmd
        BY <1>2, BoundsAssumption DEF Commands
    <2>4. \A q \in Ports : q # p /\ client[q].pc # "off" => client[q].run # client[p].run
        BY DEF CInv, OneProgram
    <2>5. ASSUME NEW n \in toSrv', client'[p].pc # "off", n.type = "C", n.key[1] = client'[p].run
          PROVE  /\ client'[p].pc \in {"C", "prompt"}
                 /\ n.key = client'[p].key /\ n.seq <= client'[p].seq /\ n.cmd <= client'[p].cmd
                 /\ n.seq = client'[p].seq =>
                    \/ client'[p].pc = "C" /\ n.cmd = client'[p].cmd
                    \/ /\ n.cmd = Hostname /\ NoHostname(client[p].run)'
                       /\ client'[p].pc = "C" => client'[p].cmd = 1
                       /\ client'[p].pc = "prompt" => client'[p].cmd = Hostname
        <3>1. CASE n = m
            BY <1>2, <1>3, <2>3, <3>1
        <3>2. CASE n \in toSrv
            BY <1>3, <2>1, <2>2, <2>5, <3>2
        <3> QED
            BY <1>1, <2>5, <3>1, <3>2
    <2>6. ASSUME NEW q \in Ports, q # p, NEW n \in toSrv', client'[q].pc # "off",
                 n.type = "C", n.key[1] = client'[q].run
          PROVE  n \in toSrv
        BY <1>1, <1>2, <1>3, <1>6, <2>4, <2>6
    <2> QED
        BY <1>1, <1>3, <2>5, <2>6 DEF CInv, RequestsSoFar, NoHostname
<1>9. SentInOrder'
    <2>1. \A n \in toSrv : n.type = "C" /\ n.key[1] = m.key[1] =>
              /\ n.key = m.key
              /\ n.seq < m.seq => n.cmd < m.cmd
              /\ ~(m.seq < n.seq)
        BY <1>2, <1>6, <1>7
    <2>2. ~(m.seq < m.seq)
        BY <1>2
    <2> HIDE <1>7
    <2> QED
        BY <1>1, <1>2, <2>1, <2>2 DEF CInv, SentInOrder
<1>10. ShownSoFar'
    <2>1. client[p].run \in Runs
        BY BoundsAssumption DEF IInv, Known, TypeOK, Runs
    <2>2. \A y \in shown[client[p].run] : y.asked \in Nat
        BY <2>1, BoundsAssumption DEF IInv, TypeOK, Commands
    <2>3. \A y \in shown[client[p].run] : y.asked < c /\ y.asked <= c
        BY <1>6, <2>2, BoundsAssumption DEF CInv, ShownSoFar, Commands
    <2> QED
        BY <1>3, <2>3 DEF CInv, ShownSoFar
<1>11. AnswerShown'
    BY DEF CInv, AnswerShown
<1> QED
    BY <1>4, <1>5, <1>8, <1>9, <1>10, <1>11 DEF CInv

LEMMA LoginAnswerCInv ==
    ASSUME IInv, CInv, NEW p \in Ports, NEW m, LoginAnswer(p, m)
    PROVE  CInv'
<1>1. /\ client[p].pc = "A"
      /\ UNCHANGED <<runs, cred, shown, srv, restarts, sess, challenges, ran, toCli>>
    BY DEF LoginAnswer, srvVars
<1>2. CASE m.type = "P" /\ m.err = "ok"
    <2> DEFINE k == <<client[p].run, m.key[2]>>
               b == Request(p, m.seq + 1, "B", k, 0, "hostname")
    <2>1. /\ GoesOn(p, "B", m.seq + 1, k, client[p].cmd, client[p].word)
          /\ toSrv' = toSrv \cup {b}
        BY <1>2 DEF LoginAnswer
    <2>2. b.type = "B"
        BY DEF Request
    <2> HIDE DEF b, k
    <2>3. /\ client'[p].pc = "B" /\ client'[p].run = client[p].run
          /\ \A q \in Ports : q # p => client'[q] = client[q]
        BY <2>1 DEF IInv, TypeOK, GoesOn
    <2>4. SessionsDiffer' /\ RanSent' /\ AnswersRan' /\ ExecutedInOrder'
        BY <1>1, <2>1, ServerKept
    <2>5. OneProgram'
        BY <1>1, <2>3 DEF CInv, OneProgram
    <2>6. RequestsSoFar'
        <3>1. \A n \in toSrv' : n.type = "C" => n \in toSrv
            BY <2>1, <2>2
        <3>2. \A n \in toSrv : n.type = "C" => n.key[1] # client[p].run
            BY <1>1 DEF CInv, RequestsSoFar
        <3> QED
            BY <1>1, <2>3, <3>1, <3>2 DEF CInv, RequestsSoFar, NoHostname
    <2>7. SentInOrder'
        BY <2>1, <2>2 DEF CInv, SentInOrder
    <2>8. ShownSoFar' /\ AnswerShown'
        BY <1>1, <2>3 DEF CInv, ShownSoFar, AnswerShown
    <2> QED
        BY <2>4, <2>5, <2>6, <2>7, <2>8 DEF CInv
<1>3. CASE ~(m.type = "P" /\ m.err = "ok")
    <2>1. PICK how : End(p, how) /\ UNCHANGED toSrv
        BY <1>3 DEF LoginAnswer
    <2> QED
        BY <1>1, <2>1, EndCInv
<1> QED
    BY <1>2, <1>3

LEMMA ProofAnswerCInv ==
    ASSUME IInv, CInv, NEW p \in Ports, NEW m, ProofAnswer(p, m)
    PROVE  CInv'
<1>1. /\ client[p].pc = "B" /\ m.seq = 2
      /\ UNCHANGED <<runs, cred, shown, srv, restarts, sess, challenges, ran, toCli>>
    BY DEF ProofAnswer, srvVars, IInv, Phases
<1>2. CASE Ask(p, m.seq + 1, Hostname, "hostname") /\ UNCHANGED outcome
    BY <1>1, <1>2, Values, AskCInv
<1>3. CASE \E how : End(p, how) /\ UNCHANGED toSrv
    BY <1>1, <1>3, EndCInv
<1> QED
    BY <1>2, <1>3 DEF ProofAnswer

LEMMA UserCommandCInv ==
    ASSUME IInv, CInv, NEW p \in Ports, UserCommand(p)
    PROVE  CInv'
<1>1. PICK w \in Words : Ask(p, client[p].seq, client[p].cmd + 1, w)
    BY DEF UserCommand
<1>2. /\ client[p].pc = "prompt" /\ client[p].cmd < MaxCommands
      /\ UNCHANGED <<runs, cred, outcome, shown, srv, restarts, sess, challenges, ran, toCli>>
    BY DEF UserCommand, srvVars
<1>3. client[p].cmd \in Commands /\ client[p].seq \in Nat
    BY DEF IInv, TypeOK, Clients
<1>4. client[p].cmd + 1 \in Commands
    BY <1>2, <1>3, BoundsAssumption DEF Commands
<1> QED
    BY <1>1, <1>2, <1>3, <1>4, AskCInv

(* The user is prompted again: an answer has come, or the client gave up hostname. *)
LEMMA PromptCInv ==
    ASSUME IInv, CInv, NEW p \in Ports, client[p].pc = "C", NEW s \in Nat, Prompt(p, s),
           \/ s = client[p].seq + 1
           \/ s = client[p].seq /\ client[p].cmd = Hostname /\ UNCHANGED shown,
           DOMAIN shown' = DOMAIN shown,
           \A r \in Runs : r # client[p].run => shown'[r] = shown[r],
           \A x \in shown'[client[p].run] : x \in shown[client[p].run] \/ x.asked = client[p].cmd,
           AnswerShown',
           UNCHANGED <<runs, cred, outcome, srv, restarts, sess, challenges, ran, toSrv, toCli>>
    PROVE  CInv'
<1> DEFINE run == client[p].run
<1>1. /\ client'[p].pc = "prompt" /\ client'[p].run = run /\ client'[p].seq = s
      /\ client'[p].key = client[p].key /\ client'[p].cmd = client[p].cmd
      /\ \A q \in Ports : q # p => client'[q] = client[q]
    BY DEF IInv, TypeOK, Prompt, GoesOn
<1>2. SessionsDiffer' /\ RanSent' /\ AnswersRan' /\ ExecutedInOrder'
    BY ServerKept
<1>3. OneProgram' /\ SentInOrder'
    BY <1>1 DEF CInv, OneProgram, SentInOrder
<1>4. run \in Runs /\ run <= runs
    BY BoundsAssumption DEF IInv, Known, TypeOK, Runs
<1>5. client[p].seq \in Nat /\ client[p].cmd \in Nat /\ Hostname = 0
    BY BoundsAssumption DEF IInv, TypeOK, Clients, Commands, Hostname
<1>6. \A q \in Ports : q # p /\ client[q].pc # "off" =>
          client[q].run # run /\ client[q].run \in Runs
    BY BoundsAssumption DEF CInv, OneProgram, IInv, Known, TypeOK, Runs
<1>7. s = client[p].seq => NoHostname(run)'
    <2>1. \A x \in shown[run] : x.asked \in Nat /\ x.asked < client[p].cmd
        BY <1>4, BoundsAssumption DEF CInv, ShownSoFar, IInv, TypeOK, Commands
    <2> QED
        BY <1>1, <1>5, <2>1 DEF NoHostname
<1>8. RequestsSoFar'
    <2>1. ASSUME NEW m \in toSrv, m.type = "C", m.key[1] = run
          PROVE  /\ m.key = client[p].key /\ m.seq <= s /\ m.cmd <= client[p].cmd
                 /\ m.seq = s => m.cmd = Hostname /\ NoHostname(run)' /\ client[p].cmd = Hostname
        <3>1. m.seq \in Nat
            BY DEF IInv, TypeOK, Requests
        <3>2. m.key = client[p].key /\ m.seq <= client[p].seq /\ m.cmd <= client[p].cmd
            BY <2>1 DEF CInv, RequestsSoFar
        <3>3. m.seq = client[p].seq /\ client[p].cmd = Hostname => m.cmd = Hostname
            BY <1>5, <2>1 DEF CInv, RequestsSoFar
        <3> QED
            BY <1>5, <1>7, <3>1, <3>2, <3>3
    <2>2. \A q \in Ports : q # p /\ client[q].pc # "off" =>
              NoHostname(client[q].run)' <=> NoHostname(client[q].run)
        BY <1>1, <1>6 DEF NoHostname
    <2>3. ASSUME NEW m \in toSrv, m.type = "C", m.key[1] = client'[p].run
          PROVE  /\ client'[p].pc \in {"C", "prompt"}
                 /\ m.key = client'[p].key /\ m.seq <= client'[p].seq /\ m.cmd <= client'[p].cmd
                 /\ m.seq = client'[p].seq =>
                       \/ client'[p].pc = "C" /\ m.cmd = client'[p].cmd
                       \/ /\ m.cmd = Hostname /\ NoHostname(client[p].run)'
                          /\ client'[p].pc = "C" => client'[p].cmd = 1
                          /\ client'[p].pc = "prompt" => client'[p].cmd = Hostname
        BY <1>1, <2>1, <2>3
    <2>4. ASSUME NEW q \in Ports, q # p, NEW m \in toSrv, client'[q].pc # "off",
                 m.type = "C", m.key[1] = client'[q].run
          PROVE  /\ client'[q].pc \in {"C", "prompt"}
                 /\ m.key = client'[q].key /\ m.seq <= client'[q].seq /\ m.cmd <= client'[q].cmd
                 /\ m.seq = client'[q].seq =>
                       \/ client'[q].pc = "C" /\ m.cmd = client'[q].cmd
                       \/ /\ m.cmd = Hostname /\ NoHostname(client[q].run)'
                          /\ client'[q].pc = "C" => client'[q].cmd = 1
                          /\ client'[q].pc = "prompt" => client'[q].cmd = Hostname
        <3>1. client'[q] = client[q]
            BY <1>1, <2>4
        <3> QED
            BY <2>2, <2>4, <3>1 DEF CInv, RequestsSoFar
    <2> QED
        BY <1>1, <2>3, <2>4 DEF RequestsSoFar, NoHostname
<1>9. ShownSoFar'
    <2>1. \A x \in shown'[run] : x.asked <= client[p].cmd
        BY <1>5 DEF CInv, ShownSoFar
    <2>2. \A q \in Ports : q # p /\ client[q].pc # "off" => shown'[client[q].run] = shown[client[q].run]
        BY <1>6
    <2>3. \A r \in Runs : r > runs => r # run
        BY <1>4, BoundsAssumption DEF IInv, TypeOK, Runs
    <2> QED
        BY <1>1, <2>1, <2>2, <2>3 DEF CInv, ShownSoFar
<1> QED
    BY <1>2, <1>3, <1>8, <1>9 DEF CInv

LEMMA GiveUpCInv ==
    ASSUME IInv, CInv, NEW p \in Ports, GiveUp(p)
    PROVE  CInv'
<1>1. UNCHANGED <<runs, cred, shown, srv, restarts, sess, challenges, ran, toSrv, toCli>>
    BY DEF GiveUp, srvVars
<1>2. CASE client[p].pc = "C" /\ client[p].cmd = Hostname /\ Prompt(p, client[p].seq) /\ UNCHANGED outcome
    <2>1. client[p].seq \in Nat
        BY DEF IInv, TypeOK, Clients
    <2>2. AnswerShown'
        BY <1>1 DEF CInv, AnswerShown
    <2> QED
        BY <1>1, <1>2, <2>1, <2>2, PromptCInv
<1>3. CASE End(p, "gave_up")
    BY <1>1, <1>3, EndCInv
<1> QED
    BY <1>2, <1>3 DEF GiveUp

LEMMA CommandAnswerCInv ==
    ASSUME IInv, CInv, NEW p \in Ports, NEW m, CommandAnswer(p, m)
    PROVE  CInv'
<1>1. /\ client[p].pc = "C" /\ m \in toCli[p] /\ m.seq = client[p].seq
      /\ UNCHANGED <<runs, cred, srv, restarts, sess, challenges, ran, toSrv, toCli>>
    BY DEF CommandAnswer, srvVars
<1>2. client[p] \in Clients /\ m.seq \in Nat /\ m.seq + 1 \in Nat
    BY <1>1 DEF IInv, TypeOK, Clients
<1>3. CASE /\ m.type = "R" /\ m.key = client[p].key
           /\ shown' = [shown EXCEPT ![client[p].run] = @ \cup {Show(client[p].cmd, m)}]
           /\ Prompt(p, m.seq + 1)
           /\ UNCHANGED outcome
    <2> DEFINE run == client[p].run
               x == Show(client[p].cmd, m)
    <2>1. x.asked = client[p].cmd /\ x.cmd = m.cmd
        BY DEF Show
    <2>2. run \in Runs /\ client[p].key[1] = run
        BY <1>1, BoundsAssumption DEF IInv, Known, Phases, TypeOK, Runs
    <2>3. /\ shown'[run] = shown[run] \cup {x} /\ DOMAIN shown' = DOMAIN shown
          /\ \A r \in Runs : r # run => shown'[r] = shown[r]
        BY <1>3, <2>2 DEF IInv, TypeOK
    <2> HIDE DEF x
    <2>4. PICK n \in toSrv : n.type = "C" /\ n.key = m.key /\ n.cmd = m.cmd /\ n.seq = m.seq
        BY <1>1, <1>3 DEF CInv, AnswersRan, Got
    <2>5. \/ m.cmd = client[p].cmd
          \/ m.cmd = Hostname /\ NoHostname(run) /\ client[p].cmd = 1
        BY <1>1, <1>3, <2>2, <2>4 DEF CInv, RequestsSoFar
    <2>6. PICK i \in DOMAIN ran : ran[i][1] = m.key /\ ran[i][2] = m.cmd
        BY <1>1, <1>3 DEF CInv, AnswersRan, Got
    <2>7. /\ client[p].cmd \in Nat /\ Hostname = 0
          /\ \A y \in shown[run] : y.asked \in Nat /\ y.asked < client[p].cmd
        <3>1. client[p].cmd \in Nat /\ Hostname = 0
            BY <1>2, BoundsAssumption DEF Clients, Commands, Hostname
        <3>2. \A y \in shown[run] : y.asked \in Nat
            BY <2>2, BoundsAssumption DEF IInv, TypeOK, Commands
        <3> QED
            BY <1>1, <3>1, <3>2 DEF CInv, ShownSoFar
    <2>8. ASSUME NEW y \in shown'[run]
          PROVE  /\ \E j \in DOMAIN ran : ran[j][1][1] = run /\ ran[j][2] = y.cmd
                 /\ \/ y.cmd = y.asked
                    \/ y.cmd = Hostname /\ y.asked = 1 /\ \A z \in shown'[run] : z.asked # Hostname
        <3>1. CASE y = x
            BY <1>3, <2>1, <2>2, <2>3, <2>5, <2>6, <2>7, <3>1 DEF NoHostname
        <3>2. CASE y \in shown[run]
            <4>1. \E j \in DOMAIN ran : ran[j][1][1] = run /\ ran[j][2] = y.cmd
                BY <2>2, <3>2 DEF CInv, AnswerShown
            <4>2. \/ y.cmd = y.asked
                  \/ y.cmd = Hostname /\ y.asked = 1 /\ \A z \in shown[run] : z.asked # Hostname
                BY <2>2, <3>2 DEF CInv, AnswerShown
            <4>3. y.asked = 1 => x.asked # Hostname
                BY <2>1, <2>7, <3>2
            <4> QED
                BY <2>3, <4>1, <4>2, <4>3
        <3> QED
            BY <2>3, <3>1, <3>2
    <2>9. AnswerShown'
        BY <1>1, <2>3, <2>8 DEF CInv, AnswerShown
    <2>10. \A y \in shown'[run] : y \in shown[run] \/ y.asked = client[p].cmd
        BY <2>1, <2>3
    <2> QED
        BY <1>1, <1>2, <1>3, <2>3, <2>9, <2>10, PromptCInv
<1>4. CASE \E how : End(p, how) /\ UNCHANGED shown
    BY <1>1, <1>4, EndCInv
<1>5. CASE Prompt(p, m.seq + 1) /\ UNCHANGED <<outcome, shown>>
    <2>1. AnswerShown'
        BY <1>1, <1>5 DEF CInv, AnswerShown
    <2> QED
        BY <1>1, <1>2, <1>5, <2>1, PromptCInv
<1> QED
    BY <1>3, <1>4, <1>5 DEF CommandAnswer

(* The server repeats a response or ends: no session changes but one that is made. *)
LEMMA RepeatCInv ==
    ASSUME IInv, CInv, NEW m \in toSrv, Repeat(m)
    PROVE  CInv'
<1> DEFINE p == m.port
           s == SessionOf(p)
<1>1. p \in Ports
    BY DEF IInv, TypeOK, Requests
<1>2. /\ sess' = [sess EXCEPT ![p] = s]
      /\ toCli' = [toCli EXCEPT ![p] = @ \cup s.last]
      /\ UNCHANGED <<client, runs, shown, challenges, ran, toSrv>>
    BY DEF Repeat, cliVars
<1>3. s.state = sess[p].state /\ s.last = sess[p].last /\ (s.state # "ZERO" => s = sess[p])
    BY <1>1, SessionTyped
<1> HIDE DEF p, s
<1>4. \A q \in Ports : /\ Got(q)' = Got(q) /\ sess'[q].state = sess[q].state
                       /\ sess[q].state # "ZERO" => sess'[q] = sess[q]
    BY <1>1, <1>2, <1>3 DEF IInv, TypeOK, Got
<1>5. OneProgram' /\ RequestsSoFar' /\ SentInOrder' /\ ShownSoFar' /\ AnswerShown'
    BY <1>2, ClientsKept
<1>6. SessionsDiffer'
    BY <1>4 DEF CInv, SessionsDiffer
<1>7. RanSent'
    BY <1>2, <1>4 DEF CInv, RanSent
<1>8. AnswersRan' /\ ExecutedInOrder'
    BY <1>2, <1>4 DEF CInv, AnswersRan, ExecutedInOrder
<1> QED
    BY <1>5, <1>6, <1>7, <1>8 DEF CInv

(* A response to anything but a command. *)
LEMMA RespondCInv ==
    ASSUME IInv, CInv, NEW m \in toSrv, m.seq = SessionOf(m.port).seq,
           NEW r, r.type # "R", NEW st, NEW k, Respond(m, r, st, k), UNCHANGED ran,
           \/ st = "ZERO"
           \/ st # "ZERO" /\ sess[m.port].state # "ZERO" /\ k = sess[m.port].key
           \/ st # "ZERO" /\ k[2] \notin 1..challenges
    PROVE  CInv'
<1> DEFINE p == m.port
           s == [live |-> TRUE, seq |-> m.seq + 1, last |-> {r}, state |-> st, key |-> k]
<1>1. p \in Ports /\ m.seq \in Nat
    BY DEF IInv, TypeOK, Requests
<1>2. /\ sess' = [sess EXCEPT ![p] = s]
      /\ toCli' = [toCli EXCEPT ![p] = @ \cup {r}]
      /\ UNCHANGED <<client, runs, shown, toSrv>>
    BY DEF Respond, cliVars
<1>3. sess'[p] = s /\ \A q \in Ports : q # p => sess'[q] = sess[q]
    BY <1>1, <1>2 DEF IInv, TypeOK
<1>4. \A q \in Ports : \A x \in Got(q)' : x \in Got(q) \/ x = r
    BY <1>1, <1>2 DEF IInv, TypeOK, Got
<1>5. OneProgram' /\ RequestsSoFar' /\ SentInOrder' /\ ShownSoFar' /\ AnswerShown'
    BY <1>2, ClientsKept
<1>6. SessionsDiffer'
    BY <1>1, <1>3 DEF CInv, SessionsDiffer, IInv, Known
<1>7. RanSent'
    <2> SUFFICES ASSUME NEW i \in DOMAIN ran
                 PROVE  \E n \in toSrv : 
                           /\ n.type = "C" /\ n.key = ran[i][1] /\ n.cmd = ran[i][2]
                           /\ \A q \in Ports : sess'[q].state # "ZERO" /\ sess'[q].key = n.key =>
                                                   n.seq < sess'[q].seq
        BY <1>2 DEF RanSent
    <2>1. PICK n \in toSrv :
              /\ n.type = "C" /\ n.key = ran[i][1] /\ n.cmd = ran[i][2]
              /\ \A q \in Ports : sess[q].state # "ZERO" /\ sess[q].key = n.key => n.seq < sess[q].seq
        BY DEF CInv, RanSent
    <2>2. n.seq \in Nat /\ n.key[2] \in 1..challenges
        BY <2>1 DEF IInv, Known, TypeOK, Requests
    <2>3. sess[p].state # "ZERO" => m.seq = sess[p].seq
        BY <1>1, SessionTyped
    <2>4. st # "ZERO" /\ k = n.key => n.seq < m.seq + 1
        BY <1>1, <2>1, <2>2, <2>3
    <2> QED
        BY <1>3, <2>1, <2>4
<1>8. AnswersRan' /\ ExecutedInOrder'
    BY <1>2, <1>4 DEF CInv, AnswersRan, ExecutedInOrder
<1> QED
    BY <1>5, <1>6, <1>7, <1>8 DEF CInv

LEMMA HandshakeCInv ==
    ASSUME IInv, CInv, NEW m \in toSrv,
           ZeroKnown(m) \/ ZeroUnknown(m) \/ AlphaProved(m) \/ AlphaRefused(m)
    PROVE  CInv'
<1>1. CASE ZeroKnown(m)
    <2> DEFINE k == <<m.key[1], challenges'>>
               r == Reply(m.seq, "P", "ok", k, 0, "none")
    <2>1. /\ Expected(m) /\ challenges' = challenges + 1 /\ UNCHANGED ran
          /\ Respond(m, r, "ALPHA", k)
        BY <1>1 DEF ZeroKnown
    <2>2. k[2] \notin 1..challenges
        BY <2>1 DEF IInv, TypeOK
    <2>3. r.type # "R"
        BY DEF Reply
    <2> HIDE DEF k, r
    <2> QED
        BY <2>1, <2>2, <2>3, RespondCInv DEF Expected
<1>2. CASE ZeroUnknown(m)
    <2> DEFINE r == Reply(m.seq, "P", "user_not_found", NoKey, 0, "none")
    <2>1. Expected(m) /\ UNCHANGED ran /\ Respond(m, r, "ZERO", NoKey)
        BY <1>2 DEF ZeroUnknown
    <2>2. r.type # "R"
        BY DEF Reply
    <2> HIDE DEF r
    <2> QED
        BY <2>1, <2>2, RespondCInv DEF Expected
<1>3. CASE AlphaProved(m)
    <2> DEFINE k == SessionOf(m.port).key
               r == Reply(m.seq, "Q", "ok", k, 0, "none")
    <2>1. /\ Expected(m) /\ SessionOf(m.port).state = "ALPHA" /\ UNCHANGED ran
          /\ Respond(m, r, "BETA", k)
        BY <1>3 DEF AlphaProved
    <2>2. sess[m.port].state # "ZERO" /\ k = sess[m.port].key
        BY <2>1, ExpectedRequest
    <2>3. r.type # "R"
        BY DEF Reply
    <2> HIDE DEF k, r
    <2> QED
        BY <2>1, <2>2, <2>3, RespondCInv DEF Expected
<1>4. CASE AlphaRefused(m)
    <2> DEFINE e == IF m.type = "B" THEN "authentication_failed" ELSE "parsing_failed"
               r == Reply(m.seq, "Q", e, NoKey, 0, "none")
    <2>1. Expected(m) /\ UNCHANGED ran /\ Respond(m, r, "ZERO", NoKey)
        BY <1>4 DEF AlphaRefused
    <2>2. r.type # "R"
        BY DEF Reply
    <2> HIDE DEF r
    <2> QED
        BY <2>1, <2>2, RespondCInv DEF Expected
<1> QED
    BY <1>1, <1>2, <1>3, <1>4

(* A command is executed: what its program had executed before was sent before. *)
LEMMA BetaCommandCInv ==
    ASSUME IInv, CInv, NEW m \in toSrv, BetaCommand(m)
    PROVE  CInv'
<1> DEFINE p == m.port
           k == sess[p].key
<1>1. /\ Expected(m) /\ SessionOf(p).state = "BETA" /\ UNCHANGED challenges
      /\ m.type = "C" /\ m.key = SessionOf(p).key
      /\ ran' = Append(ran, <<m.key, m.cmd>>)
    BY DEF BetaCommand, Decrypts
<1>2. /\ p \in Ports /\ m.seq \in Nat /\ sess[p].state = "BETA" /\ m.seq = sess[p].seq /\ m.key = k
      /\ m.key \in Keys /\ m.cmd \in Commands
    BY <1>1, ExpectedRequest
<1>3. PICK a : Respond(m, Reply(m.seq, "R", "ok", k, m.cmd, a), "BETA", k)
    BY <1>1, <1>2 DEF BetaCommand
<1> DEFINE r == Reply(m.seq, "R", "ok", k, m.cmd, a)
           s == [live |-> TRUE, seq |-> m.seq + 1, last |-> {r}, state |-> "BETA", key |-> k]
<1>4. /\ sess' = [sess EXCEPT ![p] = s]
      /\ toCli' = [toCli EXCEPT ![p] = @ \cup {r}]
      /\ UNCHANGED <<client, runs, shown, toSrv>>
    BY <1>3 DEF Respond, cliVars
<1>5. s.state = "BETA" /\ s.key = k /\ s.seq = m.seq + 1
    OBVIOUS
<1>6. r.key = k /\ r.cmd = m.cmd /\ r.seq = m.seq
    BY DEF Reply
<1> HIDE DEF s, r
<1>7. sess'[p] = s /\ \A q \in Ports : q # p => sess'[q] = sess[q]
    BY <1>2, <1>4 DEF IInv, TypeOK
<1>8. \A q \in Ports : \A x \in Got(q)' : x \in Got(q) \/ x = r
    BY <1>2, <1>4, <1>7 DEF IInv, TypeOK, Got, Respond, s
<1>9. ran \in Seq(Keys \X Commands) /\ <<m.key, m.cmd>> \in Keys \X Commands
    BY <1>2 DEF IInv, TypeOK
<1>10. /\ DOMAIN ran' = 1 .. Len(ran) + 1 /\ DOMAIN ran = 1 .. Len(ran) /\ Len(ran) \in Nat
       /\ \A i \in DOMAIN ran : i \in DOMAIN ran' /\ ran'[i] = ran[i]
       /\ ran'[Len(ran) + 1] = <<m.key, m.cmd>>
    BY <1>1, <1>9
<1>11. OneProgram' /\ RequestsSoFar' /\ SentInOrder' /\ ShownSoFar' /\ AnswerShown'
    BY <1>4, <1>10, ClientsKept
<1>12. SessionsDiffer'
    BY <1>2, <1>5, <1>7 DEF CInv, SessionsDiffer
<1>13. RanSent'
    <2>1. ASSUME NEW i \in DOMAIN ran
          PROVE  \E n \in toSrv :
                    /\ n.type = "C" /\ n.key = ran[i][1] /\ n.cmd = ran[i][2]
                    /\ \A q \in Ports : sess'[q].state # "ZERO" /\ sess'[q].key = n.key =>
                                            n.seq < sess'[q].seq
        <3>1. PICK n \in toSrv :
                  /\ n.type = "C" /\ n.key = ran[i][1] /\ n.cmd = ran[i][2]
                  /\ \A q \in Ports : sess[q].state # "ZERO" /\ sess[q].key = n.key => n.seq < sess[q].seq
            BY DEF CInv, RanSent
        <3>2. n.seq \in Nat
            BY DEF IInv, TypeOK, Requests
        <3>3. k = n.key => n.seq < m.seq + 1
            BY <1>2, <3>1, <3>2
        <3> QED
            BY <1>5, <1>7, <3>1, <3>3
    <2>2. \A q \in Ports : sess'[q].state # "ZERO" /\ sess'[q].key = m.key => m.seq < sess'[q].seq
        <3>1. \A q \in Ports : sess'[q].state # "ZERO" /\ sess'[q].key = m.key => q = p
            BY <1>2, <1>7 DEF CInv, SessionsDiffer
        <3> QED
            BY <1>2, <1>5, <1>7, <3>1
    <2>3. \A i \in DOMAIN ran' : i \in DOMAIN ran \/ i = Len(ran) + 1
        BY <1>10
    <2> QED
        BY <1>1, <1>4, <1>10, <2>1, <2>2, <2>3 DEF RanSent
<1>14. AnswersRan'
    <2>1. \E i \in DOMAIN ran' : ran'[i][1] = m.key /\ ran'[i][2] = m.cmd
        BY <1>10
    <2>2. ASSUME NEW q \in Ports, NEW x \in Got(q)', x.type = "R"
          PROVE  /\ \E n \in toSrv' : n.type = "C" /\ n.key = x.key /\ n.cmd = x.cmd /\ n.seq = x.seq
                 /\ \E i \in DOMAIN ran' : ran'[i][1] = x.key /\ ran'[i][2] = x.cmd
        <3>1. CASE x = r
            BY <1>1, <1>2, <1>4, <1>6, <2>1, <3>1
        <3>2. CASE x \in Got(q)
            <4>1. \E n \in toSrv : n.type = "C" /\ n.key = x.key /\ n.cmd = x.cmd /\ n.seq = x.seq
                BY <2>2, <3>2 DEF CInv, AnswersRan
            <4>2. \E i \in DOMAIN ran : ran[i][1] = x.key /\ ran[i][2] = x.cmd
                BY <2>2, <3>2 DEF CInv, AnswersRan
            <4> QED
                BY <1>4, <1>10, <4>1, <4>2
        <3> QED
            BY <1>8, <3>1, <3>2
    <2> QED
        BY <2>2 DEF AnswersRan
<1>15. ExecutedInOrder'
    <2>1. ASSUME NEW i \in DOMAIN ran, ran[i][1][1] = m.key[1]
          PROVE  ran[i][2] < m.cmd
        <3>1. PICK n \in toSrv :
                  /\ n.type = "C" /\ n.key = ran[i][1] /\ n.cmd = ran[i][2]
                  /\ \A q \in Ports : sess[q].state # "ZERO" /\ sess[q].key = n.key => n.seq < sess[q].seq
            BY DEF CInv, RanSent
        <3>2. n.key = m.key
            BY <1>1, <2>1, <3>1 DEF CInv, SentInOrder
        <3>3. n.seq < m.seq
            BY <1>2, <3>1, <3>2
        <3> QED
            BY <1>1, <2>1, <3>1, <3>3 DEF CInv, SentInOrder
    <2>2. ASSUME NEW i \in DOMAIN ran', NEW j \in DOMAIN ran', i < j, ran'[i][1][1] = ran'[j][1][1]
          PROVE  ran'[i][2] < ran'[j][2]
        <3>1. CASE j = Len(ran) + 1
            <4>1. i \in DOMAIN ran
                BY <1>10, <2>2, <3>1
            <4>2. ran'[i] = ran[i] /\ ran'[j][1] = m.key /\ ran'[j][2] = m.cmd
                BY <1>10, <3>1, <4>1
            <4> QED
                BY <2>1, <2>2, <4>1, <4>2
        <3>2. CASE j # Len(ran) + 1
            <4>1. i \in DOMAIN ran /\ j \in DOMAIN ran
                BY <1>10, <2>2, <3>2
            <4> QED
                BY <1>10, <2>2, <4>1 DEF CInv, ExecutedInOrder
        <3> QED
            BY <3>1, <3>2
    <2> QED
        BY <2>2 DEF ExecutedInOrder
<1> QED
    BY <1>11, <1>12, <1>13, <1>14, <1>15 DEF CInv

LEMMA RestartCInv ==
    ASSUME CInv, Restart
    PROVE  CInv'
<1>1. /\ \A p \in Ports : sess'[p] = NoSession
      /\ UNCHANGED <<client, runs, shown, challenges, ran, toSrv, toCli>>
    BY DEF Restart, cliVars
<1>2. NoSession.state = "ZERO" /\ NoSession.last = {}
    BY DEF NoSession
<1>3. OneProgram' /\ RequestsSoFar' /\ SentInOrder' /\ ShownSoFar' /\ AnswerShown'
    BY <1>1, ClientsKept
<1>4. SessionsDiffer' /\ RanSent'
    BY <1>1, <1>2 DEF CInv, SessionsDiffer, RanSent
<1>5. AnswersRan' /\ ExecutedInOrder'
    BY <1>1, <1>2 DEF CInv, AnswersRan, ExecutedInOrder, Got
<1> QED
    BY <1>3, <1>4, <1>5 DEF CInv

LEMMA QuietCInv ==
    ASSUME CInv, UNCHANGED <<client, runs, shown, sess, challenges, ran, toSrv, toCli>>
    PROVE  CInv'
BY ClientsKept, ServerKept DEF CInv

LEMMA NextCInv == IInv /\ CInv /\ [Next]_vars => CInv'
<1> SUFFICES ASSUME IInv, CInv, [Next]_vars PROVE CInv'
    OBVIOUS
<1>1. CASE \E p \in Ports : Start(p) \/ GiveUp(p) \/ UserCommand(p)
    BY <1>1, StartCInv, GiveUpCInv, UserCommandCInv
<1>2. CASE \E p \in Ports : Exit(p)
    BY <1>2, EndCInv DEF Exit, srvVars
<1>3. CASE \E p \in Ports : Answered(p)
    BY <1>3, LoginAnswerCInv, ProofAnswerCInv, CommandAnswerCInv DEF Answered
<1>4. CASE \E m \in toSrv : \/ Repeat(m) \/ BetaCommand(m)
                            \/ ZeroKnown(m) \/ ZeroUnknown(m) \/ AlphaProved(m) \/ AlphaRefused(m)
    BY <1>4, RepeatCInv, HandshakeCInv, BetaCommandCInv
<1>5. CASE \/ \E m \in toSrv : BetaFails(m)
           \/ Stop
           \/ UNCHANGED vars
    BY <1>5, QuietCInv DEF BetaFails, Stop, vars, cliVars
<1>6. CASE Restart
    BY <1>6, RestartCInv
<1> QED
    BY <1>1, <1>2, <1>3, <1>4, <1>5, <1>6 DEF Next, Serve

THEOREM CommandsInductive == Spec => [](IInv /\ CInv)
BY InitIInv, NextIInv, InitCInv, NextCInv, PTL DEF Spec

(* The commands of a program are executed in the order in which they were  *)
(* typed and none of them twice, in whatever order and how often their     *)
(* capsules come, and across restarts of the server.                       *)
THEOREM CommandsInOrder == Spec => []ExecutedInOrder
<1>1. CInv => ExecutedInOrder
    BY DEF CInv
<1> QED
    BY <1>1, CommandsInductive, PTL

(* What a client shows is the answer to the command it was asked for, but  *)
(* for the hostname it has given up (ClientSession::run).                  *)
THEOREM AnswersTheCommand == Spec => []AnswerShown
<1>1. CInv => AnswerShown
    BY DEF CInv
<1> QED
    BY <1>1, CommandsInductive, PTL

-----------------------------------------------------------------------------
(* The first life of the server: a session answers one program and no other. *)

(* A program that runs is the last one to have used its port. *)
PortRuns ==
    \A p \in Ports : client[p].pc # "off" =>
        /\ \E m \in toSrv : m.port = p /\ m.key[1] = client[p].run
        /\ \A m \in toSrv : m.port = p => m.key[1] <= client[p].run

NoOutcomeYet == \A r \in Runs : r > runs => outcome[r] = "none"

LastSent == \A p \in Ports : sess[p].last \subseteq toCli[p]

Challenge(p, a) == a \in toCli[p] /\ a.type = "P" /\ a.err = "ok"
Accepts(m) == (m.type = "Q" /\ m.err = "ok") \/ m.type = "R"

(* One response for each number; a session that has let somebody in keeps to its key. *)
ResponsesFirst ==
    \A p \in Ports :
        /\ \A m \in toCli[p] : sess[p].live /\ m.seq < sess[p].seq
        /\ \A m, n \in toCli[p] : m.seq = n.seq => m = n
        /\ \A m \in toCli[p] : Accepts(m) => sess[p].state = "BETA" /\ m.key = sess[p].key
        /\ \A m \in toCli[p] : m.type = "P" /\ m.err = "ok" => m.seq = 1
        /\ sess[p].state = "ALPHA" => \E a : Challenge(p, a) /\ a.key = sess[p].key

(* Each response has its reason in a request. *)
ReasonsFirst ==
    \A p \in Ports : \A m \in toCli[p] :
        /\ m.err = "ok" => \E n \in toSrv : n.port = p /\ n.key[1] = m.key[1]
        /\ m.err = "user_not_found" =>
              \E n \in toSrv : n.port = p /\ n.seq = m.seq /\ (n.type = "A" => cred[n.key[1]] = "nouser")
        /\ m.err = "authentication_failed" =>
              \E n \in toSrv :
                 /\ n.type = "B" /\ n.port = p
                 /\ cred[n.key[1]] = "good" => \E a : Challenge(p, a) /\ n.key # a.key

(* A client that got past M2 shares the key of the session of its port. *)
RequestsFirst ==
    /\ \A m \in toSrv :
         /\ m.type = "C" => sess[m.port].state = "BETA" /\ m.key = sess[m.port].key
         /\ m.type = "B" => \E a : Challenge(m.port, a) /\ m.key[2] = a.key[2]
    /\ \A p \in Ports : client[p].pc \in {"C", "prompt"} =>
         sess[p].state = "BETA" /\ client[p].key = sess[p].key

FirstLife == restarts = 0 => ResponsesFirst /\ ReasonsFirst /\ RequestsFirst

FInv == PortRuns /\ NoOutcomeYet /\ LastSent /\ FirstLife /\ RefusedRightly /\ NobodyFails

LEMMA InitFInv == Init => FInv
<1> SUFFICES ASSUME Init PROVE FInv
    OBVIOUS
<1>1. PortRuns /\ NoOutcomeYet /\ LastSent
    BY DEF Init, PortRuns, NoOutcomeYet, LastSent, Idle, NoSession
<1>2. ResponsesFirst /\ ReasonsFirst /\ RequestsFirst
    BY DEF Init, ResponsesFirst, ReasonsFirst, RequestsFirst, Idle, NoSession
<1>3. RefusedRightly /\ NobodyFails
    BY DEF Init, RefusedRightly, NobodyFails
<1> QED
    BY <1>1, <1>2, <1>3 DEF FInv, FirstLife

(* What a client does changes no response and no reason of one. *)
LEMMA ResponsesKept ==
    ASSUME IInv, FInv, UNCHANGED <<restarts, sess, toCli>>, toSrv \subseteq toSrv',
           \A r \in 1..runs : cred'[r] = cred[r]
    PROVE  LastSent' /\ (restarts = 0 => ResponsesFirst' /\ ReasonsFirst')
<1>1. LastSent'
    BY DEF FInv, LastSent
<1>2. restarts = 0 => ResponsesFirst'
    BY DEF FInv, FirstLife, ResponsesFirst, Challenge
<1>3. ASSUME restarts = 0 PROVE ReasonsFirst'
    <2>1. \A n \in toSrv : n \in toSrv' /\ cred'[n.key[1]] = cred[n.key[1]]
        BY DEF IInv, Known
    <2>2. \A p, a : Challenge(p, a)' <=> Challenge(p, a)
        BY DEF Challenge
    <2> QED
        BY <1>3, <2>1, <2>2 DEF FInv, FirstLife, ReasonsFirst
<1> QED
    BY <1>1, <1>2, <1>3

(* What was refused stays refused for its reason. *)
LEMMA RefusedKept ==
    ASSUME IInv, FInv, toSrv \subseteq toSrv', restarts' = restarts \/ restarts' > 0,
           NEW r \in Runs, outcome'[r] = outcome[r],
           r <= runs => cred'[r] = cred[r],
           outcome'[r] = "refused", cred'[r] = "good"
    PROVE  \/ restarts' > 0
           \/ \E m, n \in toSrv' : m.key[1] = r /\ n.port = m.port /\ n.key[1] < r
<1>1. r <= runs
    <2>1. r \in Nat /\ runs \in Nat
        BY BoundsAssumption DEF IInv, TypeOK, Runs
    <2>2. ~(r > runs)
        BY DEF FInv, NoOutcomeYet
    <2> QED
        BY <2>1, <2>2
<1> QED
    BY <1>1 DEF FInv, RefusedRightly

LEMMA StartFInv ==
    ASSUME IInv, FInv, NEW p \in Ports, Start(p)
    PROVE  FInv'
<1> DEFINE m == Request(p, 1, "A", <<runs + 1, 0>>, 0, "hostname")
<1>1. /\ client[p].pc = "off" /\ runs < MaxRuns /\ runs' = runs + 1
      /\ client' = [client EXCEPT ![p] = Program(runs + 1)]
      /\ toSrv' = toSrv \cup {m}
      /\ UNCHANGED <<outcome, srv, restarts, sess, toCli>>
    BY DEF Start, srvVars
<1>2. PICK g \in Creds : cred' = [cred EXCEPT ![runs + 1] = g]
    BY DEF Start
<1>3. m.type = "A" /\ m.port = p /\ m.key[1] = runs + 1
    BY DEF Request
<1> HIDE DEF m
<1>4. /\ client'[p].pc = "A" /\ client'[p].run = runs + 1
      /\ \A q \in Ports : q # p => client'[q] = client[q]
    BY <1>1 DEF IInv, TypeOK, Program
<1>5. runs \in Nat /\ runs + 1 \in Runs
    BY <1>1, Values DEF IInv, TypeOK, Runs
<1>6. \A r \in Runs : r # runs + 1 => cred'[r] = cred[r]
    BY <1>2, <1>5 DEF IInv, TypeOK
<1>7. \A r \in 1..runs : cred'[r] = cred[r]
    BY <1>1, <1>5, <1>6, Values DEF IInv, TypeOK, Runs
<1>8. PortRuns'
    <2>1. \A n \in toSrv : n.key[1] \in 1..runs
        BY DEF IInv, Known
    <2>2. \A n \in toSrv' : n.port = p => n.key[1] <= runs + 1
        BY <1>1, <1>3, <1>5, <2>1
    <2>3. \E n \in toSrv' : n.port = p /\ n.key[1] = runs + 1
        BY <1>1, <1>3
    <2>4. \A q \in Ports, n \in toSrv' : q # p /\ n.port = q => n \in toSrv
        BY <1>1, <1>3
    <2> QED
        BY <1>1, <1>4, <2>2, <2>3, <2>4 DEF FInv, PortRuns
<1>9. NoOutcomeYet'
    BY <1>1, <1>5 DEF FInv, NoOutcomeYet, Runs
<1>10. LastSent' /\ (restarts = 0 => ResponsesFirst' /\ ReasonsFirst')
    BY <1>1, <1>7, ResponsesKept
<1>11. restarts = 0 => RequestsFirst'
    BY <1>1, <1>3, <1>4 DEF FInv, FirstLife, RequestsFirst, Challenge
<1>12. RefusedRightly'
    BY <1>1, <1>5, <1>6, RefusedKept DEF RefusedRightly
<1>13. NobodyFails'
    BY <1>1 DEF FInv, NobodyFails
<1> QED
    BY <1>1, <1>8, <1>9, <1>10, <1>11, <1>12, <1>13 DEF FInv, FirstLife

(* A program that goes on. *)
LEMMA GoesOnKeeps ==
    ASSUME IInv, NEW p \in Ports, NEW pc, NEW s, NEW k, NEW c, NEW w, GoesOn(p, pc, s, k, c, w)
    PROVE  /\ client'[p].pc = pc /\ client'[p].run = client[p].run /\ client'[p].key = k
           /\ \A q \in Ports : q # p => client'[q] = client[q]
BY DEF IInv, TypeOK, GoesOn

LEMMA GoesOnFInv ==
    ASSUME IInv, FInv, NEW p \in Ports, client[p].pc # "off",
           client'[p].run = client[p].run, \A q \in Ports : q # p => client'[q] = client[q],
           toSrv \subseteq toSrv',
           \A m \in toSrv' : m \notin toSrv => m.port = p /\ m.key[1] = client[p].run,
           restarts = 0 => \A m \in toSrv' : m \notin toSrv =>
               /\ m.type = "C" => sess[p].state = "BETA" /\ m.key = sess[p].key
               /\ m.type = "B" => \E a : Challenge(p, a) /\ m.key[2] = a.key[2],
           restarts = 0 /\ client'[p].pc \in {"C", "prompt"} =>
               sess[p].state = "BETA" /\ client'[p].key = sess[p].key,
           UNCHANGED <<runs, cred, outcome, srv, restarts, sess, toCli>>
    PROVE  FInv'
<1>1. PortRuns'
    <2>1. client[p].run \in Nat
        BY BoundsAssumption DEF IInv, TypeOK, Clients
    <2>2. \A n \in toSrv' : n.port = p => n.key[1] <= client[p].run
        BY <2>1 DEF FInv, PortRuns
    <2>3. \E n \in toSrv' : n.port = p /\ n.key[1] = client[p].run
        BY DEF FInv, PortRuns
    <2>4. \A q \in Ports, n \in toSrv' : q # p /\ n.port = q => n \in toSrv
        OBVIOUS
    <2> QED
        BY <2>2, <2>3, <2>4 DEF FInv, PortRuns
<1>2. NoOutcomeYet' /\ NobodyFails'
    BY DEF FInv, NoOutcomeYet, NobodyFails
<1>3. LastSent' /\ (restarts = 0 => ResponsesFirst' /\ ReasonsFirst')
    BY ResponsesKept
<1>4. restarts = 0 => RequestsFirst'
    BY DEF FInv, FirstLife, RequestsFirst, Challenge
<1>5. RefusedRightly'
    BY RefusedKept DEF RefusedRightly
<1> QED
    BY <1>1, <1>2, <1>3, <1>4, <1>5 DEF FInv, FirstLife

(* A program that ends: for the right reason if it was refused. *)
LEMMA EndFInv ==
    ASSUME IInv, FInv, NEW p \in Ports, client[p].pc # "off", NEW how, End(p, how),
           restarts = 0 => how # "aborted",
           how = "refused" /\ cred[client[p].run] = "good" /\ restarts = 0 =>
               \E n \in toSrv : n.port = p /\ n.key[1] < client[p].run,
           UNCHANGED <<runs, cred, srv, restarts, sess, toSrv, toCli>>
    PROVE  FInv'
<1> DEFINE run == client[p].run
<1>1. /\ client'[p].pc = "off"
      /\ \A q \in Ports : q # p => client'[q] = client[q]
      /\ outcome' = [outcome EXCEPT ![run] = how]
    BY DEF IInv, TypeOK, End, Idle
<1>2. run \in Runs /\ run <= runs /\ runs \in Nat
    BY BoundsAssumption DEF IInv, Known, TypeOK, Runs
<1>3. outcome'[run] = how /\ \A r \in Runs : r # run => outcome'[r] = outcome[r]
    BY <1>1, <1>2 DEF IInv, TypeOK
<1>4. PortRuns'
    BY <1>1 DEF FInv, PortRuns
<1>5. NoOutcomeYet'
    <2>1. \A r \in Runs : r > runs => r # run
        BY <1>2, BoundsAssumption DEF Runs
    <2> QED
        BY <1>3, <2>1 DEF FInv, NoOutcomeYet
<1>6. LastSent' /\ (restarts = 0 => ResponsesFirst' /\ ReasonsFirst')
    BY ResponsesKept
<1>7. restarts = 0 => RequestsFirst'
    BY <1>1 DEF FInv, FirstLife, RequestsFirst, Challenge
<1>8. RefusedRightly'
    <2>1. ASSUME outcome'[run] = "refused", cred'[run] = "good"
          PROVE  \/ restarts' > 0
                 \/ \E m, n \in toSrv' : m.key[1] = run /\ n.port = m.port /\ n.key[1] < run
        <3>1. restarts \in Nat
            BY BoundsAssumption DEF IInv, TypeOK
        <3>2. \E m \in toSrv : m.port = p /\ m.key[1] = run
            BY DEF FInv, PortRuns
        <3> QED
            BY <1>3, <2>1, <3>1, <3>2
    <2>2. ASSUME NEW r \in Runs, r # run, outcome'[r] = "refused", cred'[r] = "good"
          PROVE  \/ restarts' > 0
                 \/ \E m, n \in toSrv' : m.key[1] = r /\ n.port = m.port /\ n.key[1] < r
        BY <1>3, <2>2, RefusedKept
    <2> QED
        BY <2>1, <2>2 DEF RefusedRightly
<1>9. NobodyFails'
    BY <1>3 DEF FInv, NobodyFails
<1> QED
    BY <1>4, <1>5, <1>6, <1>7, <1>8, <1>9 DEF FInv, FirstLife

LEMMA LoginAnswerFInv ==
    ASSUME IInv, FInv, NEW p \in Ports, NEW m, LoginAnswer(p, m)
    PROVE  FInv'
<1>1. /\ client[p].pc = "A" /\ m \in toCli[p] /\ m.seq = 1
      /\ UNCHANGED <<runs, cred, srv, restarts, sess, toCli>>
    BY DEF LoginAnswer, srvVars, IInv, Phases
<1>2. CASE m.type = "P" /\ m.err = "ok"
    <2> DEFINE k == <<client[p].run, m.key[2]>>
               b == Request(p, m.seq + 1, "B", k, 0, "hostname")
    <2>1. /\ GoesOn(p, "B", m.seq + 1, k, client[p].cmd, client[p].word)
          /\ toSrv' = toSrv \cup {b} /\ UNCHANGED outcome
        BY <1>2 DEF LoginAnswer
    <2>2. b.type = "B" /\ b.port = p /\ b.key[1] = client[p].run /\ b.key[2] = m.key[2]
        BY DEF Request
    <2>3. Challenge(p, m)
        BY <1>1, <1>2 DEF Challenge
    <2> HIDE DEF b, k
    <2>4. \A n \in toSrv' : n \notin toSrv =>
              /\ n.port = p /\ n.key[1] = client[p].run /\ n.type = "B"
              /\ \E a : Challenge(p, a) /\ n.key[2] = a.key[2]
        BY <2>1, <2>2, <2>3
    <2>5. /\ client'[p].pc = "B" /\ client'[p].run = client[p].run
          /\ \A q \in Ports : q # p => client'[q] = client[q]
        BY <2>1, GoesOnKeeps
    <2> QED
        BY <1>1, <2>1, <2>4, <2>5, GoesOnFInv
<1>3. CASE ~(m.type = "P" /\ m.err = "ok")
    <2> DEFINE how == IF m.type = "P" /\ m.err = "user_not_found" THEN "refused" ELSE "failed"
    <2>1. End(p, how) /\ UNCHANGED toSrv
        BY <1>3 DEF LoginAnswer
    <2>2. how # "aborted" /\ (how = "refused" => m.err = "user_not_found")
        OBVIOUS
    <2> HIDE DEF how
    <2>3. ASSUME how = "refused", cred[client[p].run] = "good", restarts = 0
          PROVE  \E n \in toSrv : n.port = p /\ n.key[1] < client[p].run
        <3>1. PICK n \in toSrv : n.port = p /\ n.seq = 1 /\ (n.type = "A" => cred[n.key[1]] = "nouser")
            BY <1>1, <2>2, <2>3 DEF FInv, FirstLife, ReasonsFirst
        <3>2. n.type = "A"
            BY <3>1 DEF IInv, Phases, TypeOK, Requests
        <3>3. n.key[1] # client[p].run
            BY <2>3, <3>1, <3>2
        <3>4. n.key[1] <= client[p].run
            BY <1>1, <3>1 DEF FInv, PortRuns
        <3>5. n.key[1] \in Nat /\ client[p].run \in Nat
            BY BoundsAssumption DEF IInv, TypeOK, Requests, Clients, Keys
        <3> QED
            BY <3>1, <3>3, <3>4, <3>5
    <2> QED
        BY <1>1, <2>1, <2>2, <2>3, EndFInv
<1> QED
    BY <1>2, <1>3

LEMMA AskFInv ==
    ASSUME IInv, FInv, NEW p \in Ports, client[p].pc \in {"B", "prompt"},
           NEW s, NEW c, NEW w, Ask(p, s, c, w),
           restarts = 0 => sess[p].state = "BETA" /\ client[p].key = sess[p].key,
           UNCHANGED <<runs, cred, outcome, srv, restarts, sess, toCli>>
    PROVE  FInv'
<1> DEFINE m == Request(p, s, "C", client[p].key, c, w)
<1>1. GoesOn(p, "C", s, client[p].key, c, w) /\ toSrv' = toSrv \cup {m}
    BY DEF Ask
<1>2. m.type = "C" /\ m.port = p /\ m.key = client[p].key
    BY DEF Request
<1>3. client[p].key[1] = client[p].run
    BY DEF IInv, Phases
<1> HIDE DEF m
<1>4. /\ client'[p].pc = "C" /\ client'[p].run = client[p].run /\ client'[p].key = client[p].key
      /\ \A q \in Ports : q # p => client'[q] = client[q]
    BY <1>1, GoesOnKeeps
<1>5. \A n \in toSrv' : n \notin toSrv =>
          n.type = "C" /\ n.port = p /\ n.key = client[p].key /\ n.key[1] = client[p].run
    BY <1>1, <1>2, <1>3
<1> QED
    BY <1>1, <1>4, <1>5, GoesOnFInv

LEMMA ProofAnswerFInv ==
    ASSUME IInv, FInv, NEW p \in Ports, NEW m, ProofAnswer(p, m)
    PROVE  FInv'
<1>1. /\ client[p].pc = "B" /\ m \in toCli[p]
      /\ UNCHANGED <<runs, cred, srv, restarts, sess, toCli>>
    BY DEF ProofAnswer, srvVars
<1>2. CASE m.type = "Q" /\ m.err = "ok" /\ m.key = client[p].key
    <2>1. Ask(p, m.seq + 1, Hostname, "hostname") /\ UNCHANGED outcome
        BY <1>2 DEF ProofAnswer
    <2>2. restarts = 0 => sess[p].state = "BETA" /\ client[p].key = sess[p].key
        BY <1>1, <1>2 DEF FInv, FirstLife, ResponsesFirst, Accepts
    <2> QED
        BY <1>1, <2>1, <2>2, AskFInv
<1>3. CASE ~(m.type = "Q" /\ m.err = "ok" /\ m.key = client[p].key)
    <2> DEFINE how == IF m.type = "Q" /\ m.err = "authentication_failed" THEN "refused" ELSE "failed"
    <2>1. End(p, how) /\ UNCHANGED toSrv
        BY <1>3 DEF ProofAnswer
    <2>2. how # "aborted" /\ (how = "refused" => m.err = "authentication_failed")
        OBVIOUS
    <2> HIDE DEF how
    <2>3. ASSUME how = "refused", cred[client[p].run] = "good", restarts = 0
          PROVE  \E n \in toSrv : n.port = p /\ n.key[1] < client[p].run
        <3>1. PICK n \in toSrv :
                  /\ n.type = "B" /\ n.port = p
                  /\ cred[n.key[1]] = "good" => \E a : Challenge(p, a) /\ n.key # a.key
            BY <1>1, <2>2, <2>3 DEF FInv, FirstLife, ReasonsFirst
        <3>2. /\ \A x \in toSrv : x.port = p => x.key[1] <= client[p].run
              /\ \A x \in toSrv : x.key \in Keys /\ x.key[1] \in Nat
              /\ client[p].run \in Nat
            <4>1. \A x \in toSrv : x.key \in Keys /\ x.key[1] \in Nat
                BY BoundsAssumption DEF IInv, TypeOK, Requests, Keys
            <4>2. client[p].run \in Nat
                BY BoundsAssumption DEF IInv, TypeOK, Clients
            <4> QED
                BY <1>1, <4>1, <4>2 DEF FInv, PortRuns
        <3>3. CASE n.key[1] # client[p].run
            BY <3>1, <3>2, <3>3
        <3>4. CASE n.key[1] = client[p].run
            <4>1. PICK a : Challenge(p, a) /\ n.key # a.key
                BY <2>3, <3>1, <3>4
            <4>2. PICK b : Challenge(p, b) /\ n.key[2] = b.key[2]
                BY <2>3, <3>1 DEF FInv, FirstLife, RequestsFirst
            <4>3. a = b
                BY <2>3, <4>1, <4>2 DEF FInv, FirstLife, ResponsesFirst, Challenge
            <4>4. a.key \in Keys
                BY <4>1 DEF Challenge, IInv, TypeOK, Replies
            <4>5. a.key[1] # client[p].run
                BY <3>2, <3>4, <4>1, <4>2, <4>3, <4>4 DEF Keys
            <4>6. PICK x \in toSrv : x.port = p /\ x.key[1] = a.key[1]
                BY <2>3, <4>1 DEF FInv, FirstLife, ReasonsFirst, Challenge
            <4> QED
                BY <3>2, <4>5, <4>6
        <3> QED
            BY <3>3, <3>4
    <2> QED
        BY <1>1, <2>1, <2>2, <2>3, EndFInv
<1> QED
    BY <1>2, <1>3

LEMMA PromptFInv ==
    ASSUME IInv, FInv, NEW p \in Ports, client[p].pc = "C", NEW s, Prompt(p, s),
           UNCHANGED <<runs, cred, outcome, srv, restarts, sess, toSrv, toCli>>
    PROVE  FInv'
<1>1. GoesOn(p, "prompt", s, client[p].key, client[p].cmd, client[p].word)
    BY DEF Prompt
<1>2. restarts = 0 => sess[p].state = "BETA" /\ client[p].key = sess[p].key
    BY DEF FInv, FirstLife, RequestsFirst
<1>3. /\ client'[p].pc = "prompt" /\ client'[p].run = client[p].run /\ client'[p].key = client[p].key
      /\ \A q \in Ports : q # p => client'[q] = client[q]
    BY <1>1, GoesOnKeeps
<1> QED
    BY <1>2, <1>3, GoesOnFInv

LEMMA CommandAnswerFInv ==
    ASSUME IInv, FInv, NEW p \in Ports, NEW m, CommandAnswer(p, m)
    PROVE  FInv'
<1>1. /\ client[p].pc = "C" /\ m \in toCli[p]
      /\ UNCHANGED <<runs, cred, srv, restarts, sess, toSrv, toCli>>
    BY DEF CommandAnswer, srvVars
<1>2. CASE Prompt(p, m.seq + 1) /\ UNCHANGED outcome
    BY <1>1, <1>2, PromptFInv
<1>3. CASE m.type = "R" /\ m.key # client[p].key /\ End(p, "aborted")
    <2>1. restarts # 0
        BY <1>1, <1>3 DEF FInv, FirstLife, ResponsesFirst, RequestsFirst, Accepts
    <2> QED
        BY <1>1, <1>3, <2>1, EndFInv
<1>4. CASE End(p, "failed")
    BY <1>1, <1>4, EndFInv
<1> QED
    BY <1>2, <1>3, <1>4 DEF CommandAnswer

LEMMA OtherClientFInv ==
    ASSUME IInv, FInv, NEW p \in Ports, GiveUp(p) \/ UserCommand(p) \/ Exit(p)
    PROVE  FInv'
<1>1. CASE GiveUp(p)
    <2>1. /\ client[p].pc \in {"A", "B", "C"}
          /\ UNCHANGED <<runs, cred, srv, restarts, sess, toSrv, toCli>>
        BY <1>1 DEF GiveUp, Waiting, srvVars
    <2>2. CASE client[p].pc = "C" /\ Prompt(p, client[p].seq) /\ UNCHANGED outcome
        BY <2>1, <2>2, PromptFInv
    <2>3. CASE End(p, "gave_up")
        BY <2>1, <2>3, EndFInv
    <2> QED
        BY <1>1, <2>2, <2>3 DEF GiveUp
<1>2. CASE UserCommand(p)
    <2>1. PICK w : Ask(p, client[p].seq, client[p].cmd + 1, w)
        BY <1>2 DEF UserCommand
    <2>2. /\ client[p].pc = "prompt"
          /\ UNCHANGED <<runs, cred, outcome, srv, restarts, sess, toCli>>
        BY <1>2 DEF UserCommand, srvVars
    <2>3. restarts = 0 => sess[p].state = "BETA" /\ client[p].key = sess[p].key
        BY <2>2 DEF FInv, FirstLife, RequestsFirst
    <2> QED
        BY <2>1, <2>2, <2>3, AskFInv
<1>3. CASE Exit(p)
    BY <1>3, EndFInv DEF Exit, srvVars
<1> QED
    BY <1>1, <1>2, <1>3

(* A step of the server takes nothing from the programs. *)
LEMMA ProgramsKept ==
    ASSUME IInv, FInv, UNCHANGED <<client, runs, cred, outcome, shown, toSrv>>,
           restarts' = restarts \/ restarts' > 0
    PROVE  PortRuns' /\ NoOutcomeYet' /\ RefusedRightly'
<1>1. PortRuns' /\ NoOutcomeYet'
    BY DEF FInv, PortRuns, NoOutcomeYet
<1>2. RefusedRightly'
    BY RefusedKept DEF RefusedRightly
<1> QED
    BY <1>1, <1>2

LEMMA RepeatFInv ==
    ASSUME IInv, FInv, NEW m \in toSrv, Repeat(m)
    PROVE  FInv'
<1> DEFINE p == m.port
           s == SessionOf(p)
<1>1. p \in Ports
    BY DEF IInv, TypeOK, Requests
<1>2. /\ sess' = [sess EXCEPT ![p] = s]
      /\ toCli' = [toCli EXCEPT ![p] = @ \cup s.last]
      /\ UNCHANGED <<client, runs, cred, outcome, shown, srv, restarts, toSrv>>
    BY DEF Repeat, cliVars
<1>3. /\ s.live /\ s.state = sess[p].state /\ s.last = sess[p].last
      /\ s.state # "ZERO" => s = sess[p]
    BY <1>1, SessionTyped
<1>4. sess[p].live => s = sess[p]
    BY DEF SessionOf
<1> HIDE DEF p, s
<1>5. toCli' = toCli
    BY <1>1, <1>2, <1>3 DEF FInv, LastSent, IInv, TypeOK
<1>6. sess'[p] = s /\ \A q \in Ports : q # p => sess'[q] = sess[q]
    BY <1>1, <1>2 DEF IInv, TypeOK
<1>7. LastSent' /\ NobodyFails'
    BY <1>2, <1>3, <1>5, <1>6 DEF FInv, LastSent, NobodyFails
<1>8. restarts = 0 => ResponsesFirst'
    BY <1>3, <1>4, <1>5, <1>6 DEF FInv, FirstLife, ResponsesFirst, Challenge
<1>9. restarts = 0 => ReasonsFirst'
    BY <1>2, <1>5 DEF FInv, FirstLife, ReasonsFirst, Challenge
<1>10. restarts = 0 => RequestsFirst'
    <2>1. \A q \in Ports : sess[q].state = "BETA" => sess'[q] = sess[q]
        BY <1>3, <1>6
    <2>2. \A n \in toSrv : n.port \in Ports
        BY DEF IInv, TypeOK, Requests
    <2> QED
        BY <1>2, <1>5, <2>1, <2>2 DEF FInv, FirstLife, RequestsFirst, Challenge
<1> QED
    BY <1>2, <1>7, <1>8, <1>9, <1>10, ProgramsKept DEF FInv, FirstLife

LEMMA RespondFInv ==
    ASSUME IInv, FInv, NEW m \in toSrv, m.seq = SessionOf(m.port).seq,
           NEW r, r.seq = m.seq, NEW st, NEW k, Respond(m, r, st, k),
           Accepts(r) => st = "BETA" /\ r.key = k,
           sess[m.port].state = "BETA" => st = "BETA" /\ k = sess[m.port].key,
           r.err = "ok" => \E n \in toSrv : n.port = m.port /\ n.key[1] = r.key[1],
           r.type = "P" /\ r.err = "ok" => r.seq = 1,
           st = "ALPHA" => r.type = "P" /\ r.err = "ok" /\ r.key = k,
           r.err = "user_not_found" => (m.type = "A" => cred[m.key[1]] = "nouser"),
           restarts = 0 /\ r.err = "authentication_failed" =>
               /\ m.type = "B"
               /\ cred[m.key[1]] = "good" => \E a : Challenge(m.port, a) /\ m.key # a.key
    PROVE  FInv'
<1> DEFINE p == m.port
           s == [live |-> TRUE, seq |-> m.seq + 1, last |-> {r}, state |-> st, key |-> k]
<1>1. p \in Ports /\ m.seq \in Nat
    BY DEF IInv, TypeOK, Requests
<1>2. /\ sess' = [sess EXCEPT ![p] = s]
      /\ toCli' = [toCli EXCEPT ![p] = @ \cup {r}]
      /\ UNCHANGED <<client, runs, cred, outcome, shown, srv, restarts, toSrv>>
    BY DEF Respond, cliVars
<1>3. /\ sess'[p] = s /\ \A q \in Ports : q # p => sess'[q] = sess[q]
      /\ toCli'[p] = toCli[p] \cup {r} /\ \A q \in Ports : q # p => toCli'[q] = toCli[q]
    BY <1>1, <1>2 DEF IInv, TypeOK
<1>4. s.live /\ s.seq = m.seq + 1 /\ s.last = {r} /\ s.state = st /\ s.key = k
    OBVIOUS
<1>5. sess[p].live => m.seq = sess[p].seq
    BY DEF SessionOf
<1> HIDE DEF s
<1>6. \A q \in Ports : \A a : Challenge(q, a) => Challenge(q, a)'
    BY <1>3 DEF Challenge
<1>7. \A n \in toSrv : n.port \in Ports
    BY DEF IInv, TypeOK, Requests
<1>8. LastSent' /\ NobodyFails'
    BY <1>2, <1>3, <1>4 DEF FInv, LastSent, NobodyFails
<1>9. ASSUME restarts = 0 PROVE ResponsesFirst'
    <2>1. \A x \in toCli[p] : x.seq \in Nat /\ x.seq < m.seq
        BY <1>1, <1>5, <1>9 DEF FInv, FirstLife, ResponsesFirst, IInv, TypeOK, Replies
    <2>2. \A x \in toCli'[p] : s.live /\ x.seq < s.seq
        BY <1>1, <1>3, <1>4, <2>1
    <2>3. \A x, y \in toCli'[p] : x.seq = y.seq => x = y
        BY <1>1, <1>3, <1>9, <2>1 DEF FInv, FirstLife, ResponsesFirst
    <2>4. \A x \in toCli'[p] : Accepts(x) => s.state = "BETA" /\ x.key = s.key
        BY <1>1, <1>3, <1>4, <1>9 DEF FInv, FirstLife, ResponsesFirst
    <2>5. \A x \in toCli'[p] : x.type = "P" /\ x.err = "ok" => x.seq = 1
        BY <1>1, <1>3, <1>9 DEF FInv, FirstLife, ResponsesFirst
    <2>6. s.state = "ALPHA" => \E a : Challenge(p, a)' /\ a.key = s.key
        BY <1>3, <1>4 DEF Challenge
    <2>7. \A q \in Ports : q # p /\ sess[q].state = "ALPHA" =>
              \E a : Challenge(q, a)' /\ a.key = sess[q].key
        BY <1>6, <1>9 DEF FInv, FirstLife, ResponsesFirst
    <2>8. \A x : Accepts(x)' <=> Accepts(x)
        BY DEF Accepts
    <2> QED
        BY <1>3, <1>9, <2>2, <2>3, <2>4, <2>5, <2>6, <2>7, <2>8 DEF FInv, FirstLife, ResponsesFirst
<1>10. ASSUME restarts = 0 PROVE ReasonsFirst'
    <2>1. ASSUME NEW q \in Ports, NEW x \in toCli[q]
          PROVE  /\ x.err = "ok" => \E n \in toSrv : n.port = q /\ n.key[1] = x.key[1]
                 /\ x.err = "user_not_found" =>
                       \E n \in toSrv : n.port = q /\ n.seq = x.seq /\ (n.type = "A" => cred[n.key[1]] = "nouser")
                 /\ x.err = "authentication_failed" =>
                       \E n \in toSrv :
                          /\ n.type = "B" /\ n.port = q
                          /\ cred[n.key[1]] = "good" => \E a : Challenge(q, a)' /\ n.key # a.key
        BY <1>6, <1>10 DEF FInv, FirstLife, ReasonsFirst
    <2>2. /\ r.err = "ok" => \E n \in toSrv : n.port = p /\ n.key[1] = r.key[1]
          /\ r.err = "user_not_found" =>
                \E n \in toSrv : n.port = p /\ n.seq = r.seq /\ (n.type = "A" => cred[n.key[1]] = "nouser")
          /\ r.err = "authentication_failed" =>
                \E n \in toSrv :
                   /\ n.type = "B" /\ n.port = p
                   /\ cred[n.key[1]] = "good" => \E a : Challenge(p, a)' /\ n.key # a.key
        BY <1>1, <1>6, <1>10
    <2> QED
        BY <1>2, <1>3, <2>1, <2>2 DEF ReasonsFirst
<1>11. ASSUME restarts = 0 PROVE RequestsFirst'
    <2>1. \A q \in Ports : sess[q].state = "BETA" => sess'[q].state = "BETA" /\ sess'[q].key = sess[q].key
        BY <1>3, <1>4
    <2> QED
        BY <1>2, <1>6, <1>7, <1>11, <2>1 DEF FInv, FirstLife, RequestsFirst
<1> QED
    BY <1>2, <1>8, <1>9, <1>10, <1>11, ProgramsKept DEF FInv, FirstLife

LEMMA HandshakeFInv ==
    ASSUME IInv, FInv, NEW m \in toSrv,
           ZeroKnown(m) \/ ZeroUnknown(m) \/ AlphaProved(m) \/ AlphaRefused(m)
    PROVE  FInv'
<1>1. CASE ZeroKnown(m)
    <2> DEFINE k == <<m.key[1], challenges'>>
               r == Reply(m.seq, "P", "ok", k, 0, "none")
    <2>1. /\ Expected(m) /\ SessionOf(m.port).state = "ZERO" /\ m.type = "A"
          /\ Respond(m, r, "ALPHA", k)
        BY <1>1 DEF ZeroKnown
    <2>2. r.seq = m.seq /\ r.type = "P" /\ r.err = "ok" /\ r.key = k /\ k[1] = m.key[1]
        BY DEF Reply
    <2>3. m.seq = 1 /\ sess[m.port].state = "ZERO"
        BY <2>1, ExpectedRequest DEF IInv, Phases
    <2> HIDE DEF k, r
    <2> QED
        BY <2>1, <2>2, <2>3, RespondFInv DEF Expected, Accepts
<1>2. CASE ZeroUnknown(m)
    <2> DEFINE r == Reply(m.seq, "P", "user_not_found", NoKey, 0, "none")
    <2>1. /\ Expected(m) /\ SessionOf(m.port).state = "ZERO"
          /\ m.type = "A" => cred[m.key[1]] = "nouser"
          /\ Respond(m, r, "ZERO", NoKey)
        BY <1>2 DEF ZeroUnknown
    <2>2. r.seq = m.seq /\ r.type = "P" /\ r.err = "user_not_found"
        BY DEF Reply
    <2>3. sess[m.port].state = "ZERO"
        BY <2>1, ExpectedRequest
    <2> HIDE DEF r
    <2> QED
        BY <2>1, <2>2, <2>3, RespondFInv DEF Expected, Accepts
<1>3. CASE AlphaProved(m)
    <2> DEFINE k == SessionOf(m.port).key
               r == Reply(m.seq, "Q", "ok", k, 0, "none")
    <2>1. /\ Expected(m) /\ SessionOf(m.port).state = "ALPHA" /\ m.key = k
          /\ Respond(m, r, "BETA", k)
        BY <1>3 DEF AlphaProved, Proves
    <2>2. r.seq = m.seq /\ r.type = "Q" /\ r.err = "ok" /\ r.key = k
        BY DEF Reply
    <2>3. sess[m.port].state = "ALPHA"
        BY <2>1, ExpectedRequest
    <2>4. \E n \in toSrv : n.port = m.port /\ n.key[1] = r.key[1]
        BY <2>1, <2>2
    <2> HIDE DEF k, r
    <2> QED
        BY <2>1, <2>2, <2>3, <2>4, RespondFInv DEF Expected, Accepts
<1>4. CASE AlphaRefused(m)
    <2> DEFINE e == IF m.type = "B" THEN "authentication_failed" ELSE "parsing_failed"
               r == Reply(m.seq, "Q", e, NoKey, 0, "none")
    <2>1. /\ Expected(m) /\ SessionOf(m.port).state = "ALPHA" /\ ~Proves(m)
          /\ Respond(m, r, "ZERO", NoKey)
        BY <1>4 DEF AlphaRefused
    <2>2. r.seq = m.seq /\ r.type = "Q" /\ r.err = e
        BY DEF Reply
    <2>3. e \notin {"ok", "user_not_found"} /\ (e = "authentication_failed" => m.type = "B")
        OBVIOUS
    <2>4. /\ m.port \in Ports /\ sess[m.port].state = "ALPHA"
          /\ SessionOf(m.port).key = sess[m.port].key
        BY <2>1, ExpectedRequest
    <2>5. restarts = 0 => \E a : Challenge(m.port, a) /\ a.key = sess[m.port].key
        BY <2>4 DEF FInv, FirstLife, ResponsesFirst
    <2>6. m.type = "B" /\ cred[m.key[1]] = "good" => m.key # sess[m.port].key
        BY <2>1, <2>4 DEF Proves
    <2> HIDE DEF e, r
    <2>7. restarts = 0 /\ r.err = "authentication_failed" =>
              /\ m.type = "B"
              /\ cred[m.key[1]] = "good" => \E a : Challenge(m.port, a) /\ m.key # a.key
        BY <2>2, <2>3, <2>5, <2>6
    <2> QED
        BY <2>1, <2>2, <2>3, <2>4, <2>7, RespondFInv DEF Expected, Accepts
<1> QED
    BY <1>1, <1>2, <1>3, <1>4

LEMMA BetaCommandFInv ==
    ASSUME IInv, FInv, NEW m \in toSrv, BetaCommand(m)
    PROVE  FInv'
<1> DEFINE k == SessionOf(m.port).key
<1>1. /\ Expected(m) /\ SessionOf(m.port).state = "BETA" /\ m.key = k
    BY DEF BetaCommand, Decrypts
<1>2. PICK a : Respond(m, Reply(m.seq, "R", "ok", k, m.cmd, a), "BETA", k)
    BY DEF BetaCommand
<1> DEFINE r == Reply(m.seq, "R", "ok", k, m.cmd, a)
<1>3. r.seq = m.seq /\ r.type = "R" /\ r.err = "ok" /\ r.key = k
    BY DEF Reply
<1>4. k = sess[m.port].key
    BY <1>1, ExpectedRequest
<1>5. \E n \in toSrv : n.port = m.port /\ n.key[1] = r.key[1]
    BY <1>1, <1>3
<1>6. Respond(m, r, "BETA", k)
    BY <1>2
<1> HIDE DEF k, r
<1> QED
    BY <1>1, <1>3, <1>4, <1>5, <1>6, RespondFInv DEF Expected, Accepts

(* A request that a session cannot process takes a restart. *)
LEMMA BetaFailsFInv ==
    ASSUME IInv, FInv, NEW m \in toSrv, BetaFails(m)
    PROVE  FInv'
<1>1. /\ Expected(m) /\ SessionOf(m.port).state = "BETA" /\ ~Decrypts(m)
      /\ UNCHANGED <<client, runs, cred, outcome, shown, restarts, sess, toSrv, toCli>>
    BY DEF BetaFails, cliVars
<1>2. /\ m \in Requests /\ m.port \in Ports /\ m.seq \in Nat
      /\ SessionOf(m.port) = sess[m.port] /\ sess[m.port].state = "BETA" /\ m.seq = sess[m.port].seq
    BY <1>1, ExpectedRequest
<1>3. m.type = "C"
    <2>1. m.seq >= 3
        BY <1>2 DEF IInv, Phases
    <2>2. m.type \in {"A", "B", "C"}
        BY <1>2 DEF Requests
    <2>3. m.type # "A" /\ m.type # "B"
        BY <2>1 DEF IInv, Phases
    <2> QED
        BY <2>2, <2>3
<1>4. restarts # 0
    BY <1>1, <1>2, <1>3 DEF FInv, FirstLife, RequestsFirst, Decrypts
<1>5. LastSent' /\ NobodyFails' /\ FirstLife'
    BY <1>1, <1>4 DEF FInv, LastSent, NobodyFails, FirstLife
<1> QED
    BY <1>1, <1>5, ProgramsKept DEF FInv

LEMMA RestartFInv ==
    ASSUME IInv, FInv, Restart
    PROVE  FInv'
<1>1. /\ restarts' = restarts + 1 /\ restarts \in Nat
      /\ \A p \in Ports : sess'[p] = NoSession
      /\ UNCHANGED <<client, runs, cred, outcome, shown, toSrv, toCli>>
    BY BoundsAssumption DEF Restart, cliVars, IInv, TypeOK
<1>2. restarts' > 0 /\ restarts' # 0
    BY <1>1
<1>3. LastSent'
    BY <1>1 DEF LastSent, NoSession
<1>4. NobodyFails' /\ FirstLife'
    BY <1>2 DEF NobodyFails, FirstLife
<1> QED
    BY <1>1, <1>2, <1>3, <1>4, ProgramsKept DEF FInv

LEMMA QuietFInv ==
    ASSUME IInv, FInv, srv' = srv \/ srv' = "down",
           UNCHANGED <<client, runs, cred, outcome, shown, restarts, sess, challenges, ran, toSrv, toCli>>
    PROVE  FInv'
<1>1. \A r \in 1..runs : cred'[r] = cred[r]
    OBVIOUS
<1>2. LastSent' /\ (restarts = 0 => ResponsesFirst' /\ ReasonsFirst')
    BY <1>1, ResponsesKept
<1>3. restarts = 0 => RequestsFirst'
    BY DEF FInv, FirstLife, RequestsFirst, Challenge
<1>4. NobodyFails'
    BY DEF FInv, NobodyFails
<1> QED
    BY <1>2, <1>3, <1>4, ProgramsKept DEF FInv, FirstLife

LEMMA NextFInv == IInv /\ FInv /\ [Next]_vars => FInv'
<1> SUFFICES ASSUME IInv, FInv, [Next]_vars PROVE FInv'
    OBVIOUS
<1>1. CASE \E p \in Ports : Start(p) \/ GiveUp(p) \/ UserCommand(p) \/ Exit(p)
    BY <1>1, StartFInv, OtherClientFInv
<1>2. CASE \E p \in Ports : Answered(p)
    BY <1>2, LoginAnswerFInv, ProofAnswerFInv, CommandAnswerFInv DEF Answered
<1>3. CASE \E m \in toSrv : \/ Repeat(m) \/ BetaCommand(m) \/ BetaFails(m)
                            \/ ZeroKnown(m) \/ ZeroUnknown(m) \/ AlphaProved(m) \/ AlphaRefused(m)
    BY <1>3, RepeatFInv, HandshakeFInv, BetaCommandFInv, BetaFailsFInv
<1>4. CASE Stop \/ UNCHANGED vars
    BY <1>4, QuietFInv DEF Stop, vars, cliVars
<1>5. CASE Restart
    BY <1>5, RestartFInv
<1> QED
    BY <1>1, <1>2, <1>3, <1>4, <1>5 DEF Next, Serve

THEOREM FirstLifeInductive == Spec => [](IInv /\ FInv)
BY InitIInv, NextIInv, InitFInv, NextFInv, PTL DEF Spec

(* A user with the right password is turned away only on a port that an    *)
(* earlier program has used, whose session is never removed                *)
(* (SessionManager::getSession), or after a restart of the server.         *)
THEOREM RefusedForAReason == Spec => []RefusedRightly
<1>1. FInv => RefusedRightly
    BY DEF FInv
<1> QED
    BY <1>1, FirstLifeInductive, PTL

(* Until the server is started again no request makes it return -6         *)
(* (shell_server.cpp) and no answer makes decryptAndVerifyMac throw.       *)
THEOREM NothingFails == Spec => []NobodyFails
<1>1. FInv => NobodyFails
    BY DEF FInv
<1> QED
    BY <1>1, FirstLifeInductive, PTL

(* The session of a port is of no use to a second program: none that it    *)
(* did not begin with gets as far as a command.                            *)
THEOREM SecondShutOut == Spec => SecondProgramShutOut
<1> DEFINE ShutOut == \A p \in Ports :
                client'[p].pc = "C" /\ client[p].pc = "B" /\ restarts = 0 =>
                    sess[p].key[1] = client[p].run
<1>1. IInv /\ FInv /\ IInv' /\ FInv' /\ [Next]_vars => [ShutOut]_vars
    <2> SUFFICES ASSUME IInv, FInv, FInv', [Next]_vars, UNCHANGED vars \/ Next,
                        NEW p \in Ports, client'[p].pc = "C", client[p].pc = "B", restarts = 0
                 PROVE  sess[p].key[1] = client[p].run
        OBVIOUS
    <2>1. PICK q \in Ports :
              \/ Start(q) \/ GiveUp(q) \/ UserCommand(q) \/ Exit(q)
              \/ \E m : LoginAnswer(q, m) \/ ProofAnswer(q, m) \/ CommandAnswer(q, m)
        BY DEF Next, Serve, Answered, Repeat, ZeroKnown, ZeroUnknown, AlphaProved, AlphaRefused,
               BetaCommand, BetaFails, Respond, Stop, Restart, vars, cliVars
    <2>2. p = q
        BY <2>1 DEF IInv, TypeOK, Start, GiveUp, UserCommand, Exit, LoginAnswer, ProofAnswer,
                    CommandAnswer, End, Ask, Prompt, GoesOn
    <2>t. client \in [Ports -> Clients]
        BY DEF IInv, TypeOK
    <2>e. \A how : ~ End(p, how)
        BY <2>t DEF End, Idle
    <2>3. \E m : ProofAnswer(p, m)
        <3>1. ~ Start(p) /\ ~ UserCommand(p)
            BY DEF Start, UserCommand
        <3>2. ~ GiveUp(p) /\ ~ Exit(p)
            BY <2>e DEF GiveUp, Exit
        <3>3. \A m : ~ LoginAnswer(p, m) /\ ~ CommandAnswer(p, m)
            BY DEF LoginAnswer, CommandAnswer
        <3> QED
            BY <2>1, <2>2, <3>1, <3>2, <3>3
    <2>p. PICK m : ProofAnswer(p, m)
        BY <2>3
    <2>4. m \in toCli[p] /\ m.type = "Q" /\ m.err = "ok" /\ m.key = client[p].key
        BY <2>p, <2>e DEF ProofAnswer
    <2>5. client[p].key = sess[p].key
        BY <2>4 DEF FInv, FirstLife, ResponsesFirst, Accepts
    <2> QED
        BY <2>5 DEF IInv, Phases
<1> QED
    BY <1>1, FirstLifeInductive, PTL DEF Spec, SecondProgramShutOut

=============================================================================
