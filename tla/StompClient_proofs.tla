-------------------------- MODULE StompClient_proofs --------------------------
(***************************************************************************)
(* The safety properties of the console client, for any input, any number  *)
(* of connections and messages, and any server that keeps StompSession.    *)
(*                                                                         *)
(* The steps are sorted by what they do to a connection: nothing, a write  *)
(* (Sends), a read (GetLine), its opening or its end, or a step of the     *)
(* server.  The lemmas after that show each part of ClientInv to survive   *)
(* the steps that touch what it is about.                                  *)
(***************************************************************************)
EXTENDS StompClientInvariant, TLAPS

(* The connections and the shared variables hold what they can hold.       *)
SocketsOK ==
  /\ SessionTypeOK
  /\ sent \in [Conn -> Seq(Frame)]
  /\ \A h \in Conn : taken[h] \in 0..Len(sent[h]) /\ got[h] \in 0..Len(answers[h])

MemoryOK ==
  /\ deleted \subseteq Conn
  /\ {shouldTerminate, isLoggedIn} \subseteq BOOLEAN
  /\ subscriptionMap \in [Topic -> SubId \cup {NONE}]
  /\ subscriptionId \in Nat \ {0}
  /\ eventsMap \in [Topic -> SUBSET Conn]
  /\ connectionhandler \in Conn \cup {NONE}

MainOK ==
  /\ mutex \in {"main", "comm", NONE}
  /\ mpc \in {"prompt", "input", "command", "connect", "request",
              "discard", "forget", "delete", "null", "clear", "rejoin",
              "summarise", "terminate", "finish", "exited", "crashed"}
  /\ inputs \in 0..Len(Input)
  /\ mpc = "command" => command \in Input[inputs]

CommOK ==
  /\ cpc \in {"loop", "lock", "unlock", "block", "waiting", "use", "call",
              "read", "connected", "push", "lost", "throw", "ended", "crashed"}
  /\ reader \in Conn \cup {NONE}
  /\ event \in Topic \cup {NONE}

(* The type invariant in four parts.                                       *)
LEMMA TypeParts ==
  TypeOK /\ SessionTypeOK <=> SocketsOK /\ MemoryOK /\ MainOK /\ CommOK
  BY DEF TypeOK, SocketsOK, MemoryOK, MainOK, CommOK

(* What is appended to a sequence is found after what was there.           *)
LEMMA Appended ==
  ASSUME NEW s \in Seq(Frame), NEW n \in Nat, NEW f \in Frame
  PROVE  LET t == s \o [i \in 1..n |-> f]
         IN  /\ t \in Seq(Frame)
             /\ Len(t) = Len(s) + n
             /\ \A i \in 1..Len(s) : t[i] = s[i]
             /\ \A i \in (Len(s) + 1)..Len(t) : t[i] = f
<1> DEFINE u == [i \in 1..n |-> f]
<1>1. u \in Seq(Frame) /\ Len(u) = n /\ \A i \in 1..n : u[i] = f
  OBVIOUS
<1> HIDE DEF u
<1>2. s \o u \in Seq(Frame) /\ Len(s \o u) = Len(s) + n
  BY <1>1
<1>3. \A i \in 1..Len(s) : (s \o u)[i] = s[i]
  BY <1>1
<1>4. \A i \in (Len(s) + 1)..(Len(s) + n) : (s \o u)[i] = f
  BY <1>1
<1> QED BY <1>2, <1>3, <1>4 DEF u

(* Frame f goes out on connection h, n times, unless the server has        *)
(* closed it.                                                              *)
Sends(h, f, n) ==
  /\ sent' \in [Conn -> Seq(Frame)]
  /\ \A d \in Conn : Len(sent[d]) <= Len(sent'[d])
  /\ \A d \in Conn : \A i \in 1..Len(sent[d]) : sent'[d][i] = sent[d][i]
  /\ \A d \in Conn \ {h} : sent'[d] = sent[d]
  /\ \A i \in DOMAIN sent'[h] : i \notin DOMAIN sent[h] => sent'[h][i] = f
  /\ link[h] = "closed" => sent'[h] = sent[h]
  /\ link[h] # "closed" => Len(sent'[h]) = Len(sent[h]) + n
  /\ UNCHANGED <<link, stage, request, answers, taken, got, deleted>>

(* sendLine in a loop is such a write.                                     *)
LEMMA SendLinesEffect ==
  ASSUME SocketsOK, NEW h \in Conn, NEW f \in Frame, NEW n \in Nat,
         SendLines(h, [i \in 1..n |-> f])
  PROVE  Sends(h, f, n)
<1>0. sent \in [Conn -> Seq(Frame)] /\ \A d \in Conn : sent[d] \in Seq(Frame)
  BY DEF SocketsOK
<1>1. CASE link[h] = "closed"
  <2>1. sent' = sent
    BY <1>0, <1>1 DEF SendLines
  <2> QED BY <1>0, <1>1, <2>1 DEF Sends, SendLines
<1>2. CASE link[h] # "closed"
  <2>1. sent' = [sent EXCEPT ![h] = sent[h] \o [i \in 1..n |-> f]]
    BY <1>2 DEF SendLines
  <2> DEFINE t == sent[h] \o [i \in 1..n |-> f]
  <2>2. /\ t \in Seq(Frame)
        /\ Len(t) = Len(sent[h]) + n
        /\ \A i \in 1..Len(sent[h]) : t[i] = sent[h][i]
        /\ \A i \in (Len(sent[h]) + 1)..Len(t) : t[i] = f
    BY <1>0, Appended
  <2> HIDE DEF t
  <2>3. sent' = [sent EXCEPT ![h] = t]
    BY <2>1 DEF t
  <2>4. sent'[h] = t /\ \A d \in Conn \ {h} : sent'[d] = sent[d]
    BY <1>0, <2>3
  <2>5. sent' \in [Conn -> Seq(Frame)]
    BY <1>0, <2>2, <2>3
  <2>6. ASSUME NEW d \in Conn PROVE Len(sent[d]) \in Nat /\ DOMAIN sent[d] = 1..Len(sent[d])
    <3>1. sent[d] \in Seq(Frame)
      BY <1>0
    <3> QED BY <3>1
  <2>7. DOMAIN t = 1..Len(t) /\ Len(t) \in Nat
    BY <2>2
  <2>8. \A d \in Conn : Len(sent[d]) <= Len(sent'[d])
    BY <2>2, <2>4, <2>6
  <2>9. \A d \in Conn : \A i \in 1..Len(sent[d]) : sent'[d][i] = sent[d][i]
    BY <2>2, <2>4
  <2>10. \A i \in DOMAIN sent'[h] : i \notin DOMAIN sent[h] => sent'[h][i] = f
    BY <2>2, <2>4, <2>6, <2>7
  <2> QED
    BY <1>2, <2>2, <2>4, <2>5, <2>8, <2>9, <2>10 DEF Sends, SendLines
<1> QED BY <1>1, <1>2

(* The frames of the client are frames.                                    *)
LEMMA ClientFrame ==
  /\ \A u \in User, p \in Pass :
       createConnectFrame(u, p) \in Frame /\ createConnectFrame(u, p).cmd = "CONNECT"
  /\ \A t \in Topic : createSendFrame(t) \in Frame /\ createSendFrame(t).cmd = "SEND"
  /\ \A t \in Topic, id \in SubId :
       /\ createSubscribeFrame(t, id) \in Frame
       /\ createSubscribeFrame(t, id).cmd = "SUBSCRIBE"
       /\ createSubscribeFrame(t, id).id = id
  /\ \A id \in SubId :
       /\ createUnsubscribeFrame(id) \in Frame
       /\ createUnsubscribeFrame(id).cmd = "UNSUBSCRIBE"
       /\ createUnsubscribeFrame(id).id = id
  /\ createDisconnectFrame \in Frame /\ createDisconnectFrame.cmd = "DISCONNECT"
  BY DEF Plain, Frame, Command, createConnectFrame, createSendFrame, createSubscribeFrame,
     createUnsubscribeFrame, createDisconnectFrame

(* So is one sendLine.                                                     *)
LEMMA SendLineEffect ==
  ASSUME SocketsOK, NEW h \in Conn, NEW f \in Frame, SendLines(h, <<f>>)
  PROVE  Sends(h, f, 1)
<1>1. <<f>> = [i \in 1..1 |-> f]
  OBVIOUS
<1>2. SendLines(h, [i \in 1..1 |-> f])
  BY <1>1
<1> QED BY <1>2, SendLinesEffect

(* The command at hand is one the user may type.                           *)
LEMMA CommandType ==
  ASSUME MainOK, MemoryOK, IdInv, mpc = "command"
  PROVE  /\ inputs \in DOMAIN Input /\ command \in Input[inputs]
         /\ command.name \in {"login", "join", "leave", "report", "summary", "logout", "exit"}
         /\ command.name \in {"login", "logout", "exit"} \/ command.channel \in Topic
         /\ subscriptionId \in SubId
<1> DEFINE InputLine == [name : {"login", "join", "leave", "report", "summary", "logout", "exit"},
                     channel : Topic \cup {NONE}]
<1>1. Input \in Seq(SUBSET InputLine) /\ 1..Len(Input) \subseteq SubId
  BY ClientAssumption
<1>2. Len(Input) \in Nat /\ DOMAIN Input = 1..Len(Input)
  BY <1>1
<1>3. inputs \in 1..Len(Input) /\ subscriptionId \in 1..Len(Input)
  BY <1>2 DEF MainOK, MemoryOK, IdInv
<1>4. Input[inputs] \subseteq InputLine
  BY <1>1, <1>2, <1>3
<1>5. command \in InputLine
  BY <1>4 DEF MainOK
<1>6. command.name \in {"login", "logout", "exit"} \/ command.channel \in Topic
  BY <1>2, <1>3, ClientAssumption DEF MainOK
<1> QED BY <1>1, <1>2, <1>3, <1>5, <1>6 DEF MainOK
-----------------------------------------------------------------------------
(* The initial state satisfies the inductive invariant.                    *)
LEMMA InitInv == Init => ClientInv
<1> SUFFICES ASSUME Init PROVE ClientInv
  OBVIOUS
<1>1. /\ link = [h \in Conn |-> "none"] /\ request = [h \in Conn |-> NONE]
      /\ answers = [h \in Conn |-> <<>>] /\ sent = [h \in Conn |-> <<>>]
      /\ taken = [h \in Conn |-> 0] /\ got = [h \in Conn |-> 0] /\ deleted = {}
  BY DEF Init, HandlerInit, Server!SessionInit
<1>2. \A h \in Conn : sent[h] = <<>> /\ answers[h] = <<>> /\ link[h] = "none" /\ request[h] = NONE
  BY <1>1
<1>3. SocketsOK
  BY <1>1 DEF SocketsOK, SessionTypeOK
<1>4. MemoryOK
  <2>1. /\ shouldTerminate = FALSE /\ isLoggedIn = FALSE /\ subscriptionId = 1
        /\ connectionhandler = NONE /\ deleted = {}
    BY <1>1 DEF Init
  <2>2. subscriptionMap \in [Topic -> SubId \cup {NONE}]
    BY DEF Init
  <2>3. eventsMap \in [Topic -> SUBSET Conn]
    BY DEF Init
  <2>4. {shouldTerminate, isLoggedIn} \subseteq BOOLEAN
    BY <2>1
  <2>5. deleted \subseteq Conn /\ subscriptionId \in Nat \ {0} /\ connectionhandler \in Conn \cup {NONE}
    BY <2>1
  <2> QED BY <2>2, <2>3, <2>4, <2>5 DEF MemoryOK
<1>5. MainOK
  <2>1. Len(Input) \in Nat
    BY ClientAssumption
  <2> QED BY <2>1 DEF Init, MainOK
<1>6. CommOK
  BY DEF Init, CommOK
<1>7. ASSUME NEW h \in Conn PROVE OneConnect(h)
  <2>1. sent[h] = <<>> /\ request[h] = NONE /\ DOMAIN sent[h] = {} /\ DOMAIN answers[h] = {}
    BY <1>2
  <2> QED BY <2>1 DEF OneConnect
<1>8. EndTogether /\ PointerInv /\ LoginInv /\ MapInv /\ EventInv /\ IdInv
  BY NoneAssumption
  DEF Init, EndTogether, PointerInv, Typed, LoginInv, InLogout, MapInv, crashed, EventInv, IdInv
<1>9. ExitMatchesJoin
  BY <1>2 DEF ExitMatchesJoin
<1> QED BY <1>3, <1>4, <1>5, <1>6, <1>7, <1>8, <1>9, TypeParts DEF ClientInv
-----------------------------------------------------------------------------
(* The steps of the client, without those that only give up.               *)
ClientStep ==
  \/ Prompt \/ Login \/ LoginConnect \/ LoginRequest
  \/ DeleteHandler \/ ForgetHandler \/ Join \/ Leave \/ Report
  \/ Summary \/ SummaryWrite \/ Logout \/ LogoutClear \/ Restart
  \/ Exit \/ ExitNotify \/ Goodbye \/ Type
  \/ CommLoop \/ CommBlock \/ CommWake \/ CommCheck \/ CommUse \/ CommCall
  \/ CommRead \/ CommReadDeleted \/ CommConnected \/ CommPush \/ CommLost \/ CommThrow
  \/ SpuriousWake

(* The steps that leave all connections as they are.                       *)
LEMMA QuietSteps ==
  ASSUME ClientStep
  PROVE  \/ UNCHANGED handlerVars
         \/ LoginConnect \/ LoginRequest \/ DeleteHandler
         \/ Join \/ Leave \/ Report \/ Logout \/ CommRead
  BY DEF ClientStep, Prompt, Continue, Login, Crash, ForgetHandler, Summary, SummaryWrite,
     LogoutClear, Restart, Exit, ExitNotify, Goodbye, Type, CommLoop, TestPredicate, CommBlock,
     CommWake, CommCheck, CommUse, CommCall, CommReadDeleted, CommConnected, CommPush, CommLost,
     CommThrow, SpuriousWake

(* What the client writes, and where it is when it does.                   *)
LEMMA WritingSteps ==
  ASSUME SocketsOK, MemoryOK, MainOK, IdInv, PointerInv,
         LoginRequest \/ Join \/ Leave \/ Report \/ Logout
  PROVE  \/ UNCHANGED handlerVars
         \/ \E f \in Frame, n \in Nat \ {0} :
              /\ connectionhandler \in Conn
              /\ Sends(connectionhandler, f, n)
              /\ UNCHANGED connectionhandler
              /\ \/ LoginRequest /\ f.cmd = "CONNECT" /\ n = 1
                 \/ Join /\ f.cmd = "SUBSCRIBE" /\ f.id = subscriptionId /\ isLoggedIn
                 \/ Leave /\ f.cmd = "UNSUBSCRIBE" /\ f.id = subscriptionMap[command.channel]
                          /\ isLoggedIn /\ f.id # NONE
                 \/ Report /\ f.cmd = "SEND" /\ isLoggedIn
                 \/ Logout /\ f.cmd = "DISCONNECT" /\ isLoggedIn
<1> USE DEF Send
<1>0. /\ mpc = "command" => /\ inputs \in DOMAIN Input /\ command \in Input[inputs]
                            /\ command.name \in {"login", "logout", "exit"} \/ command.channel \in Topic
                            /\ subscriptionId \in SubId
      /\ connectionhandler \in Conn \cup {NONE}
  BY CommandType DEF MemoryOK
<1>1. CASE UNCHANGED handlerVars
  BY <1>1
<1>2. CASE LoginRequest /\ ~UNCHANGED handlerVars
  <2>1. PICK u \in User, p \in Pass : SendLines(connectionhandler, <<createConnectFrame(u, p)>>)
    BY <1>2 DEF LoginRequest
  <2>2. connectionhandler \in Conn
    BY <1>2 DEF LoginRequest, PointerInv
  <2>3. Sends(connectionhandler, createConnectFrame(u, p), 1)
    BY <2>1, <2>2, ClientFrame, SendLineEffect
  <2>4. UNCHANGED connectionhandler
    BY <1>2 DEF LoginRequest, sharedVars
  <2> QED BY <1>2, <2>2, <2>3, <2>4, ClientFrame
<1>3. CASE Join /\ ~UNCHANGED handlerVars
  <2>1. /\ isLoggedIn /\ mpc = "command" /\ command.name = "join"
        /\ connectionhandler # NONE /\ UNCHANGED connectionhandler
        /\ SendLines(connectionhandler, <<createSubscribeFrame(command.channel, subscriptionId)>>)
    BY <1>3 DEF Join, Continue, Typed, sharedVars
  <2>2. command.channel \in Topic /\ subscriptionId \in SubId /\ connectionhandler \in Conn
    BY <1>0, <2>1
  <2>3. Sends(connectionhandler, createSubscribeFrame(command.channel, subscriptionId), 1)
    BY <2>1, <2>2, ClientFrame, SendLineEffect
  <2> QED BY <1>3, <2>1, <2>2, <2>3, ClientFrame
<1>4. CASE Leave /\ ~UNCHANGED handlerVars
  <2> DEFINE id == subscriptionMap[command.channel]
  <2>1. /\ isLoggedIn /\ mpc = "command" /\ command.name = "leave" /\ id # NONE
        /\ connectionhandler # NONE /\ UNCHANGED connectionhandler
        /\ SendLines(connectionhandler, <<createUnsubscribeFrame(id)>>)
    BY <1>4 DEF Leave, Continue, Typed, sharedVars
  <2>2. connectionhandler \in Conn /\ id \in SubId
    BY <1>0, <2>1 DEF MemoryOK
  <2>3. Sends(connectionhandler, createUnsubscribeFrame(id), 1)
    BY <2>1, <2>2, ClientFrame, SendLineEffect
  <2> QED BY <1>4, <2>1, <2>2, <2>3, ClientFrame
<1>5. CASE Report /\ ~UNCHANGED handlerVars
  <2>1. /\ isLoggedIn /\ mpc = "command" /\ command.name = "report"
        /\ connectionhandler # NONE /\ UNCHANGED connectionhandler
    BY <1>5 DEF Report, Continue, Typed, sharedVars
  <2>2. PICK n \in 1..MaxEvents :
          SendLines(connectionhandler, [i \in 1..n |-> createSendFrame(command.channel)])
    BY <1>5 DEF Report, Continue
  <2>3. connectionhandler \in Conn /\ command.channel \in Topic /\ n \in Nat \ {0}
    BY <1>0, <2>1, ClientAssumption
  <2>4. Sends(connectionhandler, createSendFrame(command.channel), n)
    BY <2>2, <2>3, ClientFrame, SendLinesEffect
  <2> QED BY <1>5, <2>1, <2>3, <2>4, ClientFrame
<1>6. CASE Logout /\ ~UNCHANGED handlerVars
  <2>1. /\ isLoggedIn /\ connectionhandler # NONE /\ UNCHANGED connectionhandler
        /\ SendLines(connectionhandler, <<createDisconnectFrame>>)
    BY <1>6 DEF Logout, Continue, sharedVars
  <2>2. connectionhandler \in Conn
    BY <1>0, <2>1
  <2>3. Sends(connectionhandler, createDisconnectFrame, 1)
    BY <2>1, <2>2, ClientFrame, SendLineEffect
  <2> QED BY <1>6, <2>1, <2>2, <2>3, ClientFrame
<1> QED BY <1>1, <1>2, <1>3, <1>4, <1>5, <1>6
-----------------------------------------------------------------------------
(* The steps of the server.                                                *)

ServerStep(h) == ServerTakes(h) \/ ServerWorks(h) \/ ServerSends(h) \/ HangUp(h)

(* What such a step may do to the connections: it writes an answer, or it  *)
(* takes a request, or it is done with one.                                *)
Answers(h, answer) == answers' = [answers EXCEPT ![h] = Append(answers[h], answer)]

TakesRequest(h) ==
  /\ taken[h] < Len(sent[h])
  /\ request' = [request EXCEPT ![h] = sent[h][taken[h] + 1]]
  /\ taken' = [taken EXCEPT ![h] = taken[h] + 1]
  /\ answers' = answers

KeepsRequest(h) ==
  /\ taken' = taken
  /\ request' = request \/ request' = [request EXCEPT ![h] = NONE]
  /\ \/ answers' = answers
     \/ \E a \in {"RECEIPT", "ERROR", "MESSAGE"} : Answers(h, a)

Connects(h) ==
  /\ taken' = taken
  /\ request[h] # NONE /\ request[h].cmd = "CONNECT"
  /\ request' = [request EXCEPT ![h] = NONE]
  /\ Answers(h, "CONNECTED")

LinkKept(h) ==
  \/ link' = link
  \/ /\ link[h] \in {"open", "broken"}
     /\ link' = [link EXCEPT ![h] = "broken"] \/ link' = [link EXCEPT ![h] = "closed"]

(* The steps of StompSession have no other shape.                          *)
LEMMA ServerShape ==
  ASSUME NEW h \in Conn, ServerStep(h)
  PROVE  /\ UNCHANGED <<sent, got, deleted>>
         /\ LinkKept(h)
         /\ TakesRequest(h) \/ KeepsRequest(h) \/ Connects(h)
<1>1. CASE ServerTakes(h)
  BY <1>1 DEF ServerTakes, Server!Take, TakesRequest, LinkKept
<1>2. CASE ServerSends(h)
  BY <1>2 DEF ServerSends, Server!Message, Server!Write, KeepsRequest, Answers, LinkKept
<1>3. CASE Server!Close(h) /\ UNCHANGED <<sent, taken, got, deleted>>
  BY <1>3 DEF Server!Close, KeepsRequest, LinkKept
<1>4. CASE Server!Serve(h) /\ UNCHANGED <<sent, taken, got, deleted>>
  <2>1. CASE Server!Accept(h)
    BY <1>4, <2>1 DEF Server!Serve, Server!Accept, Server!Write, Server!Finish, KeepsRequest,
       Connects, Answers, LinkKept
  <2>2. CASE Server!AcceptSilently(h)
    BY <1>4, <2>2 DEF Server!AcceptSilently, Server!Finish, KeepsRequest, LinkKept
  <2>3. CASE Server!Refuse(h)
    BY <1>4, <2>3 DEF Server!Refuse, Server!Write, Server!Finish, KeepsRequest, Answers, LinkKept
  <2>4. CASE Server!AnswerLost(h)
    BY <1>4, <2>4 DEF Server!AnswerLost, Server!Finish, KeepsRequest, LinkKept
  <2>5. CASE Server!End(h)
    BY <1>4, <2>5 DEF Server!End, Server!Finish, KeepsRequest, LinkKept
  <2> QED BY <1>4, <2>1, <2>2, <2>3, <2>4, <2>5 DEF Server!Serve
<1> QED BY <1>1, <1>2, <1>3, <1>4 DEF ServerStep, ServerWorks, HangUp

(* Appending to a sequence over S.                                         *)
LEMMA AppendedOne ==
  ASSUME NEW S, NEW s \in Seq(S), NEW e \in S
  PROVE  /\ Append(s, e) \in Seq(S)
         /\ Len(Append(s, e)) = Len(s) + 1
         /\ DOMAIN Append(s, e) = DOMAIN s \cup {Len(s) + 1}
         /\ \A i \in 1..Len(s) : Append(s, e)[i] = s[i]
         /\ Append(s, e)[Len(s) + 1] = e
  OBVIOUS

(* For the client it comes down to this: the answers grow.                 *)
AnswersGrow ==
  /\ UNCHANGED <<sent, got, deleted>>
  /\ \A d \in Conn : link'[d] = "none" <=> link[d] = "none"
  /\ \A d \in Conn : link[d] = "closed" => link'[d] = "closed"
  /\ \A d \in Conn : \A i \in 1..Len(answers[d]) : answers'[d][i] = answers[d][i]

ReplyCommand == {"CONNECTED", "RECEIPT", "ERROR", "MESSAGE"}

(* What an answer does to the answers of all connections.                  *)
LEMMA AnswerEffect ==
  ASSUME SocketsOK, NEW h \in Conn, NEW a \in ReplyCommand, Answers(h, a)
  PROVE  /\ answers' \in [Conn -> Seq(ReplyCommand)]
         /\ Len(answers'[h]) = Len(answers[h]) + 1
         /\ answers'[h][Len(answers[h]) + 1] = a
         /\ \A d \in Conn \ {h} : answers'[d] = answers[d]
         /\ \A d \in Conn : /\ Len(answers[d]) \in Nat
                            /\ DOMAIN answers[d] = 1..Len(answers[d])
                            /\ Len(answers[d]) <= Len(answers'[d])
         /\ \A d \in Conn : \A i \in 1..Len(answers[d]) : answers'[d][i] = answers[d][i]
<1>1. answers \in [Conn -> Seq(ReplyCommand)]
  BY DEF SocketsOK, SessionTypeOK, ReplyCommand
<1> DEFINE t == Append(answers[h], a)
<1>2. /\ t \in Seq(ReplyCommand)
      /\ Len(t) = Len(answers[h]) + 1
      /\ \A i \in 1..Len(answers[h]) : t[i] = answers[h][i]
      /\ t[Len(answers[h]) + 1] = a
  BY <1>1, AppendedOne
<1> HIDE DEF t
<1>3. answers' = [answers EXCEPT ![h] = t]
  BY DEF Answers, t
<1>4. answers'[h] = t /\ \A d \in Conn \ {h} : answers'[d] = answers[d]
  BY <1>1, <1>3
<1>5. answers' \in [Conn -> Seq(ReplyCommand)]
  BY <1>1, <1>2, <1>3
<1>6. ASSUME NEW d \in Conn PROVE Len(answers[d]) \in Nat /\ DOMAIN answers[d] = 1..Len(answers[d])
  <2>1. answers[d] \in Seq(ReplyCommand)
    BY <1>1
  <2> QED BY <2>1
<1>7. ASSUME NEW d \in Conn
      PROVE  /\ Len(answers[d]) <= Len(answers'[d])
             /\ \A i \in 1..Len(answers[d]) : answers'[d][i] = answers[d][i]
  <2>1. CASE d = h
    BY <1>2, <1>4, <1>6, <2>1
  <2>2. CASE d # h
    BY <1>4, <1>6, <2>2
  <2> QED BY <2>1, <2>2
<1>8. Len(answers'[h]) = Len(answers[h]) + 1 /\ answers'[h][Len(answers[h]) + 1] = a
  BY <1>2, <1>4
<1> QED BY <1>4, <1>5, <1>6, <1>7, <1>8

(* Every step of the server makes the answers grow and keeps the types.    *)
LEMMA ServerEffect ==
  ASSUME SocketsOK, NEW h \in Conn, ServerStep(h)
  PROVE  AnswersGrow /\ SocketsOK'
<1>0. /\ UNCHANGED <<sent, got, deleted>>
      /\ LinkKept(h)
      /\ TakesRequest(h) \/ KeepsRequest(h) \/ Connects(h)
  BY ServerShape
<1>1. /\ sent \in [Conn -> Seq(Frame)] /\ taken \in [Conn -> Nat] /\ got \in [Conn -> Nat]
      /\ link \in [Conn -> {"none", "open", "broken", "closed"}]
      /\ request \in [Conn -> Frame \cup {NONE}]
      /\ answers \in [Conn -> Seq(ReplyCommand)]
  BY DEF SocketsOK, SessionTypeOK, ReplyCommand
<1>2. ASSUME NEW d \in Conn
      PROVE  /\ Len(sent[d]) \in Nat /\ Len(answers[d]) \in Nat /\ answers[d] \in Seq(ReplyCommand)
             /\ taken[d] \in 0..Len(sent[d]) /\ got[d] \in 0..Len(answers[d])
  <2>1. sent[d] \in Seq(Frame) /\ answers[d] \in Seq(ReplyCommand)
    BY <1>1
  <2> QED BY <2>1 DEF SocketsOK
<1>3. /\ link' \in [Conn -> {"none", "open", "broken", "closed"}]
      /\ \A d \in Conn : link'[d] = "none" <=> link[d] = "none"
      /\ \A d \in Conn : link[d] = "closed" => link'[d] = "closed"
  BY <1>0, <1>1 DEF LinkKept
<1>4. /\ answers' \in [Conn -> Seq(ReplyCommand)]
      /\ \A d \in Conn : Len(answers[d]) <= Len(answers'[d])
      /\ \A d \in Conn : Len(answers'[d]) \in Nat
      /\ \A d \in Conn : \A i \in 1..Len(answers[d]) : answers'[d][i] = answers[d][i]
  <2>1. CASE answers' = answers
    BY <1>1, <1>2, <2>1
  <2>2. CASE \E a \in ReplyCommand : Answers(h, a)
    <3>1. /\ answers' \in [Conn -> Seq(ReplyCommand)]
          /\ \A d \in Conn : Len(answers[d]) <= Len(answers'[d])
          /\ \A d \in Conn : \A i \in 1..Len(answers[d]) : answers'[d][i] = answers[d][i]
      BY <2>2, AnswerEffect
    <3>2. ASSUME NEW d \in Conn PROVE Len(answers'[d]) \in Nat
      <4>1. answers'[d] \in Seq(ReplyCommand)
        BY <3>1
      <4> QED BY <4>1
    <3> QED BY <3>1, <3>2
  <2> QED BY <1>0, <2>1, <2>2 DEF TakesRequest, KeepsRequest, Connects, ReplyCommand
<1>5. taken' \in [Conn -> Nat] /\ \A d \in Conn : taken'[d] \in 0..Len(sent[d])
  <2>1. CASE taken' = taken
    BY <1>1, <1>2, <2>1
  <2>2. CASE TakesRequest(h)
    <3>1. taken' = [taken EXCEPT ![h] = taken[h] + 1] /\ taken[h] + 1 <= Len(sent[h])
      BY <1>2, <2>2 DEF TakesRequest
    <3> QED BY <1>1, <1>2, <3>1
  <2> QED BY <1>0, <2>1, <2>2 DEF KeepsRequest, Connects
<1>6. request' \in [Conn -> Frame \cup {NONE}]
  <2>1. CASE request' = request \/ request' = [request EXCEPT ![h] = NONE]
    BY <1>1, <2>1
  <2>2. CASE TakesRequest(h)
    <3>1. sent[h] \in Seq(Frame) /\ taken[h] + 1 \in 1..Len(sent[h])
      BY <1>1, <1>2, <2>2 DEF TakesRequest
    <3>2. sent[h][taken[h] + 1] \in Frame
      BY <3>1
    <3> QED BY <1>1, <2>2, <3>2 DEF TakesRequest
  <2> QED BY <1>0, <2>1, <2>2 DEF KeepsRequest, Connects
<1>7. \A d \in Conn : got[d] \in 0..Len(answers'[d])
  BY <1>2, <1>4
<1>8. SocketsOK'
  BY <1>0, <1>1, <1>3, <1>4, <1>5, <1>6, <1>7 DEF SocketsOK, SessionTypeOK, ReplyCommand
<1> QED BY <1>0, <1>3, <1>4, <1>8 DEF AnswersGrow

(* A CONNECT that is answered is the only one, so that it is not answered  *)
(* again.                                                                  *)
LEMMA ServerOneConnect ==
  ASSUME SocketsOK, NEW h \in Conn, ServerStep(h), NEW d \in Conn, OneConnect(d)
  PROVE  OneConnect(d)'
<1>0. /\ UNCHANGED <<sent, got, deleted>>
      /\ TakesRequest(h) \/ KeepsRequest(h) \/ Connects(h)
      /\ link'[d] = "none" <=> link[d] = "none"
  BY ServerShape, ServerEffect DEF AnswersGrow
<1>1. /\ taken \in [Conn -> Nat] /\ request \in [Conn -> Frame \cup {NONE}]
      /\ answers \in [Conn -> Seq(ReplyCommand)]
  BY DEF SocketsOK, SessionTypeOK, ReplyCommand
<1>2. /\ Len(sent[d]) \in Nat /\ DOMAIN sent[d] = 1..Len(sent[d])
      /\ Len(answers[d]) \in Nat /\ DOMAIN answers[d] = 1..Len(answers[d])
      /\ taken[d] \in 0..Len(sent[d])
  <2>1. sent[d] \in Seq(Frame) /\ answers[d] \in Seq(ReplyCommand)
    BY <1>1 DEF SocketsOK
  <2> QED BY <2>1 DEF SocketsOK
<1>3. CASE TakesRequest(h)
  <2>1. answers'[d] = answers[d] /\ sent'[d] = sent[d]
    BY <1>0, <1>3 DEF TakesRequest
  <2>2. CASE d = h
    <3>1. taken'[d] = taken[d] + 1 /\ request'[d] = sent[d][taken[d] + 1]
      BY <1>1, <1>3, <2>2 DEF TakesRequest
    <3>2. taken'[d] # 0 /\ taken'[d] \in Nat /\ \A j \in 1..taken[d] : j \in 1..taken'[d] /\ j # taken'[d]
      BY <1>2, <3>1
    <3>3. \A i \in DOMAIN answers[d] : answers[d][i] = "CONNECTED" =>
            \E j \in 1..taken'[d] : sent[d][j].cmd = "CONNECT" /\ j # taken'[d]
      BY <3>2 DEF OneConnect
    <3>4. request'[d] = sent[d][taken'[d]]
      BY <3>1
    <3> QED BY <1>0, <2>1, <3>2, <3>3, <3>4 DEF OneConnect
  <2>3. CASE d # h
    <3>1. taken'[d] = taken[d] /\ request'[d] = request[d]
      BY <1>1, <1>3, <2>3 DEF TakesRequest
    <3> QED BY <1>0, <2>1, <3>1 DEF OneConnect
  <2> QED BY <2>2, <2>3
<1>4. CASE KeepsRequest(h)
  <2>1. sent'[d] = sent[d] /\ taken'[d] = taken[d] /\ request'[d] \in {request[d], NONE}
    BY <1>0, <1>1, <1>4 DEF KeepsRequest
  <2>2. \A i \in DOMAIN answers'[d] : answers'[d][i] = "CONNECTED" =>
          i \in DOMAIN answers[d] /\ answers[d][i] = "CONNECTED"
    <3>1. CASE answers' = answers
      BY <3>1
    <3>2. CASE \E a \in {"RECEIPT", "ERROR", "MESSAGE"} : Answers(h, a)
      <4>1. PICK a \in {"RECEIPT", "ERROR", "MESSAGE"} : Answers(h, a)
        BY <3>2
      <4>2. /\ answers' \in [Conn -> Seq(ReplyCommand)]
            /\ Len(answers'[h]) = Len(answers[h]) + 1
            /\ answers'[h][Len(answers[h]) + 1] = a
            /\ \A e \in Conn \ {h} : answers'[e] = answers[e]
            /\ \A i \in 1..Len(answers[d]) : answers'[d][i] = answers[d][i]
        BY <4>1, AnswerEffect DEF ReplyCommand
      <4>3. answers'[d] \in Seq(ReplyCommand)
        BY <4>2
      <4>4. DOMAIN answers'[d] = 1..Len(answers'[d])
        BY <4>3
      <4> QED BY <1>2, <4>2, <4>4
    <3> QED BY <1>4, <3>1, <3>2 DEF KeepsRequest
  <2> QED BY <1>0, <2>1, <2>2 DEF OneConnect
<1>5. CASE Connects(h)
  <2>1. /\ answers' \in [Conn -> Seq(ReplyCommand)]
        /\ Len(answers'[h]) = Len(answers[h]) + 1
        /\ \A e \in Conn \ {h} : answers'[e] = answers[e]
        /\ \A i \in 1..Len(answers[d]) : answers'[d][i] = answers[d][i]
    BY <1>5, AnswerEffect DEF Connects, ReplyCommand
  <2>2. taken'[d] = taken[d] /\ sent'[d] = sent[d]
    BY <1>0, <1>5 DEF Connects
  <2>3. CASE d # h
    <3>1. answers'[d] = answers[d] /\ request'[d] = request[d]
      BY <1>1, <1>5, <2>1, <2>3 DEF Connects
    <3> QED BY <1>0, <2>2, <3>1 DEF OneConnect
  <2>4. CASE d = h
    <3>1. request[d] # NONE /\ request[d].cmd = "CONNECT" /\ request'[d] = NONE
      BY <1>1, <1>5, <2>4 DEF Connects
    <3>2. taken[d] # 0 /\ sent[d][taken[d]].cmd = "CONNECT" /\ taken[d] \in 1..taken[d]
      BY <1>2, <3>1 DEF OneConnect
    <3>3. \A i \in DOMAIN answers[d] : answers[d][i] # "CONNECTED"
      BY <1>2, <3>1, <3>2 DEF OneConnect
    <3>4. answers'[d] \in Seq(ReplyCommand)
      BY <2>1
    <3>5. DOMAIN answers'[d] = DOMAIN answers[d] \cup {Len(answers[d]) + 1}
      BY <1>2, <2>1, <2>4, <3>4
    <3>6. \A i \in DOMAIN answers'[d] : answers'[d][i] = "CONNECTED" => i = Len(answers[d]) + 1
      BY <1>2, <2>1, <3>3, <3>5
    <3> QED BY <1>0, <2>2, <3>1, <3>2, <3>6 DEF OneConnect
  <2> QED BY <2>3, <2>4
<1> QED BY <1>0, <1>3, <1>4, <1>5
-----------------------------------------------------------------------------
(* The steps of the client, on the connections.                            *)

(* A write keeps the types.                                                *)
LEMMA SendsSockets ==
  ASSUME SocketsOK, NEW h \in Conn, NEW f \in Frame, NEW n \in Nat, Sends(h, f, n)
  PROVE  SocketsOK'
<1>1. \A d \in Conn : Len(sent[d]) \in Nat /\ Len(sent'[d]) \in Nat
  <2>1. ASSUME NEW d \in Conn PROVE Len(sent[d]) \in Nat /\ Len(sent'[d]) \in Nat
    <3>1. sent[d] \in Seq(Frame) /\ sent'[d] \in Seq(Frame)
      BY DEF SocketsOK, Sends
    <3> QED BY <3>1
  <2> QED BY <2>1
<1>2. \A d \in Conn : taken'[d] \in 0..Len(sent'[d]) /\ got'[d] \in 0..Len(answers'[d])
  BY <1>1 DEF SocketsOK, Sends
<1> QED BY <1>2 DEF Sends, SocketsOK, SessionTypeOK

(* A write keeps the only CONNECT, if its own CONNECT is the first frame.  *)
LEMMA SendsOneConnect ==
  ASSUME SocketsOK, NEW h \in Conn, NEW f \in Frame, NEW n \in Nat, Sends(h, f, n),
         link[h] # "none", f.cmd = "CONNECT" => n = 1 /\ sent[h] = <<>>,
         NEW d \in Conn, OneConnect(d)
  PROVE  OneConnect(d)'
<1>1. /\ Len(sent[d]) \in Nat /\ DOMAIN sent[d] = 1..Len(sent[d])
      /\ DOMAIN sent'[d] = 1..Len(sent'[d])
      /\ taken[d] \in 0..Len(sent[d])
  <2>1. sent[d] \in Seq(Frame) /\ sent'[d] \in Seq(Frame)
    BY DEF SocketsOK, Sends
  <2> QED BY <2>1 DEF SocketsOK
<1>2. UNCHANGED <<link, request, answers, taken>>
  BY DEF Sends
<1>3. \A i \in 1..Len(sent[d]) : sent'[d][i] = sent[d][i]
  BY DEF Sends
<1>4. link'[d] = "none" => sent'[d] = <<>>
  BY <1>2 DEF Sends, OneConnect
<1>5. \A i, j \in DOMAIN sent'[d] :
        sent'[d][i].cmd = "CONNECT" /\ sent'[d][j].cmd = "CONNECT" => i = j
  <2>1. CASE sent'[d] = sent[d]
    BY <2>1 DEF OneConnect
  <2>2. CASE sent'[d] # sent[d]
    <3>1. d = h /\ Len(sent'[d]) = Len(sent[d]) + n
          /\ \A i \in DOMAIN sent'[d] : i \notin DOMAIN sent[d] => sent'[d][i] = f
      BY <2>2 DEF Sends
    <3>2. CASE f.cmd = "CONNECT"
      <4>1. Len(sent[d]) = 0 /\ n = 1
        BY <3>1, <3>2
      <4> QED BY <1>1, <3>1, <4>1
    <3>3. CASE f.cmd # "CONNECT"
      <4>1. \A i \in DOMAIN sent'[d] : sent'[d][i].cmd = "CONNECT" =>
              i \in DOMAIN sent[d] /\ sent[d][i].cmd = "CONNECT"
        BY <1>1, <1>3, <3>1, <3>3
      <4> QED BY <4>1 DEF OneConnect
    <3> QED BY <3>2, <3>3
  <2> QED BY <2>1, <2>2
<1>6. \A j \in 1..taken[d] : sent'[d][j] = sent[d][j]
  BY <1>1, <1>3
<1>7. request'[d] # NONE => taken'[d] # 0 /\ request'[d] = sent'[d][taken'[d]]
  <2>1. request[d] # NONE => taken[d] \in 1..taken[d]
    BY <1>1 DEF OneConnect
  <2> QED BY <1>2, <1>6, <2>1 DEF OneConnect
<1>8. \A i \in DOMAIN answers'[d] : answers'[d][i] = "CONNECTED" =>
        \E j \in 1..taken'[d] :
          /\ sent'[d][j].cmd = "CONNECT"
          /\ j = taken'[d] => request'[d] = NONE
  BY <1>2, <1>6 DEF OneConnect
<1>9. \A i, j \in DOMAIN answers'[d] :
        answers'[d][i] = "CONNECTED" /\ answers'[d][j] = "CONNECTED" => i = j
  BY <1>2 DEF OneConnect
<1> QED BY <1>4, <1>5, <1>7, <1>8, <1>9 DEF OneConnect

(* Where the client is when it writes: its connection has been opened, and *)
(* CONNECT is the first frame.                                             *)
LEMMA ClientSockets ==
  ASSUME SocketsOK, MemoryOK, MainOK, IdInv, PointerInv, LoginInv, ClientStep
  PROVE  SocketsOK' /\ \A d \in Conn : OneConnect(d) => OneConnect(d)'
<1>1. CASE UNCHANGED handlerVars
  BY <1>1 DEF handlerVars, SocketsOK, SessionTypeOK, OneConnect
<1>2. CASE LoginConnect /\ ~UNCHANGED handlerVars
  <2>1. connectionhandler \in Conn /\ Server!Open(connectionhandler)
        /\ UNCHANGED <<sent, taken, got, deleted>>
    BY <1>2 DEF LoginConnect, Connect, PointerInv
  <2>2. link' \in [Conn -> {"none", "open", "broken", "closed"}]
        /\ UNCHANGED <<request, answers>>
        /\ \A d \in Conn : link'[d] = "none" => link[d] = "none"
    BY <2>1 DEF Server!Open, SocketsOK, SessionTypeOK
  <2> QED BY <2>1, <2>2 DEF SocketsOK, SessionTypeOK, OneConnect
<1>3. CASE (LoginRequest \/ Join \/ Leave \/ Report \/ Logout) /\ ~UNCHANGED handlerVars
  <2>1. PICK f \in Frame, n \in Nat \ {0} :
              /\ connectionhandler \in Conn
              /\ Sends(connectionhandler, f, n)
              /\ \/ LoginRequest /\ f.cmd = "CONNECT" /\ n = 1
                 \/ (Join \/ Leave \/ Report \/ Logout) /\ f.cmd # "CONNECT"
    BY <1>3, WritingSteps
  <2>2. mpc \notin {"connect", "discard", "forget", "crashed"}
    BY <2>1 DEF LoginRequest, Join, Leave, Report, Logout, Typed
  <2>3. link[connectionhandler] # "none"
    BY <2>1, <2>2, NoneAssumption DEF PointerInv
  <2>4. f.cmd = "CONNECT" => n = 1 /\ sent[connectionhandler] = <<>>
    BY <2>1 DEF LoginRequest, PointerInv
  <2>5. SocketsOK'
    BY <2>1, SendsSockets
  <2>6. ASSUME NEW d \in Conn, OneConnect(d) PROVE OneConnect(d)'
    BY <2>1, <2>3, <2>4, <2>6, SendsOneConnect
  <2> QED BY <2>5, <2>6
<1>4. CASE DeleteHandler
  <2>1. UNCHANGED <<link, request, answers, sent, taken, got>>
    BY <1>4 DEF DeleteHandler, Delete
  <2> QED BY <2>1 DEF SocketsOK, SessionTypeOK, OneConnect
<1>5. CASE CommRead /\ ~UNCHANGED handlerVars
  <2>1. GetLine(reader) /\ reader \in Conn
    BY <1>5 DEF CommRead, LoginInv
  <2>2. /\ UNCHANGED <<link, request, answers, sent, taken>>
        /\ got[reader] < Len(answers[reader])
        /\ got' = [got EXCEPT ![reader] = got[reader] + 1]
    BY <2>1 DEF GetLine, HasLine
  <2>3. ASSUME NEW d \in Conn PROVE Len(answers[d]) \in Nat /\ got[d] \in 0..Len(answers[d])
    <3>1. answers[d] \in Seq(ReplyCommand)
      BY DEF SocketsOK, SessionTypeOK, ReplyCommand
    <3> QED BY <3>1 DEF SocketsOK
  <2>4. got \in [Conn -> Nat]
    BY DEF SocketsOK, SessionTypeOK
  <2>5. got' \in [Conn -> Nat]
    <3>1. got[reader] + 1 \in Nat
      BY <2>1, <2>4
    <3> QED BY <2>1, <2>2, <2>4, <3>1
  <2>6. ASSUME NEW d \in Conn PROVE got'[d] \in 0..Len(answers[d])
    <3>1. got'[d] = IF d = reader THEN got[d] + 1 ELSE got[d]
      BY <2>1, <2>2, <2>4
    <3> QED BY <2>2, <2>3, <2>4, <3>1
  <2> QED BY <2>2, <2>5, <2>6 DEF SocketsOK, SessionTypeOK, OneConnect
<1> QED BY <1>1, <1>2, <1>3, <1>4, <1>5, QuietSteps
-----------------------------------------------------------------------------
(* The sessions the client knows of.                                       *)

Keeps ==
  /\ sent' = sent /\ got' = got
  /\ \A d \in Conn : \A i \in 1..Len(answers[d]) : answers'[d][i] = answers[d][i]

SameSessions ==
  /\ \A d \in Conn : Answered(d)' <=> Answered(d)
  /\ \A d \in Conn : LoggedOut(d)' <=> LoggedOut(d)
  /\ InSession' = InSession

(* LoggedOut without the set of commands.                                  *)
LEMMA LoggedOutMeans ==
  \A d \in Conn : LoggedOut(d) <=> \E i \in DOMAIN sent[d] : sent[d][i].cmd = "DISCONNECT"
  BY DEF LoggedOut, CommandsSent

(* Where nothing is written or read, no session begins or ends.            *)
LEMMA KeepsSessions ==
  ASSUME SocketsOK, Keeps
  PROVE  SameSessions
<1>1. ASSUME NEW d \in Conn PROVE Answered(d)' <=> Answered(d)
  <2>1. Len(answers[d]) \in Nat
    <3>1. answers[d] \in Seq(ReplyCommand)
      BY DEF SocketsOK, SessionTypeOK, ReplyCommand
    <3> QED BY <3>1
  <2>2. \A i \in 1..got[d] : i \in 1..Len(answers[d])
    BY <2>1 DEF SocketsOK
  <2>3. \A i \in 1..got[d] : answers'[d][i] = answers[d][i]
    BY <2>2 DEF Keeps
  <2> QED BY <2>3 DEF Answered, Keeps
<1>2. ASSUME NEW d \in Conn PROVE LoggedOut(d)' <=> LoggedOut(d)
  BY DEF LoggedOut, CommandsSent, Keeps
<1> QED BY <1>1, <1>2 DEF SameSessions, InSession

(* A write ends a session only if it is a DISCONNECT, and only that of its *)
(* connection.                                                             *)
LEMMA SendsSessions ==
  ASSUME SocketsOK, NEW h \in Conn, NEW f \in Frame, NEW n \in Nat, Sends(h, f, n)
  PROVE  /\ \A d \in Conn : Answered(d)' <=> Answered(d)
         /\ \A d \in Conn \ {h} : LoggedOut(d)' <=> LoggedOut(d)
         /\ f.cmd # "DISCONNECT" => SameSessions
         /\ InSession \ {h} \subseteq InSession'
<1>1. \A d \in Conn : Answered(d)' <=> Answered(d)
  BY DEF Answered, Sends
<1>2. \A d \in Conn \ {h} : LoggedOut(d)' <=> LoggedOut(d)
  BY DEF LoggedOut, CommandsSent, Sends
<1>3. ASSUME f.cmd # "DISCONNECT", NEW d \in Conn PROVE LoggedOut(d)' <=> LoggedOut(d)
  <2>1. /\ Len(sent[d]) \in Nat /\ Len(sent[d]) <= Len(sent'[d])
        /\ Len(sent'[d]) \in Nat
        /\ DOMAIN sent[d] = 1..Len(sent[d]) /\ DOMAIN sent'[d] = 1..Len(sent'[d])
        /\ \A i \in 1..Len(sent[d]) : sent'[d][i] = sent[d][i]
    <3>1. sent[d] \in Seq(Frame) /\ sent'[d] \in Seq(Frame)
      BY DEF SocketsOK, Sends
    <3> QED BY <3>1 DEF Sends
  <2>2. CASE d # h
    BY <1>2, <2>2
  <2>3. CASE d = h
    <3>1. \A i \in DOMAIN sent'[d] : i \notin DOMAIN sent[d] => sent'[d][i] = f
      BY <2>3 DEF Sends
    <3>2. LoggedOut(d)' <=> \E i \in DOMAIN sent'[d] : sent'[d][i].cmd = "DISCONNECT"
      BY DEF LoggedOut, CommandsSent
    <3>3. LoggedOut(d) <=> \E i \in DOMAIN sent[d] : sent[d][i].cmd = "DISCONNECT"
      BY LoggedOutMeans
    <3>4. \A i \in DOMAIN sent[d] : i \in DOMAIN sent'[d] /\ sent'[d][i] = sent[d][i]
      BY <2>1
    <3>5. \A i \in DOMAIN sent'[d] : sent'[d][i].cmd = "DISCONNECT" => i \in DOMAIN sent[d]
      BY <1>3, <3>1
    <3> QED BY <3>2, <3>3, <3>4, <3>5
  <2> QED BY <2>2, <2>3
<1>4. f.cmd # "DISCONNECT" => SameSessions
  BY <1>1, <1>3 DEF SameSessions, InSession
<1>5. InSession \ {h} \subseteq InSession'
  BY <1>1, <1>2 DEF InSession
<1> QED BY <1>1, <1>2, <1>4, <1>5

(* A read begins a session only if it reads the CONNECTED, which was not   *)
(* read before.                                                            *)
LEMMA ReadSessions ==
  ASSUME SocketsOK, NEW h \in Conn, OneConnect(h), GetLine(h)
  PROVE  /\ \A d \in Conn : LoggedOut(d)' <=> LoggedOut(d)
         /\ \A d \in Conn : Answered(d) => Answered(d)'
         /\ InSession \subseteq InSession'
         /\ Line(h) = "CONNECTED" => Answered(h)' /\ ~Answered(h)
<1>1. /\ UNCHANGED <<answers, sent>>
      /\ got[h] < Len(answers[h])
      /\ got' = [got EXCEPT ![h] = got[h] + 1]
  BY DEF GetLine, HasLine
<1>2. got \in [Conn -> Nat]
  BY DEF SocketsOK, SessionTypeOK
<1>3. \A d \in Conn : LoggedOut(d)' <=> LoggedOut(d)
  BY <1>1 DEF LoggedOut, CommandsSent
<1>4. ASSUME NEW d \in Conn, Answered(d) PROVE Answered(d)'
  <2>1. PICK i \in 1..got[d] : answers[d][i] = "CONNECTED"
    BY <1>4 DEF Answered
  <2>2. got[d] \in Nat /\ got'[d] \in {got[d], got[d] + 1}
    BY <1>1, <1>2
  <2>3. i \in 1..got'[d]
    BY <2>2
  <2> QED BY <1>1, <2>1, <2>3 DEF Answered
<1>5. ASSUME Line(h) = "CONNECTED" PROVE Answered(h)' /\ ~Answered(h)
  <2>1. /\ got[h] \in Nat /\ got'[h] = got[h] + 1
        /\ DOMAIN answers[h] = 1..Len(answers[h]) /\ Len(answers[h]) \in Nat
    <3>1. answers[h] \in Seq(ReplyCommand)
      BY DEF SocketsOK, SessionTypeOK, ReplyCommand
    <3> QED BY <1>1, <1>2, <3>1
  <2>2. answers[h][got[h] + 1] = "CONNECTED" /\ got[h] + 1 \in DOMAIN answers[h]
    BY <1>1, <1>5, <2>1 DEF Line
  <2>3. Answered(h)'
    BY <1>1, <2>1, <2>2 DEF Answered
  <2>4. ASSUME NEW i \in 1..got[h], answers[h][i] = "CONNECTED" PROVE FALSE
    <3>1. i \in DOMAIN answers[h] /\ i # got[h] + 1
      BY <1>1, <2>1
    <3> QED BY <2>2, <2>4, <3>1 DEF OneConnect
  <2> QED BY <2>3, <2>4 DEF Answered
<1> QED BY <1>3, <1>4, <1>5 DEF InSession
-----------------------------------------------------------------------------
(* The steps of each thread, without those that end in a crash or give up. *)

GivesUp == mpc \in {"command", "input"} /\ Continue

MainActs ==
  /\ \/ Prompt \/ Login \/ LoginConnect \/ LoginRequest
     \/ DeleteHandler \/ ForgetHandler \/ Join \/ Leave \/ Report
     \/ Summary \/ SummaryWrite \/ Logout \/ LogoutClear \/ Restart
     \/ Exit \/ ExitNotify \/ Goodbye \/ Type
  /\ ~Crash /\ ~GivesUp

CommActs ==
  /\ \/ CommLoop \/ CommBlock \/ CommWake \/ CommCheck \/ CommUse \/ CommCall
     \/ CommRead \/ CommReadDeleted \/ CommConnected \/ CommPush \/ CommLost \/ CommThrow
     \/ SpuriousWake
  /\ ~Crash

(* Both are steps of the client.                                           *)
LEMMA ActsAreSteps == MainActs \/ CommActs => ClientStep
  BY DEF MainActs, CommActs, ClientStep

(* The communication thread leaves alone what is the main thread's.        *)
LEMMA CommFrame ==
  ASSUME CommActs
  PROVE  /\ UNCHANGED <<link, request, answers, sent, taken, deleted>>
         /\ UNCHANGED <<mainVars, connectionhandler, mapVars>>
         /\ (CommRead /\ GetLine(reader)) \/ UNCHANGED got
         /\ CommPush \/ UNCHANGED eventsMap
         /\ CommThrow \/ UNCHANGED shouldTerminate
         /\ CommConnected \/ CommLost \/ UNCHANGED isLoggedIn
  BY DEF CommActs, CommLoop, TestPredicate, CommBlock, CommWake, CommCheck, CommUse, CommCall,
     CommRead, GetLine, CommReadDeleted, CommConnected, CommPush, CommLost, CommThrow,
     SpuriousWake, handlerVars, sharedVars, CommGoto

(* The main thread leaves alone what is the communication thread's, but    *)
(* wakes it and starts it anew.                                            *)
LEMMA MainFrame ==
  ASSUME MainActs
  PROVE  /\ UNCHANGED <<request, answers, taken, got, reader, event>>
         /\ \/ cpc' = cpc
            \/ cpc = "waiting" /\ cpc' = "lock"
            \/ Restart /\ cpc = "ended" /\ cpc' = "loop"
         /\ LoginConnect \/ UNCHANGED link
         /\ LoginRequest \/ Join \/ Leave \/ Report \/ Logout \/ UNCHANGED sent
         /\ DeleteHandler \/ UNCHANGED deleted
         /\ Login \/ ForgetHandler \/ UNCHANGED connectionhandler
         /\ LogoutClear \/ UNCHANGED <<isLoggedIn, eventsMap>>
         /\ Exit \/ UNCHANGED shouldTerminate
         /\ Join \/ LogoutClear \/ UNCHANGED subscriptionMap
         /\ Join \/ UNCHANGED subscriptionId
<1> USE DEF handlerVars, sharedVars, mapVars, commVars, CommGoto
<1>1. CASE Login
  <2>1. /\ UNCHANGED <<handlerVars, shouldTerminate, isLoggedIn, eventsMap, mapVars, commVars>>
    BY <1>1 DEF MainActs, Login, GivesUp, Typed
  <2> QED BY <1>1, <2>1
<1>2. CASE LoginConnect
  BY <1>2 DEF LoginConnect, Connect, Server!Open
<1>3. CASE LoginRequest
  BY <1>3 DEF LoginRequest, SendLines, NotifyAll
<1>4. CASE DeleteHandler
  BY <1>4 DEF DeleteHandler, Delete
<1>5. CASE Join
  <2>1. /\ UNCHANGED <<sharedVars, commVars>>
        /\ \E f : SendLines(connectionhandler, <<f>>)
    BY <1>5 DEF MainActs, Join, Send, GivesUp, Typed
  <2> QED BY <1>5, <2>1 DEF SendLines
<1>6. CASE Leave
  <2>1. /\ UNCHANGED <<sharedVars, commVars, mapVars>>
        /\ \E f : SendLines(connectionhandler, <<f>>)
    BY <1>6 DEF MainActs, Leave, Send, GivesUp, Typed
  <2> QED BY <1>6, <2>1 DEF SendLines
<1>7. CASE Report
  <2>1. /\ UNCHANGED <<sharedVars, commVars, mapVars>>
        /\ \E f : SendLines(connectionhandler, f)
    BY <1>7 DEF MainActs, Report, Send, GivesUp, Typed
  <2> QED BY <1>7, <2>1 DEF SendLines
<1>8. CASE Logout
  <2>1. /\ UNCHANGED <<sharedVars, commVars, mapVars>>
        /\ \E f : SendLines(connectionhandler, <<f>>)
    BY <1>8 DEF MainActs, Logout, Send, GivesUp, Typed
  <2> QED BY <1>8, <2>1 DEF SendLines
<1>9. CASE Summary
  <2>1. UNCHANGED <<handlerVars, sharedVars, mapVars, commVars>>
    BY <1>9 DEF MainActs, Summary, GivesUp, Typed
  <2> QED BY <2>1
<1>10. CASE Prompt \/ ForgetHandler \/ SummaryWrite
  BY <1>10 DEF Prompt, ForgetHandler, SummaryWrite
<1>11. CASE LogoutClear \/ Exit \/ Goodbye \/ Type
  BY <1>11 DEF LogoutClear, Exit, Goodbye, Type
<1>12. CASE Restart
  BY <1>12 DEF Restart
<1>13. CASE ExitNotify
  BY <1>13 DEF ExitNotify, NotifyAll
<1> QED
  BY <1>1, <1>2, <1>3, <1>4, <1>5, <1>6, <1>7, <1>8, <1>9, <1>10, <1>11, <1>12, <1>13
  DEF MainActs

(* Where the main thread goes.                                             *)
MainMoves ==
  \/ Prompt /\ mpc = "prompt" /\ mpc' = IF shouldTerminate THEN "finish" ELSE "input"
  \/ Login /\ Typed("login") /\ ~isLoggedIn /\ mpc' = "connect"
     /\ connectionhandler' = CHOOSE h \in Fresh : TRUE
  \/ LoginConnect /\ mpc = "connect" /\ mpc' \in {"request", "discard"}
  \/ LoginRequest /\ mpc = "request" /\ mpc' \in {"prompt", "discard"}
  \/ DeleteHandler /\ mpc = "discard" /\ mpc' = "forget"
  \/ DeleteHandler /\ mpc = "delete" /\ mpc' = "null"
  \/ ForgetHandler /\ mpc = "forget" /\ mpc' = "prompt" /\ connectionhandler' = NONE
  \/ ForgetHandler /\ mpc = "null" /\ mpc' = "clear" /\ connectionhandler' = NONE
  \/ (Join \/ Leave \/ Report) /\ mpc = "command" /\ isLoggedIn /\ mpc' = "prompt"
     /\ connectionhandler # NONE
  \/ Summary /\ mpc = "command" /\ mpc' = "summarise"
  \/ SummaryWrite /\ mpc = "summarise" /\ mpc' = "prompt"
  \/ Logout /\ mpc = "command" /\ isLoggedIn /\ mpc' = "delete" /\ connectionhandler # NONE
  \/ LogoutClear /\ mpc = "clear" /\ mpc' = "rejoin" /\ isLoggedIn' = FALSE
     /\ subscriptionMap' = [t \in Topic |-> NONE] /\ eventsMap' = [t \in Topic |-> {}]
  \/ Restart /\ mpc = "rejoin" /\ cpc = "ended" /\ mpc' = "prompt" /\ cpc' = "loop"
  \/ Exit /\ mpc = "command" /\ mpc' = "terminate" /\ shouldTerminate'
  \/ ExitNotify /\ mpc = "terminate" /\ mpc' = "prompt"
  \/ Goodbye /\ mpc = "finish" /\ mpc' = "exited"
  \/ Type /\ mpc = "input" /\ mpc' = "command"

(* These are all the moves of the main thread.                             *)
LEMMA MainMove ==
  ASSUME MainActs
  PROVE  MainMoves /\ (Type \/ UNCHANGED <<command, inputs>>)
<1> USE DEF MainGoto, GivesUp, Typed
<1>1. CASE Login
  BY <1>1 DEF MainActs, Login, MainMoves
<1>2. CASE LoginConnect \/ LoginRequest
  BY <1>2 DEF LoginConnect, LoginRequest, MainMoves
<1>3. CASE DeleteHandler \/ ForgetHandler
  BY <1>3 DEF DeleteHandler, ForgetHandler, MainMoves
<1>4. CASE Join \/ Leave \/ Report \/ Logout
  BY <1>4 DEF MainActs, Join, Leave, Report, Logout, Send, MainMoves
<1>5. CASE Summary
  BY <1>5 DEF MainActs, Summary, MainMoves
<1>6. CASE SummaryWrite \/ LogoutClear \/ Restart \/ Exit \/ ExitNotify \/ Goodbye \/ Type \/ Prompt
  BY <1>6 DEF SummaryWrite, LogoutClear, Restart, Exit, ExitNotify, Goodbye, Type, Prompt,
     CommGoto, MainMoves
<1> QED BY <1>1, <1>2, <1>3, <1>4, <1>5, <1>6 DEF MainActs

(* Where the communication thread goes.                                    *)
Waits ==
  \/ cpc = "loop" /\ shouldTerminate /\ cpc' = "ended"
  \/ /\ cpc \in {"loop", "lock"}
     /\ cpc' = IF connectionhandler # NONE \/ shouldTerminate THEN "unlock" ELSE "block"
  \/ cpc = "block" /\ cpc' = "waiting"
  \/ cpc = "waiting" /\ cpc' = "lock"
  \/ cpc = "unlock" /\ cpc' = IF shouldTerminate THEN "ended" ELSE "use"

Reads ==
  /\ CommRead /\ cpc = "read" /\ reader \notin deleted /\ UNCHANGED reader
  /\ \/ cpc' = "lost"
     \/ /\ GetLine(reader)
        /\ \/ Line(reader) = "CONNECTED" /\ cpc' = "connected"
           \/ cpc' = "throw"
           \/ cpc' = "push" /\ event' \in Joined(reader)
           \/ cpc' = "loop" /\ Line(reader) # "CONNECTED"

CommMoves ==
  \/ Waits /\ UNCHANGED <<reader, event>>
  \/ /\ CommUse /\ cpc = "use" /\ reader' = connectionhandler
     /\ cpc' = IF connectionhandler = NONE THEN "lost" ELSE "call"
  \/ /\ CommCall /\ cpc = "call" /\ reader' \in {reader, connectionhandler} \ {NONE}
     /\ cpc' \in {"lost", "read"}
  \/ Reads
  \/ CommReadDeleted /\ cpc = "read" /\ cpc' = "lost" /\ UNCHANGED reader
  \/ CommConnected /\ cpc = "connected" /\ isLoggedIn' = TRUE /\ cpc' = "loop" /\ UNCHANGED reader
  \/ CommPush /\ cpc = "push" /\ cpc' = "loop" /\ UNCHANGED reader
     /\ eventsMap' = [eventsMap EXCEPT ![event] = eventsMap[event] \cup {reader}]
  \/ CommLost /\ cpc = "lost" /\ isLoggedIn' = FALSE /\ cpc' = "ended" /\ UNCHANGED reader
  \/ CommThrow /\ cpc = "throw" /\ shouldTerminate' = TRUE /\ cpc' = "ended" /\ UNCHANGED reader

(* These are all the moves of the communication thread.                    *)
LEMMA CommMove ==
  ASSUME CommActs
  PROVE  CommMoves /\ ((CommRead /\ Reads) \/ UNCHANGED event)
<1> USE DEF CommGoto
<1>1. CASE CommLoop \/ CommWake
  BY <1>1 DEF CommLoop, CommWake, TestPredicate, CommMoves, Waits
<1>2. CASE CommBlock \/ CommCheck \/ SpuriousWake
  BY <1>2 DEF CommBlock, CommCheck, SpuriousWake, CommMoves, Waits
<1>3. CASE CommUse
  BY <1>3 DEF CommUse, CommMoves
<1>4. CASE CommCall
  BY <1>4 DEF CommActs, CommCall, CommMoves
<1>5. CASE CommRead
  <2>1. ASSUME GetLine(reader),
               \E next \in After(reader, Line(reader)) : cpc' = next[1] /\ event' = next[2]
        PROVE  \/ Line(reader) = "CONNECTED" /\ cpc' = "connected"
               \/ cpc' = "throw"
               \/ cpc' = "push" /\ event' \in Joined(reader)
               \/ cpc' = "loop" /\ Line(reader) # "CONNECTED"
    <3>1. CASE Line(reader) = "CONNECTED"
      BY <2>1, <3>1 DEF After
    <3>2. CASE Line(reader) = "MESSAGE"
      BY <2>1, <3>2 DEF After
    <3>3. CASE Line(reader) \notin {"CONNECTED", "MESSAGE"}
      BY <2>1, <3>3 DEF After
    <3> QED BY <3>1, <3>2, <3>3
  <2>2. Reads
    BY <1>5, <2>1 DEF CommRead, Reads
  <2> QED BY <1>5, <2>2 DEF CommMoves
<1>6. CASE CommReadDeleted
  BY <1>6 DEF CommActs, CommReadDeleted, CommMoves
<1>7. CASE CommConnected \/ CommLost \/ CommThrow
  BY <1>7 DEF CommConnected, CommLost, CommThrow, CommMoves
<1>8. CASE CommPush
  BY <1>8 DEF CommActs, CommPush, CommMoves
<1> QED BY <1>1, <1>2, <1>3, <1>4, <1>5, <1>6, <1>7, <1>8 DEF CommActs
-----------------------------------------------------------------------------
(* The types of the other variables.                                       *)

(* A step of the communication thread keeps the types.                     *)
LEMMA CommTypes ==
  ASSUME SocketsOK, MemoryOK, MainOK, CommOK, LoginInv, EventInv, CommActs
  PROVE  MemoryOK' /\ MainOK' /\ CommOK'
<1>1. MainOK'
  <2>1. mutex' \in {"main", "comm", NONE}
    BY DEF MainOK, CommActs, CommLoop, TestPredicate, Lock, Unlock, CommBlock, CommWake, CommCheck,
       CommUse, CommCall, CommRead, CommReadDeleted, CommConnected, CommPush, CommLost, CommThrow,
       SpuriousWake
  <2> QED BY <2>1, CommFrame DEF MainOK, mainVars
<1>2. reader' \in Conn \cup {NONE} /\ cpc' \in
        {"loop", "lock", "unlock", "block", "waiting", "use", "call",
         "read", "connected", "push", "lost", "throw", "ended", "crashed"}
  BY CommMove DEF CommMoves, Waits, Reads, CommOK, MemoryOK
<1>3. event' \in Topic \cup {NONE}
  <2>1. CASE UNCHANGED event
    BY <2>1 DEF CommOK
  <2>2. CASE CommRead /\ ~UNCHANGED event
    <3>1. PICK next \in After(reader, Line(reader)) : event' = next[2]
      BY <2>2 DEF CommRead, CommGoto
    <3>2. Joined(reader) \subseteq Topic \cup {NONE}
      <4>1. reader \in Conn
        BY <2>2 DEF CommRead, LoginInv
      <4>2. sent[reader] \in Seq(Frame) /\ taken[reader] \in 0..Len(sent[reader])
        BY <4>1 DEF SocketsOK
      <4>3. \A i \in 1..taken[reader] : sent[reader][i] \in Frame
        BY <4>2
      <4>4. \A i \in 1..taken[reader] : sent[reader][i].destination \in Topic \cup {NONE}
        BY <4>3 DEF Frame
      <4> QED BY <4>4 DEF Joined
    <3> QED BY <3>1, <3>2 DEF After
  <2> QED BY <2>1, <2>2, CommMove
<1>4. MemoryOK'
  <2>1. {shouldTerminate', isLoggedIn'} \subseteq BOOLEAN
    BY CommFrame, CommMove DEF CommThrow, CommConnected, CommLost, MemoryOK
  <2>2. eventsMap' \in [Topic -> SUBSET Conn]
    <3>1. CASE CommPush
      <4>1. cpc = "push" /\ eventsMap' = [eventsMap EXCEPT ![event] = eventsMap[event] \cup {reader}]
        BY <3>1 DEF CommPush, CommActs
      <4> QED BY <4>1 DEF MemoryOK, EventInv, CommOK
    <3>2. CASE UNCHANGED eventsMap
      BY <3>2 DEF MemoryOK
    <3> QED BY <3>1, <3>2, CommFrame
  <2> QED BY <2>1, <2>2, CommFrame DEF MemoryOK, mapVars
<1> QED BY <1>1, <1>2, <1>3, <1>4 DEF CommOK

(* A step of the main thread keeps the types: Login finds a fresh          *)
(* connection, Join an id and a channel.                                   *)
LEMMA MainTypes ==
  ASSUME SocketsOK, MemoryOK, MainOK, CommOK, PointerInv, IdInv, MainActs
  PROVE  MemoryOK' /\ MainOK' /\ CommOK'
<1>1. CommOK'
  BY MainFrame DEF CommOK
<1>2. MainOK'
  <2>1. mutex' \in {"main", "comm", NONE}
    BY DEF MainOK, MainActs, GivesUp, Typed, Continue, Login, Lock, Unlock, LoginConnect,
       LoginRequest, DeleteHandler, ForgetHandler, Join, Leave, Report, Summary, SummaryWrite,
       Logout, LogoutClear, Restart, Exit, ExitNotify, Goodbye, Type, Prompt, Send
  <2>2. inputs' \in 0..Len(Input) /\ (mpc' = "command" => command' \in Input[inputs'])
    <3>1. CASE Type
      <4>1. Len(Input) \in Nat
        BY ClientAssumption
      <4> QED BY <3>1, <4>1 DEF Type, MainOK
    <3>2. CASE ~Type
      <4>1. UNCHANGED <<command, inputs>> /\ mpc' # "command"
        BY <3>2, MainMove DEF MainMoves
      <4> QED BY <4>1 DEF MainOK
    <3> QED BY <3>1, <3>2
  <2>3. mpc' \in {"prompt", "input", "command", "connect", "request",
              "discard", "forget", "delete", "null", "clear", "rejoin",
              "summarise", "terminate", "finish", "exited", "crashed"}
    BY MainMove DEF MainMoves
  <2> QED BY <2>1, <2>2, <2>3 DEF MainOK
<1>3. MemoryOK'
  <2>1. deleted' \subseteq Conn
    BY MainFrame DEF DeleteHandler, Delete, PointerInv, MemoryOK
  <2>2. {shouldTerminate', isLoggedIn'} \subseteq BOOLEAN
    BY MainFrame DEF Exit, LogoutClear, MemoryOK
  <2>3. connectionhandler' \in Conn \cup {NONE}
    <3>1. CASE Login
      <4>1. Typed("login") /\ connectionhandler' = CHOOSE h \in Fresh : TRUE
        BY <3>1, MainMove DEF MainActs, Login, GivesUp, Typed
      <4>2. (CHOOSE h \in Fresh : TRUE) \in Fresh
        BY <4>1 DEF PointerInv
      <4> QED BY <4>1, <4>2 DEF Fresh
    <3>2. CASE ForgetHandler
      BY <3>2 DEF ForgetHandler
    <3> QED BY <3>1, <3>2, MainFrame DEF MemoryOK
  <2>4. eventsMap' \in [Topic -> SUBSET Conn]
    BY MainFrame DEF LogoutClear, MemoryOK
  <2>5. subscriptionMap' \in [Topic -> SubId \cup {NONE}] /\ subscriptionId' \in Nat \ {0}
    <3>1. CASE Join
      <4>1. /\ mpc = "command" /\ subscriptionId' = subscriptionId + 1
            /\ subscriptionMap' = [subscriptionMap EXCEPT ![command.channel] = subscriptionId]
        BY <3>1 DEF MainActs, Join, GivesUp, Typed
      <4>2. subscriptionId \in SubId
        BY <4>1, CommandType
      <4>3. subscriptionMap \in [Topic -> SubId \cup {NONE}] /\ subscriptionId \in Nat \ {0}
        BY DEF MemoryOK
      <4>4. subscriptionMap' \in [Topic -> SubId \cup {NONE}]
        BY <4>1, <4>2, <4>3
      <4>5. subscriptionId' \in Nat \ {0}
        BY <4>1, <4>3
      <4> QED BY <4>4, <4>5
    <3>2. CASE LogoutClear
      BY <3>2 DEF LogoutClear, MemoryOK
    <3> QED BY <3>1, <3>2, MainFrame DEF MemoryOK
  <2> QED BY <2>1, <2>2, <2>3, <2>4, <2>5 DEF MemoryOK
<1> QED BY <1>1, <1>2, <1>3
-----------------------------------------------------------------------------
(* Where the pointer points.                                               *)

(* The communication thread does not touch the pointer.                    *)
LEMMA CommPointer ==
  ASSUME PointerInv, CommActs
  PROVE  PointerInv'
  BY CommFrame DEF PointerInv, Typed, Fresh, mainVars

(* Login moves the pointer to a connection nothing went out on, and logout *)
(* takes it away.                                                          *)
LEMMA MainPointer ==
  ASSUME SocketsOK, MemoryOK, MainOK, PointerInv, \A h \in Conn : OneConnect(h), MainActs
  PROVE  PointerInv'
<1>1. Login => /\ connectionhandler' \in Conn /\ sent'[connectionhandler'] = <<>>
               /\ Typed("login") /\ mpc' = "connect"
  <2>1. SUFFICES ASSUME Login PROVE /\ connectionhandler' \in Conn
                                    /\ sent'[connectionhandler'] = <<>>
                                    /\ Typed("login") /\ mpc' = "connect"
    OBVIOUS
  <2>2. /\ Typed("login") /\ connectionhandler' = CHOOSE h \in Fresh : TRUE
        /\ mpc' = "connect" /\ UNCHANGED handlerVars
    BY <2>1 DEF MainActs, Login, GivesUp, Typed, MainGoto
  <2>3. connectionhandler' \in Fresh
    BY <2>2 DEF PointerInv
  <2> QED BY <2>2, <2>3 DEF Fresh, OneConnect, handlerVars
<1>2. Login \/ ForgetHandler \/ UNCHANGED connectionhandler
  BY MainFrame
<1>3. mpc' \in {"connect", "request", "discard"} =>
        connectionhandler' \in Conn /\ sent'[connectionhandler'] = <<>>
  <2>1. CASE LoginConnect /\ mpc = "connect"
    <3>1. UNCHANGED <<sent, connectionhandler>>
      BY <2>1 DEF LoginConnect, Connect, handlerVars, sharedVars
    <3> QED BY <2>1, <3>1 DEF PointerInv
  <2>2. CASE LoginRequest /\ mpc = "request"
    <3>1. mpc' = "discard" => UNCHANGED <<sent, connectionhandler>>
      BY <2>2 DEF LoginRequest, MainGoto, handlerVars, sharedVars
    <3>2. mpc' \in {"prompt", "discard"}
      BY <2>2 DEF LoginRequest, MainGoto
    <3> QED BY <2>2, <3>1, <3>2 DEF PointerInv
  <2>3. CASE ~LoginConnect /\ ~LoginRequest /\ ~Login
    BY <2>3, MainMove DEF MainMoves
  <2> QED BY <1>1, <2>1, <2>2, <2>3 DEF LoginConnect, LoginRequest
<1>4. mpc' \in {"delete", "null"} => connectionhandler' \in Conn
  <2>1. CASE Logout
    <3>1. mpc = "command" /\ mpc # "crashed" /\ connectionhandler # NONE /\ UNCHANGED connectionhandler
      BY <2>1 DEF MainActs, Logout, Typed, GivesUp, Send, sharedVars
    <3> QED BY <3>1 DEF MemoryOK
  <2>2. CASE DeleteHandler /\ mpc = "delete"
    BY <2>2 DEF PointerInv, DeleteHandler, sharedVars
  <2>3. CASE DeleteHandler /\ mpc = "discard"
    BY <2>3 DEF DeleteHandler, MainGoto
  <2>4. CASE ~Logout /\ ~DeleteHandler
    BY <2>4, MainMove DEF MainMoves
  <2> QED BY <2>1, <2>2, <2>3, <2>4 DEF DeleteHandler
<1>5. mpc' \in {"clear", "rejoin"} => connectionhandler' = NONE
  <2>1. CASE LogoutClear
    BY <2>1 DEF LogoutClear, PointerInv
  <2>2. CASE ~LogoutClear
    BY <2>2, MainMove DEF MainMoves
  <2> QED BY <2>1, <2>2
<1>6. connectionhandler' # NONE /\ mpc' \notin {"connect", "discard", "forget", "crashed"} =>
        link'[connectionhandler'] # "none"
  <2>1. SUFFICES ASSUME connectionhandler' # NONE,
                        mpc' \notin {"connect", "discard", "forget", "crashed"}
                 PROVE  link'[connectionhandler'] # "none"
    OBVIOUS
  <2>2. UNCHANGED connectionhandler
    BY <1>1, <1>2, <2>1 DEF ForgetHandler
  <2>3. CASE LoginConnect
    <3>1. mpc' = "request" => Server!Open(connectionhandler)
      BY <2>3 DEF LoginConnect, Connect, MainGoto
    <3>2. Server!Open(connectionhandler)
      BY <2>1, <2>3, <3>1, MainMove DEF MainMoves, LoginConnect
    <3> QED BY <2>2, <2>3, <3>2 DEF Server!Open, LoginConnect, PointerInv, SocketsOK, SessionTypeOK
  <2>4. CASE ~LoginConnect
    <3>1. UNCHANGED link
      BY <2>4, MainFrame
    <3>2. mpc \notin {"connect", "discard", "forget", "crashed"}
      BY <2>1, <2>2, <2>4, MainMove DEF MainMoves
    <3> QED BY <2>1, <2>2, <3>1, <3>2 DEF PointerInv
  <2> QED BY <2>3, <2>4
<1>7. Typed("login")' => Fresh' # {}
  <2>1. mpc' = "command" => Type
    BY MainMove DEF MainMoves
  <2>2. Type => UNCHANGED <<link, deleted, connectionhandler>>
                /\ (command'.name = "login" => Fresh # {})
    BY DEF Type, handlerVars, sharedVars
  <2> QED BY <2>1, <2>2 DEF Typed, Fresh
<1> QED BY <1>3, <1>4, <1>5, <1>6, <1>7 DEF PointerInv
-----------------------------------------------------------------------------
(* isLoggedIn follows the answers.                                         *)

(* The label each action starts from.                                      *)
LEMMA Labels ==
  /\ CommRead => cpc = "read"
  /\ CommPush => cpc = "push"
  /\ CommThrow => cpc = "throw"
  /\ CommConnected => cpc = "connected"
  /\ CommLost => cpc = "lost"
  /\ LoginConnect => mpc = "connect"
  /\ LoginRequest => mpc = "request"
  /\ DeleteHandler => mpc \in {"discard", "delete"}
  /\ ForgetHandler => mpc \in {"forget", "null"}
  /\ LogoutClear => mpc = "clear"
  /\ Restart => mpc = "rejoin"
  /\ Login \/ Join \/ Leave \/ Report \/ Logout \/ Exit => mpc = "command"
  /\ Login => command.name = "login"
  /\ Join => command.name = "join"
  /\ Leave => command.name = "leave"
  /\ Report => command.name = "report"
  /\ Logout => command.name = "logout"
  /\ Exit => command.name = "exit"
  BY DEF CommRead, CommPush, CommThrow, CommConnected, CommLost, LoginConnect, LoginRequest,
     DeleteHandler, ForgetHandler, LogoutClear, Restart, Login, Join, Leave, Report, Logout,
     Exit, Typed

(* The communication thread sets isLoggedIn only for a session that has    *)
(* begun; the CONNECTED it reads makes one more than the user knew of.     *)
LEMMA CommLogin ==
  ASSUME SocketsOK, MemoryOK, EndTogether, PointerInv, LoginInv,
         \A h \in Conn : OneConnect(h), CommActs
  PROVE  LoginInv'
<1>0. /\ UNCHANGED <<mpc, connectionhandler, sent, answers>>
      /\ (cpc = "read" /\ GetLine(reader)) \/ UNCHANGED got
      /\ cpc \in {"connected", "lost"} \/ UNCHANGED isLoggedIn
      /\ isLoggedIn \in BOOLEAN /\ connectionhandler \in Conn \cup {NONE}
  BY CommFrame, Labels DEF mainVars, MemoryOK
<1>1. /\ \A d \in Conn : LoggedOut(d)' <=> LoggedOut(d)
      /\ \A d \in Conn : Answered(d) => Answered(d)'
      /\ InSession \subseteq InSession'
  <2>1. CASE cpc = "read" /\ GetLine(reader)
    BY <2>1, ReadSessions DEF LoginInv
  <2>2. CASE UNCHANGED got
    BY <1>0, <2>2, KeepsSessions DEF Keeps, SameSessions
  <2> QED BY <1>0, <2>1, <2>2
<1>2. isLoggedIn' /\ ~InLogout' /\ ~crashed' => InSession' # {}
  <2>1. CASE CommConnected
    BY <1>0, <1>1, <2>1, Labels DEF LoginInv, InLogout, InSession
  <2>2. CASE ~CommConnected
    BY <1>0, <1>1, <2>2, CommFrame DEF CommLost, LoginInv, InLogout, crashed
  <2> QED BY <2>1, <2>2
<1>3. isLoggedIn' /\ mpc' = "rejoin" => InSession' # {}
  <2>1. CASE CommConnected
    BY <1>0, <1>1, <2>1, Labels DEF LoginInv, InLogout
  <2>2. CASE ~CommConnected
    BY <1>0, <1>1, <2>2, CommFrame DEF CommLost, LoginInv
  <2> QED BY <2>1, <2>2
<1>4. connectionhandler' # NONE /\ ~InLogout' /\ ~crashed' => ~LoggedOut(connectionhandler)'
  BY <1>0, <1>1 DEF LoginInv, InLogout, crashed
<1>5. mpc' \in {"delete", "null"} => Answered(connectionhandler)' \/ InSession' # {}
  BY <1>0, <1>1 DEF LoginInv, PointerInv
<1> DEFINE About(h) ==
      /\ h \in Conn
      /\ ~InLogout => ~LoggedOut(h)
      /\ InLogout /\ LoggedOut(h) => Answered(h) \/ InSession # {}
<1>6. connectionhandler # NONE /\ ~crashed => About(connectionhandler)
  BY <1>0 DEF LoginInv, PointerInv, InLogout
<1>7. cpc \in {"call", "read", "connected"} => About(reader)
  BY DEF LoginInv
<1> HIDE DEF About
<1>8. ASSUME cpc' \in {"call", "read", "connected"} PROVE About(reader')
  <2>1. ~crashed
    BY CommMove DEF CommMoves, Waits, Reads, EndTogether
  <2>2. \/ cpc \in {"call", "read", "connected"} /\ reader' = reader
        \/ reader' = connectionhandler /\ connectionhandler # NONE
        \/ cpc = "call" /\ reader' \in {reader, connectionhandler} \ {NONE}
    BY <1>8, CommMove DEF CommMoves, Waits, Reads
  <2> QED BY <1>6, <1>7, <2>1, <2>2
<1>9. cpc' \in {"call", "read", "connected"} =>
        /\ reader' \in Conn
        /\ ~InLogout' => ~LoggedOut(reader)'
        /\ InLogout' /\ LoggedOut(reader)' => Answered(reader)' \/ InSession' # {}
  BY <1>0, <1>1, <1>8 DEF About, InLogout
<1>10. cpc' = "connected" =>
        /\ Answered(reader)'
        /\ isLoggedIn' /\ ~InLogout' => InSession' \ {reader'} # {}
        /\ InLogout' => InSession' # {}
  <2>1. SUFFICES ASSUME cpc' = "connected"
                 PROVE  /\ Answered(reader)'
                        /\ isLoggedIn' /\ ~InLogout' => InSession' \ {reader'} # {}
                        /\ InLogout' => InSession' # {}
    OBVIOUS
  <2>2. cpc = "read" /\ GetLine(reader) /\ Line(reader) = "CONNECTED" /\ reader' = reader
    BY <2>1, CommMove DEF CommMoves, Waits, Reads
  <2>3. Answered(reader)' /\ ~Answered(reader) /\ reader \in Conn
    BY <2>2, ReadSessions DEF LoginInv
  <2>4. reader \notin InSession /\ UNCHANGED isLoggedIn /\ (InLogout' <=> InLogout) /\ ~crashed
    BY <1>0, <2>2, <2>3 DEF InSession, InLogout, EndTogether
  <2>5. isLoggedIn' /\ ~InLogout' => InSession' \ {reader'} # {}
    BY <1>1, <2>2, <2>4 DEF LoginInv
  <2>6. ASSUME InLogout' PROVE InSession' # {}
    <3>1. CASE LoggedOut(reader)
      BY <1>1, <2>2, <2>3, <2>4, <2>6, <3>1 DEF LoginInv
    <3>2. CASE ~LoggedOut(reader)
      BY <1>1, <2>2, <2>3, <3>2 DEF InSession
    <3> QED BY <3>1, <3>2
  <2> QED BY <2>2, <2>3, <2>5, <2>6
<1> QED BY <1>2, <1>3, <1>4, <1>5, <1>9, <1>10 DEF LoginInv

(* Only Logout ends a session, and only the one of the pointer.            *)
LEMMA MainSessions ==
  ASSUME SocketsOK, MemoryOK, MainOK, IdInv, PointerInv, MainActs
  PROVE  /\ Logout \/ SameSessions
         /\ Logout =>
              /\ \A d \in Conn : Answered(d)' <=> Answered(d)
              /\ \A d \in Conn \ {connectionhandler} : LoggedOut(d)' <=> LoggedOut(d)
              /\ InSession \ {connectionhandler} \subseteq InSession'
<1>1. CASE UNCHANGED sent
  BY <1>1, MainFrame, KeepsSessions DEF Keeps, SameSessions
<1>2. CASE ~UNCHANGED sent
  <2>1. LoginRequest \/ Join \/ Leave \/ Report \/ Logout
    BY <1>2, MainFrame
  <2>2. PICK f \in Frame, n \in Nat \ {0} :
              /\ connectionhandler \in Conn
              /\ Sends(connectionhandler, f, n)
              /\ Logout \/ f.cmd # "DISCONNECT"
    BY <1>2, <2>1, WritingSteps DEF handlerVars
  <2> QED BY <2>2, SendsSessions
<1> QED BY <1>1, <1>2

(* The main thread logs out of the connection of the pointer: if that had  *)
(* not answered, another one had, as isLoggedIn was set.                   *)
LEMMA MainLogin ==
  ASSUME SocketsOK, MemoryOK, MainOK, IdInv, PointerInv, LoginInv,
         \A h \in Conn : OneConnect(h), MainActs
  PROVE  LoginInv'
<1>0. /\ UNCHANGED reader
      /\ cpc' \in {"call", "read", "connected"} => cpc' = cpc /\ ~Restart
      /\ (LogoutClear /\ isLoggedIn' = FALSE) \/ UNCHANGED isLoggedIn
      /\ isLoggedIn \in BOOLEAN /\ connectionhandler \in Conn \cup {NONE}
      /\ reader \in Conn \/ cpc \notin {"call", "read", "connected"}
  BY MainFrame DEF LogoutClear, MemoryOK, Restart, CommGoto, LoginInv
<1>1. CASE Logout
  <2>1. /\ mpc = "command" /\ mpc' = "delete" /\ isLoggedIn /\ connectionhandler \in Conn
        /\ UNCHANGED <<connectionhandler, cpc, reader, isLoggedIn>>
    BY <1>0, <1>1 DEF MainActs, Logout, Typed, GivesUp, Send, sharedVars, commVars, MainGoto
  <2>2. ~InLogout /\ InLogout' /\ ~crashed /\ ~crashed'
    BY <2>1 DEF InLogout, crashed
  <2>3. /\ \A d \in Conn : Answered(d)' <=> Answered(d)
        /\ \A d \in Conn \ {connectionhandler} : LoggedOut(d)' <=> LoggedOut(d)
        /\ InSession \ {connectionhandler} \subseteq InSession'
    BY <1>1, MainSessions
  <2>4. PICK d \in InSession : TRUE
    BY <2>1, <2>2 DEF LoginInv
  <2>5. Answered(connectionhandler) \/ InSession' # {}
    BY <2>3, <2>4 DEF InSession
  <2>6. cpc \in {"call", "read", "connected"} =>
          /\ reader \in Conn
          /\ LoggedOut(reader)' => Answered(reader) \/ InSession' # {}
    <3>1. SUFFICES ASSUME cpc \in {"call", "read", "connected"}
                   PROVE  reader \in Conn /\ (LoggedOut(reader)' => Answered(reader) \/ InSession' # {})
      OBVIOUS
    <3>2. reader \in Conn /\ ~LoggedOut(reader)
      BY <2>2, <3>1 DEF LoginInv
    <3>3. CASE reader = connectionhandler
      BY <2>5, <3>2, <3>3
    <3>4. CASE reader # connectionhandler
      BY <2>1, <2>3, <3>2, <3>4
    <3> QED BY <3>3, <3>4
  <2>7. cpc = "connected" => Answered(reader) /\ InSession' # {}
    <3>1. SUFFICES ASSUME cpc = "connected" PROVE Answered(reader) /\ InSession' # {}
      OBVIOUS
    <3>2. Answered(reader) /\ reader \in Conn /\ ~LoggedOut(reader) /\ InSession \ {reader} # {}
      BY <2>1, <2>2, <3>1 DEF LoginInv
    <3> QED BY <2>3, <3>2 DEF InSession
  <2> QED BY <2>1, <2>2, <2>3, <2>5, <2>6, <2>7 DEF LoginInv
<1>2. CASE ~Logout
  <2>1. /\ \A d \in Conn : Answered(d)' <=> Answered(d)
        /\ \A d \in Conn : LoggedOut(d)' <=> LoggedOut(d)
        /\ InSession' = InSession
    BY <1>2, MainSessions DEF SameSessions
  <2>2. InLogout' => InLogout
    BY <1>2, MainMove DEF MainMoves, Typed, InLogout
  <2>3. InLogout /\ ~InLogout' => Restart /\ mpc = "rejoin"
    BY MainMove DEF MainMoves, Typed, InLogout
  <2>4. crashed => crashed'
    BY MainMove DEF MainMoves, Typed, crashed
  <2>5. isLoggedIn' /\ ~InLogout' /\ ~crashed' => InSession' # {}
    BY <1>0, <2>1, <2>3, <2>4 DEF LoginInv
  <2>6. isLoggedIn' /\ mpc' = "rejoin" => InSession' # {}
    BY <1>0, MainMove DEF MainMoves
  <2>7. connectionhandler' # NONE /\ ~InLogout' /\ ~crashed' => ~LoggedOut(connectionhandler)'
    <3>1. CASE Login
      <4>1. connectionhandler' \in Fresh
        BY <3>1 DEF PointerInv, MainActs, Login, GivesUp, Typed
      <4>2. connectionhandler' \in Conn /\ sent[connectionhandler'] = <<>>
        BY <4>1 DEF Fresh, OneConnect
      <4>3. ~ \E i \in DOMAIN sent[connectionhandler'] : sent[connectionhandler'][i].cmd = "DISCONNECT"
        BY <4>2
      <4>4. UNCHANGED sent
        BY <3>1, Labels, MainFrame DEF LoginRequest, Join, Leave, Report, Logout, Typed
      <4> QED BY <4>3, <4>4 DEF LoggedOut, CommandsSent
    <3>2. CASE ForgetHandler
      BY <3>2 DEF ForgetHandler
    <3>3. CASE ~Login /\ ~ForgetHandler
      <4>1. UNCHANGED connectionhandler
        BY <3>3, MainFrame
      <4>2. mpc = "rejoin" => connectionhandler = NONE
        BY DEF PointerInv
      <4> QED BY <1>0, <2>1, <2>3, <2>4, <4>1, <4>2 DEF LoginInv
    <3> QED BY <3>1, <3>2, <3>3
  <2>8. mpc' \in {"delete", "null"} => Answered(connectionhandler)' \/ InSession' # {}
    <3>1. SUFFICES ASSUME mpc' \in {"delete", "null"}
                   PROVE  Answered(connectionhandler)' \/ InSession' # {}
      OBVIOUS
    <3>2. mpc = "delete" /\ DeleteHandler
      BY <1>2, <3>1, MainMove DEF MainMoves
    <3>3. UNCHANGED connectionhandler /\ connectionhandler \in Conn
      BY <3>2 DEF DeleteHandler, sharedVars, PointerInv
    <3> QED BY <2>1, <3>2, <3>3 DEF LoginInv
  <2>9. cpc' \in {"call", "read", "connected"} =>
          /\ reader' \in Conn
          /\ ~InLogout' => ~LoggedOut(reader)'
          /\ InLogout' /\ LoggedOut(reader)' => Answered(reader)' \/ InSession' # {}
    BY <1>0, <2>1, <2>2, <2>3 DEF LoginInv
  <2>10. cpc' = "connected" =>
          /\ Answered(reader)'
          /\ isLoggedIn' /\ ~InLogout' => InSession' \ {reader'} # {}
          /\ InLogout' => InSession' # {}
    BY <1>0, <2>1, <2>2, <2>3 DEF LoginInv
  <2> QED BY <2>5, <2>6, <2>7, <2>8, <2>9, <2>10 DEF LoginInv
<1> QED BY <1>1, <1>2
-----------------------------------------------------------------------------
(* The subscriptions are those of the current connection.                  *)

(* What went out stays.                                                    *)
LEMMA SentGrows ==
  ASSUME SocketsOK, MemoryOK, MainOK, IdInv, PointerInv, MainActs, NEW d \in Conn
  PROVE  \A i \in DOMAIN sent[d] : i \in DOMAIN sent'[d] /\ sent'[d][i] = sent[d][i]
<1>1. CASE UNCHANGED sent
  BY <1>1
<1>2. CASE ~UNCHANGED sent
  <2>1. LoginRequest \/ Join \/ Leave \/ Report \/ Logout
    BY <1>2, MainFrame
  <2>2. PICK f \in Frame, n \in Nat \ {0} :
          connectionhandler \in Conn /\ Sends(connectionhandler, f, n)
    BY <1>2, <2>1, WritingSteps DEF handlerVars
  <2>3. sent[d] \in Seq(Frame) /\ sent'[d] \in Seq(Frame)
    BY <2>2 DEF SocketsOK, Sends
  <2>4. /\ DOMAIN sent[d] = 1..Len(sent[d]) /\ DOMAIN sent'[d] = 1..Len(sent'[d])
        /\ Len(sent[d]) \in Nat /\ Len(sent'[d]) \in Nat
    BY <2>3
  <2>5. /\ Len(sent[d]) <= Len(sent'[d])
        /\ \A i \in 1..Len(sent[d]) : sent'[d][i] = sent[d][i]
    BY <2>2 DEF Sends
  <2> QED BY <2>4, <2>5
<1> QED BY <1>1, <1>2

(* A SUBSCRIBE with this id went out on the current connection, if that    *)
(* was possible.                                                           *)
Subscribed(id) ==
  \/ link[connectionhandler] = "closed"
  \/ \E j \in DOMAIN sent[connectionhandler] :
       /\ sent[connectionhandler][j].cmd = "SUBSCRIBE"
       /\ sent[connectionhandler][j].id = id

(* MapInv with Subscribed for its last part.                               *)
LEMMA MapInvMeans ==
  /\ MapInv <=>
       /\ mpc = "rejoin" => \A t \in Topic : subscriptionMap[t] = NONE
       /\ \A t \in Topic : subscriptionMap[t] # NONE /\ ~crashed =>
            /\ ~isLoggedIn => cpc = "ended"
            /\ isLoggedIn /\ ~InLogout =>
                 /\ ~InLogin /\ connectionhandler # NONE
                 /\ Subscribed(subscriptionMap[t])
  BY DEF MapInv, Subscribed

(* isLoggedIn is set anew only while it is set, as long as there are       *)
(* subscriptions: CommLost, which resets it, ends the thread that sets it. *)
LEMMA CommMap ==
  ASSUME MemoryOK, EndTogether, MapInv, CommActs
  PROVE  MapInv'
<1>0. /\ UNCHANGED <<mpc, connectionhandler, subscriptionMap, sent, link>>
      /\ ~crashed /\ cpc # "ended"
      /\ CommConnected \/ CommLost \/ UNCHANGED isLoggedIn
  BY CommFrame, CommMove DEF mainVars, mapVars, EndTogether, CommMoves, Waits, Reads
<1>1. CommConnected => isLoggedIn' = TRUE
  BY DEF CommConnected
<1>2. CommLost => isLoggedIn' = FALSE /\ cpc' = "ended"
  BY DEF CommLost, CommGoto
<1>3. mpc' = "rejoin" => \A t \in Topic : subscriptionMap'[t] = NONE
  BY <1>0 DEF MapInv
<1>4. ASSUME NEW t \in Topic, subscriptionMap'[t] # NONE
      PROVE  /\ ~isLoggedIn' => cpc' = "ended"
             /\ isLoggedIn' /\ ~InLogout' =>
                  /\ ~InLogin' /\ connectionhandler' # NONE
                  /\ Subscribed(subscriptionMap[t])'
  <2>1. isLoggedIn
    BY <1>0, <1>4 DEF MapInv
  <2>2. ~InLogout =>
          ~InLogin /\ connectionhandler # NONE /\ Subscribed(subscriptionMap[t])
    BY <1>0, <1>4, <2>1, MapInvMeans
  <2>3. Subscribed(subscriptionMap[t]) => Subscribed(subscriptionMap[t])'
    BY <1>0 DEF Subscribed
  <2> QED BY <1>0, <1>1, <1>2, <2>1, <2>2, <2>3 DEF InLogout, InLogin
<1> QED BY <1>3, <1>4 DEF MapInv, Subscribed

(* The pointer moves only when there is no subscription, or nobody logged  *)
(* in; Join sends the id it notes.                                         *)
LEMMA MainMap ==
  ASSUME SocketsOK, MemoryOK, MainOK, IdInv, PointerInv, MapInv, MainActs
  PROVE  MapInv'
<1>0. /\ cpc' = "ended" \/ cpc # "ended" \/ Restart
      /\ LogoutClear \/ UNCHANGED isLoggedIn
      /\ isLoggedIn \in BOOLEAN
  BY MainFrame DEF MemoryOK
<1>1. CASE LogoutClear
  BY <1>1 DEF LogoutClear, MapInv
<1>2. CASE Restart
  <2>1. \A t \in Topic : subscriptionMap[t] = NONE
    BY <1>2 DEF Restart, MapInv
  <2> QED BY <1>2, <2>1 DEF Restart, MapInv, mapVars
<1>3. CASE ~LogoutClear /\ ~Restart
  <2>1. mpc' # "rejoin" /\ UNCHANGED isLoggedIn /\ (cpc = "ended" => cpc' = "ended")
    BY <1>0, <1>3, MainMove DEF MainMoves
  <2>2. InLogout => InLogout'
    BY <1>3, MainMove DEF MainMoves, Typed, InLogout
  <2>3. InLogin' => InLogin \/ ~isLoggedIn
    BY MainMove DEF MainMoves, Typed, InLogin
  <2>4. crashed => crashed'
    BY MainMove DEF MainMoves, Typed, crashed
  <2>5. ~InLogin /\ ~InLogout /\ isLoggedIn => UNCHANGED <<connectionhandler, link>>
    <3>1. Login => ~isLoggedIn
      BY DEF MainActs, Login, GivesUp, Typed
    <3> QED BY <3>1, Labels, MainFrame DEF InLogin, InLogout
  <2>6. ASSUME NEW t \in Topic, subscriptionMap'[t] # NONE, ~crashed'
        PROVE  /\ ~isLoggedIn' => cpc' = "ended"
               /\ isLoggedIn' /\ ~InLogout' =>
                    /\ ~InLogin' /\ connectionhandler' # NONE
                    /\ Subscribed(subscriptionMap[t])'
    <3>1. CASE subscriptionMap'[t] = subscriptionMap[t]
      <4>1. ~isLoggedIn' => cpc' = "ended"
        BY <2>1, <2>4, <2>6, <3>1 DEF MapInv
      <4>2. ASSUME isLoggedIn', ~InLogout'
            PROVE  /\ ~InLogin' /\ connectionhandler' # NONE
                   /\ Subscribed(subscriptionMap[t])'
        <5>1. isLoggedIn /\ ~InLogout
          BY <2>1, <2>2, <4>2
        <5>2. ~InLogin /\ connectionhandler # NONE /\ Subscribed(subscriptionMap[t])
          BY <2>4, <2>6, <3>1, <5>1, MapInvMeans
        <5>3. UNCHANGED <<connectionhandler, link>> /\ connectionhandler \in Conn
          BY <2>5, <5>1, <5>2 DEF MemoryOK
        <5>4. \A i \in DOMAIN sent[connectionhandler] :
                /\ i \in DOMAIN sent'[connectionhandler]
                /\ sent'[connectionhandler][i] = sent[connectionhandler][i]
          BY <5>3, SentGrows
        <5>5. Subscribed(subscriptionMap[t])'
          BY <3>1, <5>2, <5>3, <5>4 DEF Subscribed
        <5> QED BY <2>3, <5>1, <5>2, <5>3, <5>5
      <4> QED BY <4>1, <4>2
    <3>2. CASE subscriptionMap'[t] # subscriptionMap[t]
      <4>1. Join
        BY <1>3, <3>2, MainFrame
      <4>2. /\ isLoggedIn /\ mpc' = "prompt" /\ connectionhandler # NONE
            /\ UNCHANGED <<connectionhandler, isLoggedIn>>
            /\ subscriptionMap' = [subscriptionMap EXCEPT ![command.channel] = subscriptionId]
            /\ ~UNCHANGED handlerVars \/ link[connectionhandler] = "closed"
        <5>1. /\ isLoggedIn /\ connectionhandler # NONE
              /\ UNCHANGED <<connectionhandler, isLoggedIn>> /\ mpc' = "prompt"
              /\ subscriptionMap' = [subscriptionMap EXCEPT ![command.channel] = subscriptionId]
              /\ SendLines(connectionhandler, <<createSubscribeFrame(command.channel, subscriptionId)>>)
          BY <4>1 DEF MainActs, Join, Typed, GivesUp, Send, sharedVars, MainGoto
        <5>2. connectionhandler \in Conn /\ mpc = "command"
          BY <4>1, <5>1 DEF MemoryOK, Join, Typed
        <5>3. createSubscribeFrame(command.channel, subscriptionId) \in Frame
          BY <4>1, <5>2, Labels, CommandType, ClientFrame
        <5>4. Sends(connectionhandler, createSubscribeFrame(command.channel, subscriptionId), 1)
          BY <5>1, <5>2, <5>3, SendLineEffect
        <5>5. sent[connectionhandler] \in Seq(Frame)
          BY <5>2 DEF SocketsOK
        <5>6. UNCHANGED handlerVars => link[connectionhandler] = "closed"
          BY <5>4, <5>5 DEF Sends, handlerVars
        <5> QED BY <5>1, <5>6
      <4>3. subscriptionMap'[t] = subscriptionId
        BY <3>2, <4>2 DEF MemoryOK
      <4>4. Subscribed(subscriptionMap[t])'
        <5>1. CASE link[connectionhandler] = "closed"
          <6>1. UNCHANGED link
            BY <4>1, Labels, MainFrame
          <6> QED BY <4>2, <5>1, <6>1 DEF Subscribed
        <5>2. CASE link[connectionhandler] # "closed"
          <6>1. PICK f \in Frame, n \in Nat \ {0} :
                  /\ connectionhandler \in Conn
                  /\ Sends(connectionhandler, f, n)
                  /\ f.cmd = "SUBSCRIBE" /\ f.id = subscriptionId
            BY <4>1, <4>2, <5>2, Labels, WritingSteps
          <6>2. sent[connectionhandler] \in Seq(Frame) /\ sent'[connectionhandler] \in Seq(Frame)
            BY <6>1 DEF SocketsOK, Sends
          <6>3. Len(sent'[connectionhandler]) = Len(sent[connectionhandler]) + n
            BY <5>2, <6>1 DEF Sends
          <6>4. /\ Len(sent'[connectionhandler]) \in DOMAIN sent'[connectionhandler]
                /\ Len(sent'[connectionhandler]) \notin DOMAIN sent[connectionhandler]
            BY <6>2, <6>3
          <6>5. sent'[connectionhandler][Len(sent'[connectionhandler])] = f
            BY <6>1, <6>4 DEF Sends
          <6> QED BY <4>2, <4>3, <6>1, <6>4, <6>5 DEF Subscribed
        <5> QED BY <5>1, <5>2
      <4> QED BY <4>2, <4>4 DEF InLogin
    <3> QED BY <3>1, <3>2
  <2> QED BY <2>1, <2>6 DEF MapInv, Subscribed
<1> QED BY <1>1, <1>2, <1>3
-----------------------------------------------------------------------------
(* The events are those of handlers that are still there.                  *)

(* An event comes from a handler that was there when its frame was read.   *)
(* If it comes after LogoutClear, the thread goes on to wait for a         *)
(* handler, and there is none.                                             *)
LEMMA CommEvents ==
  ASSUME SocketsOK, MemoryOK, EndTogether, PointerInv, LoginInv, EventInv, CommActs
  PROVE  EventInv'
<1>0. /\ UNCHANGED <<mpc, connectionhandler, sent, deleted>>
      /\ CommPush \/ UNCHANGED eventsMap
      /\ CommThrow \/ UNCHANGED shouldTerminate
      /\ cpc # "ended" /\ ~crashed
      /\ shouldTerminate \in BOOLEAN
  BY CommFrame, CommMove DEF mainVars, CommMoves, Waits, Reads, EndTogether, MemoryOK
<1>1. shouldTerminate' =>
        cpc' = "ended" \/ mpc' \in {"terminate", "prompt", "finish", "exited", "crashed"}
  BY <1>0 DEF CommThrow, CommGoto, EventInv
<1>2. cpc' = "push" =>
        reader' = reader /\ reader \in Conn /\ reader \notin deleted /\ sent[reader] # <<>>
  <2>1. SUFFICES ASSUME cpc' = "push"
                 PROVE  /\ reader' = reader /\ reader \in Conn /\ reader \notin deleted
                        /\ sent[reader] # <<>>
    OBVIOUS
  <2>2. /\ cpc = "read" /\ reader' = reader /\ reader \notin deleted
        /\ event' \in Joined(reader)
    BY <2>1, CommMove DEF CommMoves, Waits, Reads
  <2>3. reader \in Conn
    BY <2>2 DEF LoginInv
  <2>4. PICK i \in 1..taken[reader] : sent[reader][i].cmd = "SUBSCRIBE"
    BY <2>2 DEF Joined
  <2>5. sent[reader] \in Seq(Frame) /\ taken[reader] \in 0..Len(sent[reader])
    BY <2>3 DEF SocketsOK
  <2>6. Len(sent[reader]) # 0
    BY <2>4, <2>5
  <2> QED BY <2>2, <2>3, <2>5, <2>6
<1>3. CASE CommPush
  <2>1. /\ cpc = "push" /\ cpc' = "loop" /\ reader' = reader
        /\ eventsMap' = [eventsMap EXCEPT ![event] = eventsMap[event] \cup {reader}]
    BY <1>3 DEF CommPush, CommActs, CommGoto
  <2>2. \A t \in Topic : eventsMap'[t] \subseteq eventsMap[t] \cup {reader}
    BY <2>1 DEF MemoryOK
  <2>3. \A t \in Topic : \A h \in eventsMap'[t] : sent[h] # <<>>
    BY <2>1, <2>2 DEF EventInv
  <2>4. mpc \notin {"null", "clear", "rejoin", "crashed"} =>
          \A t \in Topic : eventsMap'[t] \cap deleted = {}
    BY <2>1, <2>2 DEF EventInv
  <2> QED BY <1>0, <1>1, <2>1, <2>3, <2>4 DEF EventInv
<1>4. CASE ~CommPush
  <2>1. UNCHANGED eventsMap
    BY <1>0, <1>4
  <2>2. ASSUME mpc = "rejoin", \E t \in Topic : eventsMap[t] \cap deleted # {}
        PROVE  cpc' \in {"loop", "lock", "block", "waiting"}
    <3>1. cpc \in {"loop", "lock", "block", "waiting"}
      BY <2>2 DEF EventInv
    <3>2. ~shouldTerminate /\ connectionhandler = NONE
      BY <1>0, <2>2 DEF EventInv, PointerInv
    <3> QED BY <3>1, <3>2, CommMove DEF CommMoves, Waits, Reads
  <2> QED BY <1>0, <1>1, <1>2, <2>1, <2>2 DEF EventInv
<1> QED BY <1>3, <1>4

(* DeleteHandler of a login deletes a handler that had no events; that of  *)
(* a logout is followed by LogoutClear, and by the join of the thread that *)
(* may push late.                                                          *)
LEMMA MainEvents ==
  ASSUME SocketsOK, MemoryOK, MainOK, IdInv, PointerInv, EventInv, MainActs
  PROVE  EventInv'
<1>0. /\ UNCHANGED reader
      /\ cpc' = "push" => cpc = "push"
      /\ cpc' = "ended" \/ cpc # "ended" \/ Restart
      /\ Exit \/ UNCHANGED shouldTerminate
      /\ LogoutClear \/ UNCHANGED eventsMap
  BY MainFrame
<1>1. shouldTerminate' =>
        cpc' = "ended" \/ mpc' \in {"terminate", "prompt", "finish", "exited", "crashed"}
  <2>1. CASE Exit
    BY <2>1 DEF Exit, MainGoto
  <2>2. CASE Restart
    BY <2>2 DEF Restart, MainGoto
  <2>3. CASE ~Exit /\ ~Restart
    <3>1. shouldTerminate' => shouldTerminate
      BY <1>0, <2>3
    <3>2. shouldTerminate =>
            \/ cpc' = "ended"
            \/ mpc \in {"terminate", "prompt", "finish", "exited", "crashed"}
      BY <1>0, <2>3 DEF EventInv
    <3>3. shouldTerminate /\ mpc \in {"terminate", "prompt", "finish", "exited", "crashed"} =>
            mpc' \in {"terminate", "prompt", "finish", "exited", "crashed"}
      BY MainMove DEF MainMoves, Typed
    <3> QED BY <3>1, <3>2, <3>3
  <2> QED BY <2>1, <2>2, <2>3
<1>2. \A h \in Conn : sent[h] # <<>> => sent'[h] # <<>>
  <2>1. ASSUME NEW h \in Conn, sent[h] # <<>> PROVE sent'[h] # <<>>
    <3>1. 1 \in DOMAIN sent[h]
      <4>1. sent[h] \in Seq(Frame)
        BY DEF SocketsOK
      <4> QED BY <2>1, <4>1
    <3>2. 1 \in DOMAIN sent'[h]
      BY <3>1, SentGrows
    <3> QED BY <3>2
  <2> QED BY <2>1
<1>3. \A t \in Topic : eventsMap'[t] \subseteq eventsMap[t] /\ eventsMap[t] \subseteq Conn
  BY <1>0 DEF LogoutClear, MemoryOK
<1>4. cpc' = "push" => reader' \in Conn /\ sent'[reader'] # <<>>
  BY <1>0, <1>2 DEF EventInv
<1>5. \A t \in Topic : \A h \in eventsMap'[t] : sent'[h] # <<>>
  BY <1>2, <1>3 DEF EventInv
<1>6. mpc' \notin {"null", "clear", "rejoin", "crashed"} =>
        /\ \A t \in Topic : eventsMap'[t] \cap deleted' = {}
        /\ cpc' = "push" => reader' \notin deleted'
  <2>1. CASE DeleteHandler /\ mpc = "discard"
    <3>1. deleted' = deleted \cup {connectionhandler} /\ sent[connectionhandler] = <<>>
      BY <2>1 DEF DeleteHandler, Delete, PointerInv
    <3> QED BY <1>0, <1>3, <2>1, <3>1 DEF EventInv
  <2>2. CASE DeleteHandler /\ mpc # "discard"
    BY <2>2 DEF DeleteHandler, MainGoto
  <2>3. CASE Restart
    <3>1. mpc = "rejoin" /\ cpc = "ended" /\ cpc' = "loop" /\ UNCHANGED <<deleted, eventsMap>>
      BY <2>3 DEF Restart, CommGoto, handlerVars, sharedVars
    <3> QED BY <3>1 DEF EventInv
  <2>4. CASE ~DeleteHandler /\ ~Restart
    <3>1. UNCHANGED deleted
      BY <2>4, MainFrame
    <3>2. mpc' \notin {"null", "clear", "rejoin", "crashed"} =>
            mpc \notin {"null", "clear", "rejoin", "crashed"}
      BY <2>4, MainMove DEF MainMoves, Typed
    <3> QED BY <1>0, <1>3, <3>1, <3>2 DEF EventInv
  <2> QED BY <2>1, <2>2, <2>3, <2>4
<1>7. mpc' = "rejoin" => \A t \in Topic : eventsMap'[t] = {}
  <2>1. mpc' = "rejoin" => LogoutClear
    BY MainMove DEF MainMoves, Typed
  <2> QED BY <2>1 DEF LogoutClear
<1> QED BY <1>1, <1>4, <1>5, <1>6, <1>7 DEF EventInv
-----------------------------------------------------------------------------
(* The ids, and the frames that name them.                                 *)

(* There are no more subscriptions than commands.                          *)
LEMMA MainIds ==
  ASSUME MemoryOK, MainOK, IdInv, MainActs
  PROVE  IdInv'
<1>0. subscriptionId \in Nat /\ inputs \in Nat
  BY DEF MemoryOK, MainOK
<1>1. CASE Join
  <2>1. subscriptionId' = subscriptionId + 1 /\ mpc' = "prompt" /\ UNCHANGED inputs /\ mpc = "command"
    BY <1>1 DEF MainActs, Join, GivesUp, Typed, MainGoto
  <2> QED BY <1>0, <2>1 DEF IdInv
<1>2. CASE Type
  <2>1. UNCHANGED subscriptionId /\ mpc = "input" /\ mpc' = "command" /\ inputs' = inputs + 1
    BY <1>2 DEF Type, mapVars
  <2> QED BY <1>0, <2>1 DEF IdInv
<1>3. CASE ~Join /\ ~Type
  <2>1. UNCHANGED <<subscriptionId, inputs>> /\ mpc' # "command"
    BY <1>3, MainMove, MainFrame DEF MainMoves
  <2> QED BY <1>0, <2>1 DEF IdInv
<1> QED BY <1>1, <1>2, <1>3

(* Leave takes its id from the map, which MapInv says is about this        *)
(* connection.                                                             *)
LEMMA MainExits ==
  ASSUME SocketsOK, MemoryOK, MainOK, IdInv, PointerInv, MapInv, ExitMatchesJoin, MainActs
  PROVE  ExitMatchesJoin'
<1>1. CASE UNCHANGED sent
  BY <1>1 DEF ExitMatchesJoin
<1>2. CASE ~UNCHANGED sent
  <2>1. LoginRequest \/ Join \/ Leave \/ Report \/ Logout
    BY <1>2, MainFrame
  <2>2. PICK f \in Frame, n \in Nat \ {0} :
          /\ connectionhandler \in Conn
          /\ Sends(connectionhandler, f, n)
          /\ \/ f.cmd # "UNSUBSCRIBE"
             \/ /\ Leave /\ f.id = subscriptionMap[command.channel]
                /\ isLoggedIn /\ f.id # NONE
    BY <1>2, <2>1, WritingSteps DEF handlerVars
  <2>3. SUFFICES ASSUME NEW h \in Conn, NEW i \in DOMAIN sent'[h],
                        sent'[h][i].cmd = "UNSUBSCRIBE"
                 PROVE  \E j \in 1..(i - 1) :
                          sent'[h][j].cmd = "SUBSCRIBE" /\ sent'[h][j].id = sent'[h][i].id
    BY DEF ExitMatchesJoin
  <2>4. /\ DOMAIN sent[h] = 1..Len(sent[h]) /\ DOMAIN sent'[h] = 1..Len(sent'[h])
        /\ Len(sent[h]) \in Nat /\ Len(sent'[h]) \in Nat
    <3>1. sent[h] \in Seq(Frame) /\ sent'[h] \in Seq(Frame)
      BY <2>2 DEF SocketsOK, Sends
    <3> QED BY <3>1
  <2>5. \A j \in 1..Len(sent[h]) : sent'[h][j] = sent[h][j]
    BY <2>2 DEF Sends
  <2>6. CASE i \in DOMAIN sent[h]
    <3>1. sent[h][i].cmd = "UNSUBSCRIBE" /\ i \in 1..Len(sent[h])
      BY <2>3, <2>4, <2>5, <2>6
    <3>2. PICK j \in 1..(i - 1) : sent[h][j].cmd = "SUBSCRIBE" /\ sent[h][j].id = sent[h][i].id
      BY <2>6, <3>1 DEF ExitMatchesJoin
    <3>3. j \in 1..Len(sent[h])
      BY <2>4, <3>1
    <3> QED BY <2>5, <3>1, <3>2, <3>3
  <2>7. CASE i \notin DOMAIN sent[h]
    <3>1. h = connectionhandler /\ sent'[h][i] = f /\ link[h] # "closed"
      BY <2>2, <2>7 DEF Sends
    <3>2. /\ Leave /\ mpc = "command" /\ f.id = subscriptionMap[command.channel]
          /\ isLoggedIn /\ f.id # NONE /\ command.channel \in Topic
      BY <2>2, <2>3, <3>1, Labels, CommandType
    <3>3. PICK j \in DOMAIN sent[h] : sent[h][j].cmd = "SUBSCRIBE" /\ sent[h][j].id = f.id
      BY <3>1, <3>2 DEF MapInv, InLogout, crashed
    <3>4. j \in 1..(i - 1)
      BY <2>4, <2>7, <3>3
    <3> QED BY <2>4, <2>5, <3>1, <3>3, <3>4
  <2> QED BY <2>6, <2>7
<1> QED BY <1>1, <1>2
-----------------------------------------------------------------------------
(* Every step is one of these.                                             *)

(* A crash, a command that is given up, a step of one of the threads or of *)
(* the server.                                                             *)
LEMMA NextCases ==
  ASSUME Next
  PROVE  \/ Crash \/ GivesUp \/ MainActs \/ CommActs
         \/ \E h \in Conn : ServerStep(h) /\ UNCHANGED clientVars
<1>1. CASE Main \/ Type
  BY <1>1 DEF Main, MainActs, NullHandler
<1>2. CASE Comm \/ SpuriousWake
  BY <1>2 DEF Comm, CommActs
<1>3. CASE Ignore
  BY <1>3 DEF Ignore, GivesUp
<1>4. CASE \E h \in Conn : Served(h) \/ Disturbed(h)
  BY <1>4 DEF Served, Disturbed, ServerStep
<1> QED BY <1>1, <1>2, <1>3, <1>4 DEF Next

(* The inductive invariant in the parts the lemmas are about ...           *)
LEMMA ClientInvParts ==
  ClientInv <=> /\ SocketsOK /\ MemoryOK /\ MainOK /\ CommOK
                /\ \A h \in Conn : OneConnect(h)
                /\ EndTogether /\ PointerInv /\ LoginInv /\ MapInv /\ EventInv /\ IdInv
                /\ ExitMatchesJoin
  BY TypeParts DEF ClientInv

(* ... and the same of the next state.                                     *)
LEMMA ClientInvPartsPrime ==
  ClientInv' <=> /\ SocketsOK' /\ MemoryOK' /\ MainOK' /\ CommOK'
                 /\ \A h \in Conn : OneConnect(h)'
                 /\ EndTogether' /\ PointerInv' /\ LoginInv' /\ MapInv' /\ EventInv' /\ IdInv'
                 /\ ExitMatchesJoin'
<1>1. TypeOK' /\ SessionTypeOK' <=> SocketsOK' /\ MemoryOK' /\ MainOK' /\ CommOK'
  BY DEF TypeOK, SocketsOK, MemoryOK, MainOK, CommOK
<1> QED BY <1>1 DEF ClientInv

(* A crash keeps the inductive invariant.                                  *)
LEMMA CrashInv ==
  ASSUME ClientInv, Crash
  PROVE  ClientInv'
<1>1. /\ UNCHANGED <<handlerVars, mutex, sharedVars, mapVars, command, inputs, reader, event>>
      /\ mpc' = "crashed" /\ cpc' = "crashed"
  BY DEF Crash
<1> USE DEF handlerVars, sharedVars, mapVars
<1>2. SocketsOK' /\ \A h \in Conn : OneConnect(h)'
  BY <1>1 DEF ClientInv, TypeOK, SessionTypeOK, SocketsOK, OneConnect
<1>3. MemoryOK' /\ MainOK' /\ CommOK'
  BY <1>1, ClientInvParts DEF MemoryOK, MainOK, CommOK
<1>4. EndTogether' /\ PointerInv' /\ LoginInv' /\ MapInv'
  BY <1>1 DEF EndTogether, PointerInv, Typed, LoginInv, InLogout, MapInv, crashed
<1>5. EventInv' /\ IdInv' /\ ExitMatchesJoin'
  <2>1. EventInv'
    BY <1>1 DEF ClientInv, EventInv
  <2>2. IdInv'
    <3>1. subscriptionId \in Nat /\ inputs \in Nat
      BY ClientInvParts DEF MemoryOK, MainOK
    <3> QED BY <1>1, <3>1 DEF ClientInv, IdInv
  <2>3. ExitMatchesJoin'
    BY <1>1 DEF ClientInv, ExitMatchesJoin
  <2> QED BY <2>1, <2>2, <2>3
<1> QED BY <1>2, <1>3, <1>4, <1>5, ClientInvPartsPrime

(* A command that is given up keeps the inductive invariant.               *)
LEMMA GivesUpInv ==
  ASSUME ClientInv, GivesUp
  PROVE  ClientInv'
<1>1. /\ mpc \in {"command", "input"} /\ mpc' = "prompt"
      /\ UNCHANGED <<handlerVars, mutex, sharedVars, mapVars, command, inputs, commVars>>
  BY DEF GivesUp, Continue, MainGoto
<1>0. SocketsOK
  BY ClientInvParts
<1> USE DEF handlerVars, sharedVars, mapVars, commVars
<1>2. SocketsOK' /\ \A h \in Conn : OneConnect(h)'
  BY <1>1 DEF ClientInv, TypeOK, SessionTypeOK, SocketsOK, OneConnect
<1>3. MemoryOK' /\ MainOK' /\ CommOK'
  BY <1>1, ClientInvParts DEF MemoryOK, MainOK, CommOK
<1>4. EndTogether' /\ PointerInv'
  BY <1>1 DEF ClientInv, EndTogether, crashed, PointerInv, Typed
<1>5. LoginInv'
  <2>1. SameSessions
    BY <1>0, <1>1, KeepsSessions DEF Keeps
  <2> QED BY <1>1, <2>1 DEF ClientInv, SameSessions, LoginInv, InLogout, crashed, TypeOK
<1>6. MapInv'
  BY <1>1 DEF ClientInv, MapInv, InLogout, InLogin, crashed
<1>7. EventInv'
  BY <1>1 DEF ClientInv, EventInv
<1>8. IdInv'
  <2>1. subscriptionId \in Nat /\ inputs \in Nat
    BY ClientInvParts DEF MemoryOK, MainOK
  <2> QED BY <1>1, <2>1 DEF ClientInv, IdInv
<1>9. ExitMatchesJoin'
  BY <1>1 DEF ClientInv, ExitMatchesJoin
<1> QED BY <1>2, <1>3, <1>4, <1>5, <1>6, <1>7, <1>8, <1>9, ClientInvPartsPrime

(* A step of the server: the answers grow, the rest is as it was.          *)
LEMMA ServerInv ==
  ASSUME ClientInv, NEW h \in Conn, ServerStep(h), UNCHANGED clientVars
  PROVE  ClientInv'
<1>0. SocketsOK /\ MemoryOK /\ MainOK /\ CommOK
  BY ClientInvParts
<1>1. AnswersGrow /\ SocketsOK'
  BY <1>0, ServerEffect
<1>2. /\ UNCHANGED <<mutex, shouldTerminate, isLoggedIn, eventsMap, connectionhandler,
                     subscriptionMap, subscriptionId, mpc, command, inputs, cpc, reader, event>>
      /\ UNCHANGED <<sent, got, deleted>>
  BY <1>1 DEF clientVars, sharedVars, mapVars, mainVars, commVars, AnswersGrow
<1>3. \A d \in Conn : OneConnect(d)'
  BY <1>0, ServerOneConnect DEF ClientInv
<1>4. MemoryOK' /\ MainOK' /\ CommOK'
  BY <1>0, <1>2 DEF MemoryOK, MainOK, CommOK
<1>5. EndTogether'
  BY <1>2 DEF ClientInv, EndTogether, crashed
<1>6. PointerInv'
  <2>1. Fresh' = Fresh
    BY <1>1, <1>2 DEF Fresh, AnswersGrow
  <2>2. connectionhandler \in Conn => (link'[connectionhandler] = "none" <=> link[connectionhandler] = "none")
    BY <1>1 DEF AnswersGrow
  <2> QED BY <1>0, <1>2, <2>1, <2>2 DEF ClientInv, PointerInv, Typed, MemoryOK
<1>7. LoginInv'
  <2>1. SameSessions
    BY <1>0, <1>1, KeepsSessions DEF Keeps, AnswersGrow
  <2> QED BY <1>0, <1>2, <2>1 DEF ClientInv, SameSessions, LoginInv, PointerInv, InLogout, crashed, MemoryOK
<1>8. MapInv'
  <2>1. connectionhandler \in Conn => (link[connectionhandler] = "closed" => link'[connectionhandler] = "closed")
    BY <1>1 DEF AnswersGrow
  <2> QED BY <1>0, <1>2, <2>1 DEF ClientInv, MapInv, InLogout, InLogin, crashed, MemoryOK
<1>9. EventInv' /\ IdInv' /\ ExitMatchesJoin'
  BY <1>2 DEF ClientInv, EventInv, IdInv, ExitMatchesJoin
<1> QED BY <1>1, <1>3, <1>4, <1>5, <1>6, <1>7, <1>8, <1>9, ClientInvPartsPrime

(* The main thread keeps the inductive invariant.                          *)
LEMMA MainInv ==
  ASSUME ClientInv, MainActs
  PROVE  ClientInv'
<1>0. /\ SocketsOK /\ MemoryOK /\ MainOK /\ CommOK /\ \A h \in Conn : OneConnect(h)
      /\ EndTogether /\ PointerInv /\ LoginInv /\ MapInv /\ EventInv /\ IdInv /\ ExitMatchesJoin
  BY ClientInvParts
<1>1. SocketsOK' /\ \A h \in Conn : OneConnect(h)'
  BY <1>0, ActsAreSteps, ClientSockets
<1>2. EndTogether'
  BY MainMove DEF MainMoves, Typed, EndTogether, crashed
<1> QED
  BY <1>0, <1>1, <1>2, MainTypes, MainPointer, MainLogin, MainMap, MainEvents, MainIds, MainExits,
     ClientInvPartsPrime

(* The communication thread keeps the inductive invariant.                 *)
LEMMA CommInv ==
  ASSUME ClientInv, CommActs
  PROVE  ClientInv'
<1>0. /\ SocketsOK /\ MemoryOK /\ MainOK /\ CommOK /\ \A h \in Conn : OneConnect(h)
      /\ EndTogether /\ PointerInv /\ LoginInv /\ MapInv /\ EventInv /\ IdInv /\ ExitMatchesJoin
  BY ClientInvParts
<1>1. SocketsOK' /\ \A h \in Conn : OneConnect(h)'
  BY <1>0, ActsAreSteps, ClientSockets
<1>2. EndTogether'
  <2>1. cpc # "crashed" /\ UNCHANGED mpc
    BY CommMove, CommFrame DEF CommMoves, Waits, Reads, mainVars
  <2> QED BY <1>0, <2>1 DEF EndTogether, crashed
<1>3. IdInv' /\ ExitMatchesJoin'
  BY <1>0, CommFrame DEF IdInv, ExitMatchesJoin, mainVars, mapVars
<1> QED
  BY <1>0, <1>1, <1>2, <1>3, CommTypes, CommPointer, CommLogin, CommMap, CommEvents, ClientInvPartsPrime

(* The inductive step.                                                     *)
LEMMA NextInv == ClientInv /\ [Next]_vars => ClientInv'
<1> SUFFICES ASSUME ClientInv, [Next]_vars PROVE ClientInv'
  OBVIOUS
<1>1. CASE Next
  BY <1>1, NextCases, CrashInv, GivesUpInv, MainInv, CommInv, ServerInv
<1>2. CASE UNCHANGED vars
  <2>1. /\ UNCHANGED <<link, stage, request, answers, sent, taken, got, deleted>>
        /\ UNCHANGED <<mutex, shouldTerminate, isLoggedIn, eventsMap, connectionhandler,
                     subscriptionMap, subscriptionId, mpc, command, inputs, cpc, reader, event>>
    BY <1>2 DEF vars, handlerVars, sharedVars, mapVars, mainVars, commVars
  <2>2. TypeOK' /\ SessionTypeOK'
    BY <2>1 DEF ClientInv, TypeOK, SessionTypeOK
  <2>3. \A h \in Conn : OneConnect(h)'
    BY <2>1 DEF ClientInv, OneConnect
  <2>4. EndTogether' /\ PointerInv' /\ MapInv' /\ EventInv' /\ IdInv' /\ ExitMatchesJoin'
    BY <2>1 DEF ClientInv, EndTogether, crashed, PointerInv, Typed, Fresh, MapInv, InLogout, InLogin,
       EventInv, IdInv, ExitMatchesJoin
  <2>5. LoginInv'
    BY <2>1 DEF ClientInv, LoginInv, InLogout, crashed, InSession, Answered, LoggedOut, CommandsSent
  <2> QED BY <2>2, <2>3, <2>4, <2>5 DEF ClientInv
<1> QED BY <1>1, <1>2
-----------------------------------------------------------------------------
(* ClientInv is an invariant of the client: why the threads of main() keep *)
(* isLoggedIn, the pointer, the subscriptions and the events together,     *)
(* although they share them without a common lock.                         *)
THEOREM ClientInvariance == Spec => []ClientInv
<1>1. Init => ClientInv
  BY InitInv
<1>2. ClientInv /\ [Next]_vars => ClientInv'
  BY NextInv
<1> QED BY <1>1, <1>2, PTL DEF Spec

(* Every variable of main() holds a value of its type, and the command at  *)
(* hand is the line the user typed last.                                   *)
THEOREM ClientTypeCorrect == Spec => []TypeOK
<1>1. ClientInv => TypeOK
  BY DEF ClientInv
<1> QED BY <1>1, ClientInvariance, PTL

(* The user who is asked for a command after a logout finds no event of    *)
(* the session that ended: what is pushed late keeps the communication     *)
(* thread from ending, and logout waits for it.                            *)
THEOREM NoEventsLeft == Spec => []EventsOfThisSession
<1>1. ClientInv => EventsOfThisSession
  BY DEF ClientInv, EventInv, EventsOfThisSession, AtPrompt
<1> QED BY <1>1, ClientInvariance, PTL

(* "exit" unsubscribes with an id the connection has subscribed with,      *)
(* although the map outlives a connection that is lost.                    *)
THEOREM ExitsAreMatched == Spec => []ExitMatchesJoin
<1>1. ClientInv => ExitMatchesJoin
  BY DEF ClientInv
<1> QED BY <1>1, ClientInvariance, PTL

(* A client that takes itself for logged in has a session that the server  *)
(* has confirmed and that it has not ended.                                *)
THEOREM LoggedInMeansAnswered == Spec => []LoggedInIsAnswered
<1>1. ClientInv => LoggedInIsAnswered
  BY DEF ClientInv, LoginInv, LoggedInIsAnswered, AtPrompt, InLogout, crashed, InSession,
     Answered, LoggedOut
<1> QED BY <1>1, ClientInvariance, PTL
=============================================================================
