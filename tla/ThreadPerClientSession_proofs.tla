--------------------- MODULE ThreadPerClientSession_proofs ---------------------
(***************************************************************************)
(* The thread-per-client server implements StompSession, for any number of *)
(* connections, users, topics and frames.                                  *)
(*                                                                         *)
(* SessionInv adds to IInv what happens to a socket.  Every step of a      *)
(* thread is then a step of the session of its own connection, or of the   *)
(* connection a MESSAGE is written to, or of none.                         *)
(***************************************************************************)
EXTENDS ThreadPerClient_proofs

-----------------------------------------------------------------------------
(* The steps that touch a socket or the flag of its read loop.             *)
LEMMA SocketSteps ==
  ASSUME NEW c \in Conn, Step(c)
  PROVE  \/ UNCHANGED handlerVars
         \/ Accept(c) \/ Return(c) \/ StopReading(c) \/ Unwind(c) \/ LeaveServer(c)
         \/ Connected(c) \/ Refuse(c) \/ Error(c) \/ Receipt(c) \/ Deliver(c)
  BY DEF Step, ThreadStep, ProtocolStep, Read, Process, Connect, Register, Verify, CheckOnline,
     Login, Session, Subscribe, Unsubscribe, VisitTopic, EndUnsubscribe, Send, VisitSubscriber,
     EndBroadcast, Disconnect, LeaveTopic

(* A write opens and closes no socket, and clears the flag of no           *)
(* connection that is not in activeConnections.                            *)
LEMMA SendToSocket ==
  ASSUME TypeOK, NEW e \in Conn, NEW f, SendTo(e, f)
  PROVE  /\ sock' = sock
         /\ \A d \in Conn : d # e \/ d \notin activeConnections => connected'[d] = connected[d]
  BY DEF TypeOK, SendTo, Write, WriteSucceeds, WriteFails, handlerVars

(* A thread opens and closes its own socket only, and disturbs no          *)
(* connection before it is accepted.                                       *)
LEMMA SocketElsewhere ==
  ASSUME TypeOK, NEW c \in Conn, CommandAt(c), Step(c), NEW d \in Conn, d # c
  PROVE  /\ sock'[d] = sock[d]
         /\ d \notin activeConnections => connected'[d] = connected[d]
<1>0. sock \in [Conn -> {"none", "open", "closed"}] /\ connected \in [Conn -> BOOLEAN]
  BY DEF TypeOK
<1>1. CASE UNCHANGED handlerVars
  BY <1>1 DEF handlerVars
<1>2. CASE Accept(c)
  BY <1>0, <1>2 DEF Accept, Open
<1>3. CASE Return(c) \/ StopReading(c) \/ Unwind(c)
  BY <1>0, <1>3 DEF Return, StopReading, Unwind, Close, AutoClose, handlerVars
<1>4. CASE LeaveServer(c)
  BY <1>0, <1>4 DEF LeaveServer, RemoveHandler, Close, handlerVars
<1>5. CASE Connected(c) \/ Refuse(c) \/ Error(c) \/ Receipt(c)
  BY <1>5, SendToSocket DEF Connected, Refuse, Error, Receipt, handlerVars
<1>6. CASE Deliver(c)
  <2>1. target[c].to \in Conn
    BY <1>6 DEF Deliver, At, CommandAt, Target
  <2> QED BY <1>6, <2>1, SendToSocket DEF Deliver
<1> QED BY <1>1, <1>2, <1>3, <1>4, <1>5, <1>6, SocketSteps

(* A thread keeps its socket open until it leaves the server or ends.      *)
LEMMA OwnSocket ==
  ASSUME TypeOK, NEW c \in Conn, ConnInv(c), SocketOf(c), Step(c)
  PROVE  SocketOf(c)'
<1> USE DEF SocketOf, Goto, At
<1>0. /\ pc \in [Conn -> Label]
      /\ sock \in [Conn -> {"none", "open", "closed"}]
      /\ connected \in [Conn -> BOOLEAN]
      /\ CommandAt(c)
  BY DEF TypeOK, ConnInv
<1>1. CASE Accept(c)
  BY <1>0, <1>1 DEF Accept, Open, AddConnection
<1>2. CASE Return(c)
  <2>1. pc'[c] \in {"read", "ended"} /\ activeConnections' = activeConnections
    BY <1>0, <1>2 DEF Return, connectionsVars
  <2>2. pc'[c] = "read" => sock' = sock
    BY <1>0, <1>2 DEF Return, handlerVars
  <2>3. pc'[c] = "ended" => sock'[c] = "closed"
    BY <1>0, <1>2 DEF Return, Close, AutoClose
  <2> QED BY <1>2, <2>1, <2>2, <2>3 DEF Return
<1>3. CASE StopReading(c) \/ Unwind(c)
  BY <1>0, <1>3 DEF StopReading, Unwind, AutoClose
<1>4. CASE LeaveServer(c)
  BY <1>0, <1>4 DEF LeaveServer, RemoveHandler, Close, handlerVars, connectionsVars
<1>5. CASE sock' = sock /\ activeConnections' = activeConnections /\ pc[c] \notin {"idle", "ended"}
           /\ pc'[c] # "idle"
  BY <1>5
<1>6. CASE Connected(c) \/ Refuse(c) \/ Error(c) \/ Receipt(c)
  <2>1. sock' = sock
    BY <1>6, SendToSocket DEF Connected, Refuse, Error, Receipt, handlerVars
  <2> QED BY <1>0, <1>5, <1>6, <2>1 DEF Connected, Refuse, Error, Receipt, connectionsVars
<1>7. CASE Deliver(c)
  <2>1. target[c].to \in Conn
    BY <1>0, <1>7 DEF Deliver, CommandAt, Target
  <2>2. sock' = sock
    BY <1>7, <2>1, SendToSocket DEF Deliver
  <2> QED BY <1>0, <1>5, <1>7, <2>2 DEF Deliver, connectionsVars
<1>8. CASE UNCHANGED handlerVars /\ ~Accept(c) /\ ~LeaveServer(c)
  <2>1. pc[c] \notin {"idle", "ended"} /\ pc'[c] # "idle"
    <3>1. ASSUME Read(c) PROVE pc[c] = "read" /\ pc'[c] # "idle"
      <4>1. PICK f \in Frame : Process(c, f)
        BY <3>1, ReadFrame
      <4>2. f.cmd \in Command
        BY DEF Frame
      <4> QED BY <1>0, <4>1, <4>2 DEF Process, Command
    <3> QED
      BY <1>0, <1>8, <3>1 DEF Step, ThreadStep, ProtocolStep, StopReading, Return, Unwind,
         Connect, Register, Verify, CheckOnline, Login, Session, Connected, Refuse, Error,
         Subscribe, Unsubscribe, VisitTopic, EndUnsubscribe, Send, VisitSubscriber, Deliver,
         EndBroadcast, Disconnect, LeaveTopic, Receipt
  <2>2. activeConnections' = activeConnections
    BY <1>8 DEF connectionsVars, localVars, Step, ThreadStep, ProtocolStep, Read, Process,
       StopReading, Return, Unwind, Connect, Register, PutRegisted, Verify, CheckOnline, Login,
       PutLoggedIn, Session, PutUsername, Connected, Refuse, Error, Subscribe, AddSubscriber,
       Unsubscribe, VisitTopic, RemoveEntry, RemoveSubscriber, EndUnsubscribe, Send,
       VisitSubscriber, Deliver, EndBroadcast, Disconnect, LeaveTopic, Receipt
  <2> QED BY <1>5, <1>8, <2>1, <2>2 DEF handlerVars
<1> QED BY <1>1, <1>2, <1>3, <1>4, <1>6, <1>7, <1>8, SocketSteps

(* The handlers that end in sendErrorFrame on the common path.             *)
LEMMA ErrorArrivals ==
  ASSUME TypeOK, NEW c \in Conn, CommandAt(c), Step(c), pc'[c] = "error"
  PROVE  frame'[c].cmd # "DISCONNECT"
<1> USE DEF Goto, At
<1>0. pc \in [Conn -> Label] /\ frame \in [Conn -> Frame \cup {NONE}]
  BY DEF TypeOK
<1>1. CASE Read(c)
  <2>1. PICK f \in Frame : Process(c, f)
    BY <1>1, ReadFrame
  <2>2. f.cmd \in Command
    BY DEF Frame
  <2> QED BY <1>0, <2>1, <2>2 DEF Process, Command
<1>2. CASE Subscribe(c) \/ Unsubscribe(c) \/ Send(c)
  BY <1>0, <1>2 DEF Subscribe, Unsubscribe, Send, CommandAt, Command, localVars
<1>3. CASE ~Read(c) /\ ~Subscribe(c) /\ ~Unsubscribe(c) /\ ~Send(c)
  <2>1. pc'[c] # "error"
    BY <1>0, <1>3 DEF localVars, Step, ThreadStep, ProtocolStep, Accept, StopReading, Return,
       Unwind, Connect, Register, Verify, CheckOnline, Login, Session, Connected, Refuse, Error,
       VisitTopic, EndUnsubscribe, VisitSubscriber, Deliver, EndBroadcast, Disconnect, LeaveTopic,
       LeaveServer, Receipt
  <2> QED BY <2>1
<1> QED BY <1>1, <1>2, <1>3

(* A thread that is told to terminate leaves.                              *)
LEMMA OwnLeaving ==
  ASSUME TypeOK, NEW c \in Conn, ConnInv(c), Leaving(c), Step(c)
  PROVE  Leaving(c)'
<1> USE DEF Leaving, Goto, At
<1>0. /\ pc \in [Conn -> Label]
      /\ shouldTerminate \in [Conn -> BOOLEAN]
  BY DEF TypeOK
<1>e. pc'[c] = "error" => frame'[c].cmd # "DISCONNECT"
  BY ErrorArrivals DEF ConnInv
<1>1. CASE Refuse(c) \/ Disconnect(c) \/ Error(c)
  BY <1>0, <1>e, <1>1 DEF Refuse, Disconnect, Error
<1>2. CASE Return(c) \/ Unwind(c)
  BY <1>0, <1>e, <1>2 DEF Return, Unwind, localVars
<1>3. CASE LeaveServer(c) \/ Receipt(c)
  BY <1>0, <1>e, <1>3 DEF LeaveServer, Receipt, localVars
<1>4. CASE \E t \in Topic : LeaveTopic(c, t)
  BY <1>e, <1>4 DEF LeaveTopic
<1>5. CASE /\ ~Refuse(c) /\ ~Disconnect(c) /\ ~Error(c) /\ ~Return(c) /\ ~Unwind(c)
           /\ ~LeaveServer(c) /\ ~Receipt(c) /\ ~\E t \in Topic : LeaveTopic(c, t)
  <2>1. UNCHANGED shouldTerminate
    BY <1>5 DEF localVars, Step, ThreadStep, ProtocolStep, Accept, Read, Process, StopReading,
       Connect, Register, Verify, CheckOnline, Login, Session, Connected, Subscribe, Unsubscribe,
       VisitTopic, EndUnsubscribe, Send, VisitSubscriber, Deliver, EndBroadcast
  <2>2. pc[c] \notin {"disconnect", "check", "crash", "ended", "receipt"}
    BY <1>5 DEF Step, ThreadStep, ProtocolStep, Accept, Read, Process, StopReading, Connect,
       Register, Verify, CheckOnline, Login, Session, Connected, Subscribe, Unsubscribe,
       VisitTopic, EndUnsubscribe, Send, VisitSubscriber, Deliver, EndBroadcast
  <2> QED BY <1>e, <2>1, <2>2
<1> QED BY <1>1, <1>2, <1>3, <1>4, <1>5

(* SessionInv is inductive.                                                *)
LEMMA NextSessionInv == SessionInv /\ [Next]_vars => SessionInv'
<1> SUFFICES ASSUME SessionInv, [Next]_vars PROVE SessionInv'
  OBVIOUS
<1>0. IInv /\ TypeOK /\ \A d \in Conn : ConnInv(d) /\ CommandAt(d) /\ SocketOf(d) /\ Leaving(d)
  BY DEF SessionInv, IInv, ConnInv
<1>1. IInv'
  BY <1>0, NextInv
<1>2. CASE UNCHANGED vars
  BY <1>0, <1>1, <1>2 DEF SessionInv, SocketOf, Leaving, vars, handlerVars, connectionsVars,
     protocolVars
<1>3. ASSUME NEW c \in Conn, Step(c), NEW d \in Conn PROVE SocketOf(d)' /\ Leaving(d)'
  <2>1. CASE d = c
    BY <1>0, <1>3, <2>1, OwnSocket, OwnLeaving
  <2>2. CASE d # c
    <3>1. Undisturbed(d) /\ sock'[d] = sock[d]
          /\ (d \notin activeConnections => connected'[d] = connected[d])
      BY <1>0, <1>3, <2>2, StepElsewhere, SocketElsewhere
    <3> QED BY <1>0, <3>1 DEF Undisturbed, SocketOf, Leaving
  <2> QED BY <2>1, <2>2
<1> QED BY <1>1, <1>2, <1>3 DEF SessionInv, Next, Step

(* SessionInv is an invariant of the server.                               *)
THEOREM SessionInvariance == Spec => []SessionInv
<1>1. Init => SessionInv
  <2> SUFFICES ASSUME Init PROVE SessionInv
    OBVIOUS
  <2>1. IInv
    BY InitInv
  <2>2. \A c \in Conn : SocketOf(c) /\ Leaving(c)
    BY DEF Init, HandlerInit, ConnectionsInit, ProtocolInit, SocketOf, Leaving
  <2> QED BY <2>1, <2>2 DEF SessionInv
<1>2. SessionInv /\ [Next]_vars => SessionInv'
  BY NextSessionInv
<1> QED BY <1>1, <1>2, PTL DEF Spec
-----------------------------------------------------------------------------
(* The three stages of a request, by the state of its thread.              *)
Ended(c) == shouldTerminate[c] \/ pc[c] \in {"crash", "ended"}
Ready(c) == ~shouldTerminate[c] /\ pc[c] \in {"idle", "read", "check"}
Asked(c) == ~shouldTerminate[c] /\ pc[c] \notin {"crash", "ended", "idle", "read", "check"}

(* What the refinement mapping makes of them, before and after a step.     *)
LEMMA StageIs ==
  ASSUME NEW c \in Conn
  PROVE  /\ Ended(c) => SessionStage[c] = "ended" /\ SessionRequest[c] = NONE
         /\ Ready(c) => SessionStage[c] = "ready" /\ SessionRequest[c] = NONE
         /\ Asked(c) => SessionStage[c] = "asked" /\ SessionRequest[c] = frame[c]
  BY DEF Ended, Ready, Asked, SessionStage, SessionRequest

LEMMA StageBecomes ==
  ASSUME NEW c \in Conn
  PROVE  /\ Ended(c)' => SessionStage'[c] = "ended" /\ SessionRequest'[c] = NONE
         /\ Ready(c)' => SessionStage'[c] = "ready" /\ SessionRequest'[c] = NONE
         /\ Asked(c)' => SessionStage'[c] = "asked" /\ SessionRequest'[c] = frame'[c]
  BY DEF Ended, Ready, Asked, SessionStage, SessionRequest

(* A function that changes at one argument is an update of it.             *)
LEMMA OneChange ==
  ASSUME NEW S, NEW f, NEW g, NEW c \in S,
         f = [x \in S |-> f[x]], g = [x \in S |-> g[x]],
         \A d \in S \ {c} : g[d] = f[d]
  PROVE  g = [f EXCEPT ![c] = g[c]]
  OBVIOUS

(* A step moves the request of its own connection only.                    *)
LEMMA OwnRequest ==
  ASSUME TypeOK, NEW c \in Conn, CommandAt(c), Step(c)
  PROVE  /\ SessionStage' = [SessionStage EXCEPT ![c] = SessionStage'[c]]
         /\ SessionRequest' = [SessionRequest EXCEPT ![c] = SessionRequest'[c]]
<1>1. ASSUME NEW d \in Conn \ {c}
      PROVE  SessionStage'[d] = SessionStage[d] /\ SessionRequest'[d] = SessionRequest[d]
  <2>1. pc'[d] = pc[d] /\ frame'[d] = frame[d] /\ shouldTerminate'[d] = shouldTerminate[d]
    BY StepElsewhere DEF Undisturbed
  <2>2. Ended(d) \/ Ready(d) \/ Asked(d)
    BY DEF Ended, Ready, Asked
  <2>3. (Ended(d)' <=> Ended(d)) /\ (Ready(d)' <=> Ready(d)) /\ (Asked(d)' <=> Asked(d))
    BY <2>1 DEF Ended, Ready, Asked
  <2> QED BY <2>1, <2>2, <2>3, StageIs, StageBecomes
<1>2. /\ SessionStage = [d \in Conn |-> SessionStage[d]]
      /\ SessionStage' = [d \in Conn |-> SessionStage'[d]]
  BY DEF SessionStage
<1>3. /\ SessionRequest = [d \in Conn |-> SessionRequest[d]]
      /\ SessionRequest' = [d \in Conn |-> SessionRequest'[d]]
  BY DEF SessionRequest
<1> QED BY <1>1, <1>2, <1>3, OneChange

(* The request stays, or is finished.                                      *)
LEMMA RequestKept ==
  ASSUME TypeOK, NEW c \in Conn, CommandAt(c), Step(c),
         \/ Ended(c) /\ Ended(c)'
         \/ Ready(c) /\ Ready(c)'
         \/ Asked(c) /\ Asked(c)' /\ frame'[c] = frame[c]
  PROVE  UNCHANGED <<SessionStage, SessionRequest>>
<1>1. SessionStage'[c] = SessionStage[c] /\ SessionRequest'[c] = SessionRequest[c]
  BY StageIs, StageBecomes
<1>2. [SessionStage EXCEPT ![c] = SessionStage[c]] = SessionStage
  BY DEF SessionStage
<1>3. [SessionRequest EXCEPT ![c] = SessionRequest[c]] = SessionRequest
  BY DEF SessionRequest
<1> QED BY <1>1, <1>2, <1>3, OwnRequest

LEMMA RequestFinished ==
  ASSUME TypeOK, NEW c \in Conn, CommandAt(c), Step(c), Asked(c)
  PROVE  /\ Ended(c)' => Promised!Finish(c, "ended")
         /\ Ready(c)' => Promised!Finish(c, "ready")
  BY StageIs, StageBecomes, OwnRequest DEF Promised!Finish

(* Nothing of the connection is seen while its handler works.              *)
LEMMA Unseen ==
  ASSUME UNCHANGED handlerVars
  PROVE  UNCHANGED <<SessionLink, SessionAnswers>>
  BY DEF handlerVars, SessionLink, SessionAnswers

LEMMA LinkIs ==
  ASSUME NEW c \in Conn
  PROVE  SessionLink[c] = IF sock[c] = "open" /\ ~connected[c] THEN "broken" ELSE sock[c]
  BY DEF SessionLink

(* The commands of a longer sequence of frames.                            *)
Answered == {"MESSAGE", "CONNECTED", "RECEIPT", "ERROR"}

LEMMA CommandsAppend ==
  ASSUME NEW s \in Seq(ServerFrame), NEW f \in ServerFrame
  PROVE  [i \in DOMAIN Append(s, f) |-> Append(s, f)[i].cmd] =
           Append([i \in DOMAIN s |-> s[i].cmd], f.cmd)
<1> DEFINE commands == [i \in DOMAIN s |-> s[i].cmd]
           longer == [i \in DOMAIN Append(s, f) |-> Append(s, f)[i].cmd]
<1>1. \A g \in ServerFrame : g.cmd \in Answered
  BY DEF ServerFrame, Message, Reply, Answered
<1>2. Len(s) \in Nat /\ DOMAIN s = 1..Len(s) /\ \A i \in 1..Len(s) : s[i] \in ServerFrame
  OBVIOUS
<1>3. commands \in [1..Len(s) -> Answered]
  BY <1>1, <1>2
<1>4. commands \in Seq(Answered) /\ Len(commands) = Len(s)
  BY <1>2, <1>3
<1>5. /\ DOMAIN Append(commands, f.cmd) = 1..(Len(s) + 1)
      /\ \A i \in 1..Len(s) : Append(commands, f.cmd)[i] = commands[i]
      /\ Append(commands, f.cmd)[Len(s) + 1] = f.cmd
      /\ Append(commands, f.cmd) = [i \in 1..(Len(s) + 1) |-> Append(commands, f.cmd)[i]]
  <2> HIDE DEF commands
  <2>1. f.cmd \in Answered
    BY <1>1
  <2> QED BY <1>2, <1>4, <2>1
<1>6. /\ DOMAIN Append(s, f) = 1..(Len(s) + 1)
      /\ \A i \in 1..Len(s) : Append(s, f)[i] = s[i]
      /\ Append(s, f)[Len(s) + 1] = f
  BY <1>2
<1>7. longer = [i \in 1..(Len(s) + 1) |-> longer[i]]
  BY <1>6
<1>8. \A i \in 1..(Len(s) + 1) : longer[i] = Append(commands, f.cmd)[i]
  BY <1>2, <1>5, <1>6
<1> QED BY <1>5, <1>7, <1>8

(* A write appends its frame, breaks the link, or finds it broken.         *)
LEMMA WriteSeen ==
  ASSUME TypeOK, NEW e \in Conn, NEW f \in ServerFrame, SendTo(e, f)
  PROVE  \/ Promised!Write(e, f.cmd)
         \/ /\ SessionLink[e] = "open"
            /\ SessionLink' = [SessionLink EXCEPT ![e] = "broken"]
            /\ UNCHANGED SessionAnswers
         \/ /\ e \in activeConnections /\ sock[e] = "open" => SessionLink[e] = "broken"
            /\ UNCHANGED <<SessionLink, SessionAnswers>>
<1>0. /\ sock \in [Conn -> {"none", "open", "closed"}]
      /\ connected \in [Conn -> BOOLEAN]
      /\ out \in [Conn -> Seq(ServerFrame)]
  BY DEF TypeOK
<1>l. /\ SessionLink = [d \in Conn |-> SessionLink[d]]
      /\ SessionLink' = [d \in Conn |-> SessionLink'[d]]
  BY DEF SessionLink
<1>1. CASE e \notin activeConnections
  BY <1>1, Unseen DEF SendTo
<1>2. CASE WriteSucceeds(e, f)
  <2>1. SessionLink[e] = "open" /\ UNCHANGED SessionLink
    BY <1>2, LinkIs DEF WriteSucceeds, SessionLink
  <2>3. SessionAnswers'[e] = Append(SessionAnswers[e], f.cmd)
    <3>1. out'[e] = Append(out[e], f) /\ out[e] \in Seq(ServerFrame)
      BY <1>0, <1>2 DEF WriteSucceeds
    <3> QED BY <3>1, CommandsAppend DEF SessionAnswers
  <2>4. \A d \in Conn \ {e} : SessionAnswers'[d] = SessionAnswers[d]
    BY <1>0, <1>2 DEF WriteSucceeds, SessionAnswers
  <2>5. /\ SessionAnswers = [d \in Conn |-> SessionAnswers[d]]
        /\ SessionAnswers' = [d \in Conn |-> SessionAnswers'[d]]
    BY DEF SessionAnswers
  <2>6. SessionAnswers' = [SessionAnswers EXCEPT ![e] = SessionAnswers'[e]]
    BY <2>4, <2>5, OneChange
  <2> QED BY <2>1, <2>3, <2>6 DEF Promised!Write
<1>3. CASE e \in activeConnections /\ WriteFails(e)
  <2>1. UNCHANGED SessionAnswers
    BY <1>3 DEF WriteFails, SessionAnswers
  <2>2. \A d \in Conn \ {e} : SessionLink'[d] = SessionLink[d]
    BY <1>0, <1>3 DEF WriteFails, SessionLink
  <2>3. SessionLink' = [SessionLink EXCEPT ![e] = SessionLink'[e]]
    BY <1>l, <2>2, OneChange
  <2>4. SessionLink'[e] = IF sock[e] = "open" THEN "broken" ELSE sock[e]
    BY <1>0, <1>3 DEF WriteFails, SessionLink
  <2>5. CASE SessionLink[e] = "open"
    BY <1>0, <2>1, <2>3, <2>4, <2>5, LinkIs
  <2>6. CASE SessionLink[e] # "open"
    <3>1. SessionLink'[e] = SessionLink[e] /\ (sock[e] = "open" => SessionLink[e] = "broken")
      BY <1>0, <2>4, <2>6, LinkIs
    <3>2. [SessionLink EXCEPT ![e] = SessionLink[e]] = SessionLink
      BY DEF SessionLink
    <3> QED BY <2>1, <2>3, <3>1, <3>2
  <2> QED BY <2>5, <2>6
<1> QED BY <1>1, <1>2, <1>3 DEF SendTo, Write

(* The server closes its socket.                                           *)
LEMMA CloseSeen ==
  ASSUME TypeOK, NEW c \in Conn, Close(c) \/ AutoClose(c), sock[c] # "none"
  PROVE  /\ SessionLink' = [SessionLink EXCEPT ![c] = "closed"]
         /\ UNCHANGED SessionAnswers
         /\ SessionLink[c] \in {"open", "broken"} \/ UNCHANGED SessionLink
<1>0. /\ sock \in [Conn -> {"none", "open", "closed"}]
      /\ connected \in [Conn -> BOOLEAN]
  BY DEF TypeOK
<1>l. /\ SessionLink = [d \in Conn |-> SessionLink[d]]
      /\ SessionLink' = [d \in Conn |-> SessionLink'[d]]
  BY DEF SessionLink
<1>1. sock' = [sock EXCEPT ![c] = "closed"] /\ out' = out
      /\ \A d \in Conn \ {c} : connected'[d] = connected[d]
  BY <1>0 DEF Close, AutoClose
<1>2. \A d \in Conn \ {c} : SessionLink'[d] = SessionLink[d]
  BY <1>0, <1>1 DEF SessionLink
<1>3. SessionLink'[c] = "closed"
  BY <1>0, <1>1 DEF SessionLink
<1>4. SessionLink' = [SessionLink EXCEPT ![c] = "closed"]
  BY <1>l, <1>2, <1>3, OneChange
<1>5. CASE sock[c] = "closed"
  <2>1. SessionLink[c] = "closed"
    BY <1>5, LinkIs
  <2>2. [SessionLink EXCEPT ![c] = SessionLink[c]] = SessionLink
    BY DEF SessionLink
  <2> QED BY <1>1, <1>4, <2>1, <2>2 DEF SessionAnswers
<1>6. CASE sock[c] = "open"
  BY <1>1, <1>4, <1>6, LinkIs DEF SessionAnswers
<1> QED BY <1>0, <1>5, <1>6
-----------------------------------------------------------------------------
(* What a client sees of one step: a step of one session, or nothing.      *)
SessionStep == [\E c \in Conn : Promised!Step(c)]_(Promised!sessionVars)

LEMMA NothingSeen ==
  ASSUME UNCHANGED <<SessionStage, SessionRequest, SessionLink, SessionAnswers>>
  PROVE  SessionStep
  BY DEF SessionStep, Promised!sessionVars

(* Where a thread can be that is serving a request, that waits for one, or *)
(* that has ended; the socket is open unless it has.                       *)
LEMMA SocketOpen ==
  ASSUME TypeOK, NEW c \in Conn, ConnInv(c), SocketOf(c),
         pc[c] \notin {"idle", "crash", "ended"}, ~shouldTerminate[c] \/ pc[c] = "disconnect"
  PROVE  c \in activeConnections /\ sock[c] = "open" /\ SessionLink[c] \in {"open", "broken"}
<1>1. c \in activeConnections
  BY DEF ConnInv, ActiveUntilGone
<1>2. sock[c] = "open"
  BY <1>1 DEF SocketOf
<1> QED BY <1>1, <1>2, LinkIs

(* The steps of a handler that the client does not see.                    *)
LEMMA HandlerWorks ==
  ASSUME TypeOK, NEW c \in Conn, CommandAt(c), Step(c), UNCHANGED handlerVars,
         \/ Ended(c) /\ Ended(c)'
         \/ Asked(c) /\ Asked(c)' /\ frame'[c] = frame[c]
  PROVE  SessionStep
  BY RequestKept, Unseen, NothingSeen

(* The end of a request without an answer: a logout, or an exception.      *)
LEMMA HandlerEnds ==
  ASSUME TypeOK, NEW c \in Conn, CommandAt(c), Step(c), UNCHANGED handlerVars,
         Asked(c), Ended(c)', frame[c] \in Frame,
         frame[c].cmd \in {"DISCONNECT", "CONNECT", "UNSUBSCRIBE"}
  PROVE  SessionStep
<1>1. SessionRequest[c] = frame[c] /\ SessionRequest[c] # NONE
  BY StageIs, NoneIsNoFrame
<1>2. Promised!End(c)
  BY <1>1, Unseen, RequestFinished DEF Promised!End
<1> QED BY <1>1, <1>2 DEF SessionStep, Promised!Step, Promised!Serve

(* An answer is written, or the link is broken when it is due.             *)
LEMMA HandlerAnswers ==
  ASSUME TypeOK, NEW c \in Conn, ConnInv(c), SocketOf(c), Step(c),
         NEW command \in {"CONNECTED", "RECEIPT", "ERROR"}, SendTo(c, Answer(command)),
         Asked(c), frame[c] \in Frame,
         \/ /\ command = "ERROR"
            /\ frame[c].cmd # "DISCONNECT"
            /\ Ended(c)'
         \/ /\ command = "CONNECTED"
            /\ frame[c].cmd = "CONNECT"
            /\ Ready(c)'
         \/ /\ command = "RECEIPT"
            /\ frame[c].cmd \in {"SUBSCRIBE", "UNSUBSCRIBE", "SEND"} /\ frame[c].receipt
            /\ Ready(c)'
  PROVE  SessionStep
<1>1. SessionRequest[c] = frame[c] /\ SessionRequest[c] # NONE
  BY StageIs, NoneIsNoFrame
<1>2. c \in activeConnections /\ sock[c] = "open" /\ SessionLink[c] \in {"open", "broken"}
  BY SocketOpen DEF Asked
<1>3. CommandAt(c)
  BY DEF ConnInv
<1>4. Answer(command) \in ServerFrame /\ Answer(command).cmd = command
  BY DEF Answer, ServerFrame, Reply
<1>5. CASE Promised!Write(c, command)
  <2>1. Promised!Accept(c) \/ Promised!Refuse(c)
    BY <1>1, <1>3, <1>5, RequestFinished DEF Promised!Accept, Promised!Refuse
  <2> QED BY <1>1, <2>1 DEF SessionStep, Promised!Step, Promised!Serve
<1>6. CASE SessionLink' = [SessionLink EXCEPT ![c] = "broken"] /\ UNCHANGED SessionAnswers
  <2>1. Promised!AnswerLost(c)
    BY <1>2, <1>3, <1>6, RequestFinished DEF Promised!AnswerLost
  <2> QED BY <1>1, <2>1 DEF SessionStep, Promised!Step, Promised!Serve
<1>7. CASE SessionLink[c] = "broken" /\ UNCHANGED <<SessionLink, SessionAnswers>>
  <2>1. [SessionLink EXCEPT ![c] = SessionLink[c]] = SessionLink
    BY DEF SessionLink
  <2> QED BY <1>6, <1>7, <2>1
<1> QED BY <1>2, <1>4, <1>5, <1>6, <1>7, WriteSeen

(* The thread waits for its next request, or ends.                         *)
LEMMA LinkCloses ==
  ASSUME TypeOK, NEW c \in Conn, ConnInv(c), SocketOf(c), Step(c),
         Close(c) \/ AutoClose(c), pc[c] # "idle", Ready(c) \/ Ended(c), Ended(c)'
  PROVE  SessionStep
<1>0. CommandAt(c)
  BY DEF ConnInv
<1>1. /\ SessionLink' = [SessionLink EXCEPT ![c] = "closed"]
      /\ UNCHANGED SessionAnswers
      /\ SessionLink[c] \in {"open", "broken"} \/ UNCHANGED SessionLink
  BY CloseSeen DEF SocketOf
<1>2. /\ SessionStage[c] \in {"ready", "ended"} /\ SessionStage'[c] = "ended"
      /\ SessionRequest[c] = NONE /\ SessionRequest'[c] = NONE
  BY StageIs, StageBecomes
<1>3. SessionStage' = [SessionStage EXCEPT ![c] = "ended"] /\ UNCHANGED SessionRequest
  <2>1. [SessionRequest EXCEPT ![c] = SessionRequest[c]] = SessionRequest
    BY DEF SessionRequest
  <2>2. /\ SessionStage' = [SessionStage EXCEPT ![c] = SessionStage'[c]]
        /\ SessionRequest' = [SessionRequest EXCEPT ![c] = SessionRequest'[c]]
    BY <1>0, OwnRequest
  <2> QED BY <1>2, <2>1, <2>2
<1>4. CASE SessionLink[c] \in {"open", "broken"}
  <2>1. Promised!Close(c)
    BY <1>1, <1>2, <1>3, <1>4 DEF Promised!Close
  <2> QED BY <2>1 DEF SessionStep, Promised!Step
<1>5. CASE UNCHANGED SessionLink /\ Ended(c)
  BY <1>0, <1>1, <1>5, RequestKept, NothingSeen
<1>6. CASE Ready(c)
  <2>1. SessionLink[c] \in {"open", "broken"}
    BY <1>6, SocketOpen DEF Ready
  <2> QED BY <1>4, <2>1
<1> QED BY <1>1, <1>4, <1>5, <1>6

(* A message for one connection is seen there, unless its link is broken.  *)
LEMMA DeliverSeen ==
  ASSUME TypeOK, NEW c \in Conn, ConnInv(c), Leaving(c), Step(c), Deliver(c)
  PROVE  SessionStep
<1> USE DEF At
<1>1. CommandAt(c) /\ pc[c] = "deliver"
  BY DEF Deliver, ConnInv
<1>2. UNCHANGED <<SessionStage, SessionRequest>>
  <2>1. Asked(c) /\ Asked(c)' /\ frame' = frame
    BY <1>1 DEF Leaving, Asked, Deliver, Goto, TypeOK
  <2> QED BY <1>1, <2>1, RequestKept
<1>3. PICK e \in Conn : e = target[c].to
  BY <1>1 DEF CommandAt, Target
<1>4. SendTo(e, MessageOf(c)) /\ MessageOf(c) \in ServerFrame /\ MessageOf(c).cmd = "MESSAGE"
  <2>1. MessageOf(c) \in Message
    BY <1>1, MessageType
  <2> QED BY <1>3, <2>1 DEF Deliver, ServerFrame, Message
<1>5. CASE Promised!Write(e, "MESSAGE")
  BY <1>2, <1>5 DEF SessionStep, Promised!Step, Promised!Message
<1>6. CASE SessionLink[e] = "open" /\ SessionLink' = [SessionLink EXCEPT ![e] = "broken"]
           /\ UNCHANGED SessionAnswers
  BY <1>2, <1>6 DEF SessionStep, Promised!Step, Promised!Break
<1>7. CASE UNCHANGED <<SessionLink, SessionAnswers>>
  BY <1>2, <1>7, NothingSeen
<1> QED BY <1>4, <1>5, <1>6, <1>7, WriteSeen

(* Every step of a thread is a step of StompSession, or a stutter.         *)
LEMMA StepSeen ==
  ASSUME TypeOK, NEW c \in Conn, ConnInv(c), SocketOf(c), Leaving(c), Step(c)
  PROVE  SessionStep
<1> USE DEF Goto, At
<1>0. /\ pc \in [Conn -> Label]
      /\ frame \in [Conn -> Frame \cup {NONE}]
      /\ shouldTerminate \in [Conn -> BOOLEAN]
      /\ CommandAt(c)
  BY DEF TypeOK, ConnInv
<1>1. CASE Accept(c)
  <2>1. Ready(c) /\ Ready(c)' /\ pc[c] = "idle"
    BY <1>0, <1>1 DEF Accept, localVars, Ready, Leaving
  <2>2. UNCHANGED <<SessionStage, SessionRequest>>
    BY <1>0, <2>1, RequestKept
  <2>3. SessionLink[c] = "none"
    BY <2>1, LinkIs DEF SocketOf
  <2>4. SessionLink' = [SessionLink EXCEPT ![c] = "open"] /\ UNCHANGED SessionAnswers
    <3>1. /\ SessionLink = [d \in Conn |-> SessionLink[d]]
          /\ SessionLink' = [d \in Conn |-> SessionLink'[d]]
      BY DEF SessionLink
    <3>2. SessionLink'[c] = "open" /\ \A d \in Conn \ {c} : SessionLink'[d] = SessionLink[d]
      BY <1>1, <2>1 DEF Accept, Open, SocketOf, SessionLink, TypeOK
    <3> QED BY <1>1, <3>1, <3>2, OneChange DEF Accept, Open, SessionAnswers
  <2>5. Promised!Open(c)
    BY <2>2, <2>3, <2>4 DEF Promised!Open
  <2> QED BY <2>5 DEF SessionStep, Promised!Step
<1>2. CASE Read(c)
  <2>1. PICK f \in Frame : Process(c, f)
    BY <1>2, ReadFrame
  <2>2. Ready(c) /\ Asked(c)' /\ UNCHANGED handlerVars /\ pc[c] = "read" /\ ~shouldTerminate[c]
    <3>1. f.cmd \in Command
      BY DEF Frame
    <3> QED BY <1>0, <2>1, <3>1 DEF Process, Ready, Asked, Command, Leaving
  <2>3. SessionLink[c] \in {"open", "broken"}
    BY <2>2, SocketOpen
  <2>4. Promised!Take(c, SessionRequest'[c])
    BY <1>0, <2>2, <2>3, StageIs, StageBecomes, OwnRequest, Unseen DEF Promised!Take
  <2> QED BY <2>4 DEF SessionStep, Promised!Step
<1>3. CASE StopReading(c)
  BY <1>0, <1>3, LinkCloses DEF StopReading, localVars, Ready, Ended
<1>4. CASE Unwind(c)
  BY <1>0, <1>4, LinkCloses DEF Unwind, localVars, Ready, Ended
<1>5. CASE Return(c)
  <2>1. shouldTerminate' = shouldTerminate /\ pc[c] = "check"
    BY <1>5 DEF Return
  <2>2. CASE shouldTerminate[c] \/ ~connected[c]
    BY <1>0, <1>5, <2>1, <2>2, LinkCloses DEF Return, Ready, Ended
  <2>3. CASE ~shouldTerminate[c] /\ connected[c]
    <3>1. Ready(c) /\ Ready(c)' /\ UNCHANGED handlerVars
      BY <1>0, <1>5, <2>1, <2>3 DEF Return, Ready
    <3> QED BY <1>0, <3>1, RequestKept, Unseen, NothingSeen
  <2> QED BY <2>2, <2>3
<1>6. CASE ProtocolStep(c)
  <2>1. CASE Connected(c)
    BY <1>0, <2>1, HandlerAnswers DEF Connected, CommandAt, Label, Asked, Ready, Leaving, localVars
  <2>2. CASE Refuse(c)
    BY <1>0, <2>2, HandlerAnswers DEF Refuse, Terminate, CommandAt, Label, Asked, Ended, Leaving
  <2>3. CASE Error(c)
    BY <1>0, <2>3, HandlerAnswers DEF Error, Terminate, CommandAt, Label, Asked, Ended, Leaving
  <2>4. CASE Receipt(c)
    <3>1. frame[c].cmd \in {"SUBSCRIBE", "UNSUBSCRIBE", "SEND", "DISCONNECT"} /\ frame[c] \in Frame
          /\ UNCHANGED <<frame, shouldTerminate>> /\ pc[c] = "receipt"
      BY <1>0, <2>4 DEF Receipt, ConnInv, Done, CommandAt, Label, localVars
    <3>2. CASE frame[c].cmd = "DISCONNECT"
      <4>1. Ended(c) /\ Ended(c)' /\ c \notin activeConnections
        BY <3>1, <3>2 DEF ConnInv, ActiveUntilGone, Ended
      <4>2. UNCHANGED handlerVars
        BY <2>4, <4>1 DEF Receipt, SendTo
      <4> QED BY <1>0, <4>1, <4>2, HandlerWorks
    <3>3. CASE frame[c].cmd # "DISCONNECT"
      <4>1. Asked(c) /\ Ready(c)'
        BY <1>0, <2>4, <3>1, <3>3 DEF Receipt, Asked, Ready, Leaving
      <4>2. CASE frame[c].receipt
        BY <2>4, <3>1, <3>3, <4>1, <4>2, HandlerAnswers DEF Receipt
      <4>3. CASE ~frame[c].receipt
        <5>1. SessionRequest[c] = frame[c] /\ SessionRequest[c] # NONE
          BY <3>1, <4>1, StageIs, NoneIsNoFrame
        <5>2. UNCHANGED <<SessionLink, SessionAnswers>>
          BY <2>4, <4>3, Unseen DEF Receipt
        <5>3. Promised!AcceptSilently(c)
          BY <1>0, <3>1, <3>3, <4>1, <4>3, <5>1, <5>2, RequestFinished DEF Promised!AcceptSilently
        <5> QED BY <5>1, <5>3 DEF SessionStep, Promised!Step, Promised!Serve
      <4> QED BY <4>2, <4>3
    <3> QED BY <3>2, <3>3
  <2>5. CASE Deliver(c)
    BY <2>5, DeliverSeen
  <2>6. CASE LeaveServer(c)
    <3>1. c \in activeConnections /\ Ended(c) /\ Ended(c)' /\ pc[c] # "idle"
      BY <2>6 DEF LeaveServer, ConnInv, ActiveUntilGone, Ended, localVars
    <3>2. Close(c)
      BY <2>6, <3>1 DEF LeaveServer, RemoveHandler
    <3> QED BY <3>1, <3>2, LinkCloses
  <2>7. CASE Disconnect(c)
    <3>1. Asked(c) /\ frame[c] \in Frame /\ frame[c].cmd = "DISCONNECT"
      BY <1>0, <2>7 DEF Disconnect, CommandAt, Label, Command, Asked, Leaving
    <3>2. Ended(c)' /\ UNCHANGED handlerVars
      BY <1>0, <2>7 DEF Disconnect, Terminate, Ended
    <3> QED BY <1>0, <3>1, <3>2, HandlerEnds
  <2>8. ASSUME Asked(c), frame[c] \in Frame, UNCHANGED <<frame, shouldTerminate, handlerVars>>,
               pc'[c] \notin {"idle", "read", "check", "ended"},
               pc'[c] = "crash" => frame[c].cmd \in {"CONNECT", "UNSUBSCRIBE"}
        PROVE  SessionStep
    <3>1. CASE pc'[c] = "crash"
      BY <1>0, <2>8, <3>1, HandlerEnds DEF Ended
    <3>2. CASE pc'[c] # "crash"
      BY <1>0, <2>8, <3>2, HandlerWorks DEF Asked
    <3> QED BY <3>1, <3>2
  <2>9. CASE Connect(c) \/ Register(c)
    <3>1. Asked(c) /\ frame[c] \in Frame /\ frame[c].cmd = "CONNECT"
      BY <1>0, <2>9 DEF Connect, Register, Asked, Leaving, CommandAt, Label, Command
    <3>2. UNCHANGED <<frame, shouldTerminate, handlerVars>>
          /\ pc'[c] \notin {"idle", "read", "check", "ended"}
      BY <1>0, <2>9 DEF Connect, Register, localVars
    <3> QED BY <2>8, <3>1, <3>2
  <2>10. ASSUME NEW t \in Topic, VisitTopic(c, t) PROVE SessionStep
    <3>1. Asked(c) /\ frame[c] \in Frame /\ frame[c].cmd = "UNSUBSCRIBE"
      BY <1>0, <2>10 DEF VisitTopic, Asked, Leaving, CommandAt, Label
    <3>2. UNCHANGED <<frame, shouldTerminate, handlerVars>>
          /\ pc'[c] \in {"unsubscribe", "crash"}
      BY <1>0, <2>10 DEF VisitTopic
    <3> QED BY <2>8, <3>1, <3>2
  <2>11. ASSUME NEW t \in Topic, LeaveTopic(c, t) PROVE SessionStep
    BY <1>0, <2>11, HandlerWorks DEF LeaveTopic, Ended, ConnInv, ActiveUntilGone
  <2>12. CASE \/ Verify(c) \/ CheckOnline(c) \/ Login(c) \/ Session(c) \/ Subscribe(c)
              \/ Unsubscribe(c) \/ EndUnsubscribe(c) \/ Send(c) \/ EndBroadcast(c)
              \/ \E d \in Conn : VisitSubscriber(c, d)
    <3>1. Asked(c) /\ frame[c] \in Frame
      BY <1>0, <2>12 DEF Verify, CheckOnline, Login, Session, Subscribe, Unsubscribe,
         EndUnsubscribe, Send, EndBroadcast, VisitSubscriber, Asked, Leaving, CommandAt, Label, Command
    <3>2. UNCHANGED <<frame, shouldTerminate, handlerVars>>
          /\ pc'[c] \notin {"idle", "read", "check", "ended", "crash"}
      BY <1>0, <2>12 DEF Verify, CheckOnline, Login, Session, Subscribe, Unsubscribe,
         EndUnsubscribe, Send, EndBroadcast, VisitSubscriber, localVars
    <3> QED BY <2>8, <3>1, <3>2
  <2> QED BY <1>6, <2>1, <2>2, <2>3, <2>4, <2>5, <2>6, <2>7, <2>8, <2>9, <2>10, <2>11, <2>12
          DEF ProtocolStep
<1> QED BY <1>1, <1>2, <1>3, <1>4, <1>5, <1>6 DEF Step, ThreadStep

(* What the client of a connection sees is a session as StompSession       *)
(* promises it: one answer per request, in order, none after ERROR,        *)
(* whatever the threads of the other connections do.                       *)
THEOREM SessionsServed == Spec => SessionServed
<1>1. Init => Promised!SessionInit
  <2> SUFFICES ASSUME Init PROVE Promised!SessionInit
    OBVIOUS
  <2>1. ASSUME NEW c \in Conn
        PROVE  /\ SessionLink[c] = "none"
               /\ SessionStage[c] = "ready" /\ SessionRequest[c] = NONE
               /\ SessionAnswers[c] = <<>>
    <3>1. Ready(c) /\ sock[c] = "none" /\ out[c] = <<>>
      BY DEF Init, HandlerInit, ProtocolInit, Ready
    <3> QED BY <3>1, StageIs, LinkIs DEF SessionAnswers
  <2>2. /\ SessionLink = [c \in Conn |-> SessionLink[c]]
        /\ SessionStage = [c \in Conn |-> SessionStage[c]]
        /\ SessionRequest = [c \in Conn |-> SessionRequest[c]]
        /\ SessionAnswers = [c \in Conn |-> SessionAnswers[c]]
    BY DEF SessionLink, SessionStage, SessionRequest, SessionAnswers
  <2> QED BY <2>1, <2>2 DEF Promised!SessionInit
<1>2. SessionInv /\ [Next]_vars => SessionStep
  <2> SUFFICES ASSUME SessionInv, [Next]_vars PROVE SessionStep
    OBVIOUS
  <2>1. CASE UNCHANGED vars
    BY <2>1, NothingSeen DEF vars, handlerVars, protocolVars, SessionStage, SessionRequest,
       SessionLink, SessionAnswers
  <2>2. ASSUME NEW c \in Conn, Step(c) PROVE SessionStep
    BY <2>2, StepSeen DEF SessionInv, IInv
  <2> QED BY <2>1, <2>2 DEF Next, Step
<1>3. SessionInv /\ [Next]_vars => [\E c \in Conn : Promised!Step(c)]_(Promised!sessionVars)
  BY <1>2 DEF SessionStep
<1> QED
  BY <1>1, <1>3, SessionInvariance, PTL DEF Spec, SessionServed, Promised!SessionSpec
=============================================================================
