------------------------ MODULE ThreadPerClient_proofs ------------------------
(***************************************************************************)
(* The safety properties of the thread-per-client server, for any number   *)
(* of connections, users, topics and frames.                               *)
(*                                                                         *)
(* A step belongs to one thread.  TypeStep shows that it keeps the types,  *)
(* OthersKeep that it leaves every other thread its invariant, and the     *)
(* lemmas after them, one for each part of ConnInv, that it establishes    *)
(* the invariant of its own thread again.                                  *)
(***************************************************************************)
EXTENDS ThreadPerClientInvariant, TLAPS

Step(c) == Accept(c) \/ Read(c) \/ StopReading(c) \/ ThreadStep(c)

(* The initial state satisfies the inductive invariant.                    *)
LEMMA InitInv == Init => IInv
<1> SUFFICES ASSUME Init PROVE IInv
  OBVIOUS
<1> USE NoneAssumption DEF Init, HandlerInit, ConnectionsInit, ProtocolInit
<1>1. TypeOK
  BY DEF TypeOK, Label
<1>2. ASSUME NEW c \in Conn PROVE ConnInv(c)
  <2>1. pc[c] = "idle" /\ c \notin activeConnections /\ out[c] = <<>>
    OBVIOUS
  <2>2. \A t \in Topic : topicSubscribers[t][c] = NONE
    OBVIOUS
  <2>3. CommandAt(c) /\ ActiveUntilGone(c) /\ AuthorSubscribed(c) /\ Done(c)
    BY <2>1 DEF CommandAt, ActiveUntilGone, AuthorSubscribed, Done, Command
  <2>4. EntriesOf(c) /\ Ahead(c)
    BY <2>1, <2>2 DEF EntriesOf, Ahead, isSubscribed
  <2>5. ErrorSent(c) /\ SessionBuilt(c)
    BY <2>1 DEF ErrorSent, SessionBuilt, Answers
  <2> QED BY <2>3, <2>4, <2>5 DEF ConnInv
<1> QED BY <1>1, <1>2 DEF IInv
-----------------------------------------------------------------------------
(* In process() the frame at hand is one a client can send.                *)
LEMMA FrameFields ==
  ASSUME NEW c \in Conn, CommandAt(c), pc[c] \in Label \ {"idle", "read", "ended"}
  PROVE  /\ frame[c] \in Frame
         /\ frame[c].cmd \in Command
         /\ frame[c].login \in User \cup {NONE}
         /\ frame[c].passcode \in Pass \cup {NONE}
         /\ frame[c].destination \in Topic \cup {NONE}
         /\ frame[c].id \in SubId \cup {NONE}
  BY DEF CommandAt, Frame

(* The answers a thread writes, and the messages it passes on, are frames  *)
(* of the right kind.                                                      *)
LEMMA SendToType ==
  ASSUME TypeOK, NEW d \in Conn, NEW f \in ServerFrame, SendTo(d, f)
  PROVE  /\ sock' = sock
         /\ connected' \in [Conn -> BOOLEAN]
         /\ out' \in [Conn -> Seq(ServerFrame)]
<1>1. CASE UNCHANGED handlerVars
  BY <1>1 DEF TypeOK, handlerVars
<1>2. CASE WriteSucceeds(d, f)
  BY <1>2 DEF TypeOK, WriteSucceeds
<1>3. CASE WriteFails(d)
  <2>1. UNCHANGED <<sock, out>> /\ connected' = [connected EXCEPT ![d] = FALSE]
    BY <1>3 DEF WriteFails
  <2> QED BY <2>1 DEF TypeOK
<1> QED BY <1>1, <1>2, <1>3 DEF SendTo, Write

LEMMA AnswerType ==
  ASSUME NEW command \in {"CONNECTED", "RECEIPT", "ERROR"}
  PROVE  Answer(command) \in ServerFrame
  BY DEF Answer, ServerFrame, Reply

LEMMA MessageType ==
  ASSUME TypeOK, NEW c \in Conn, CommandAt(c), At(c, "deliver")
  PROVE  MessageOf(c) \in Message /\ target[c].to \in Conn
  BY DEF TypeOK, CommandAt, At, MessageOf, Message, Target

(* An entry goes and the traversals of its topic forget it.                *)
LEMMA RemoveEntryType ==
  ASSUME TypeOK, NEW c \in Conn, NEW t \in Topic, RemoveEntry(c, t)
  PROVE  /\ topicSubscribers' \in [Topic -> [Conn -> SubId \cup {NONE}]]
         /\ present' \in [Conn -> SUBSET (Topic \cup Conn)]
         /\ seen' \in [Conn -> SUBSET (Topic \cup Conn)]
         /\ UNCHANGED <<activeConnections, topics, registedClients, LoggedIn, idToUsername>>
  BY DEF TypeOK, RemoveEntry, RemoveSubscriber

LEMMA GotoType ==
  ASSUME TypeOK, NEW c \in Conn, NEW l \in Label, Goto(c, l)
  PROVE  pc' \in [Conn -> Label]
  BY DEF TypeOK, Goto

(* A new entry is the id the client chose.                                 *)
LEMMA AddSubscriberType ==
  ASSUME TypeOK, NEW c \in activeConnections, NEW id \in SubId, NEW t \in Topic,
         AddSubscriber(c, id, t)
  PROVE  /\ topics' \subseteq Topic
         /\ topicSubscribers' \in [Topic -> [Conn -> SubId \cup {NONE}]]
<1>1. /\ topics' = topics \cup {t}
      /\ topicSubscribers' = [topicSubscribers EXCEPT ![t][c] = id]
  BY DEF AddSubscriber
<1>2. topics \subseteq Topic /\ topicSubscribers \in [Topic -> [Conn -> SubId \cup {NONE}]]
  BY DEF TypeOK
<1> QED BY <1>1, <1>2

(* Where the handlers go that test their frame first.                      *)
LEMMA BranchType ==
  ASSUME TypeOK, NEW c \in Conn,
         Subscribe(c) \/ Unsubscribe(c) \/ Send(c) \/ (\E t \in Topic : VisitTopic(c, t))
  PROVE  pc' \in [Conn -> Label]
<1>1. pc \in [Conn -> Label]
  BY DEF TypeOK
<1>2. CASE Subscribe(c)
  <2>1. Goto(c, "error") \/ Goto(c, "receipt")
    BY <1>2 DEF Subscribe
  <2> QED BY <2>1, GotoType DEF Label
<1>3. CASE Unsubscribe(c)
  <2>1. Goto(c, "error") \/ Goto(c, "unsubscribe")
    BY <1>3 DEF Unsubscribe
  <2> QED BY <2>1, GotoType DEF Label
<1>4. CASE Send(c)
  <2>1. Goto(c, "error") \/ Goto(c, "broadcast")
    BY <1>4 DEF Send
  <2> QED BY <2>1, GotoType DEF Label
<1>5. CASE \E t \in Topic : VisitTopic(c, t)
  <2>1. UNCHANGED pc \/ Goto(c, "crash")
    BY <1>5 DEF VisitTopic
  <2> QED BY <1>1, <2>1, GotoType DEF Label
<1> QED BY <1>2, <1>3, <1>4, <1>5

(* Every step of a thread keeps every variable within its type.            *)
LEMMA TypeStep ==
  ASSUME TypeOK, NEW c \in Conn, CommandAt(c), Step(c)
  PROVE  TypeOK'
<1> USE DEF Goto, At, TypeOK, Label, Command, handlerVars, connectionsVars, localVars
<1>1. CASE Accept(c)
  BY <1>1 DEF Accept, Open, AddConnection
<1>2. CASE Read(c)
  <2>1. PICK f \in ClientFrames[c] : Process(c, f)
    BY <1>2 DEF Read
  <2>2. f \in Frame /\ f.cmd \in Command
    BY FramesAssumption DEF Frame
  <2>3. pc' \in [Conn -> Label] /\ frame' \in [Conn -> Frame \cup {NONE}]
    BY <2>1, <2>2 DEF Process
  <2>4. reads' \in [Conn -> Nat]
    BY <1>2 DEF Read
  <2> QED BY <2>1, <2>3, <2>4 DEF Process
<1>3. CASE StopReading(c)
  BY <1>3 DEF StopReading, AutoClose
<1>4. CASE Return(c)
  BY <1>4 DEF Return, Close, AutoClose, BeginTraversal
<1>5. CASE Unwind(c)
  BY <1>5 DEF Unwind, AutoClose
<1>6. CASE ProtocolStep(c) /\ UNCHANGED reads
  <2>1. CASE Connect(c)
    BY <2>1, <1>6 DEF Connect
  <2>2. CASE Register(c)
    BY <2>2, <1>6, FrameFields DEF Register, PutRegisted
  <2>3. CASE Verify(c)
    BY <2>3, <1>6 DEF Verify
  <2>4. CASE CheckOnline(c)
    BY <2>4, <1>6 DEF CheckOnline
  <2>5. CASE Login(c)
    BY <2>5, <1>6, FrameFields DEF Login, PutLoggedIn, Terminate
  <2>6. CASE Session(c)
    BY <2>6, <1>6, FrameFields DEF Session, PutUsername
  <2>7. CASE Connected(c)
    BY <2>7, <1>6, AnswerType, SendToType DEF Connected
  <2>8. CASE Refuse(c)
    BY <2>8, <1>6, AnswerType, SendToType DEF Refuse, Terminate, BeginTraversal
  <2>9. CASE Error(c)
    BY <2>9, <1>6, AnswerType, SendToType DEF Error, Terminate
  <2>10. CASE Subscribe(c)
    <3>1. pc' \in [Conn -> Label]
      BY <2>10, BranchType
    <3>2. topics' \subseteq Topic /\ topicSubscribers' \in [Topic -> [Conn -> SubId \cup {NONE}]]
      <4>1. CASE UNCHANGED connectionsVars
        BY <4>1
      <4>2. CASE AddSubscriber(c, frame[c].id, frame[c].destination)
                 /\ NONE \notin {frame[c].id, frame[c].destination}
        <5>1. frame[c].id \in SubId /\ frame[c].destination \in Topic
          BY <4>2, <2>10, FrameFields DEF Subscribe
        <5>2. CASE c \in activeConnections
          BY <4>2, <5>1, <5>2, AddSubscriberType
        <5>3. CASE c \notin activeConnections
          BY <4>2, <5>3 DEF AddSubscriber
        <5> QED BY <5>2, <5>3
      <4> QED BY <2>10, <4>1, <4>2 DEF Subscribe
    <3>3. UNCHANGED <<activeConnections, registedClients, LoggedIn, idToUsername>>
      BY <2>10 DEF Subscribe, AddSubscriber
    <3> QED BY <2>10, <1>6, <3>1, <3>2, <3>3 DEF Subscribe
  <2>11. CASE Unsubscribe(c)
    <3>1. pc' \in [Conn -> Label]
      BY <2>11, BranchType
    <3>2. /\ present' \in [Conn -> SUBSET (Topic \cup Conn)]
          /\ seen' \in [Conn -> SUBSET (Topic \cup Conn)]
      <4>1. UNCHANGED <<present, seen>> \/ BeginTraversal(c, topics)
        BY <2>11 DEF Unsubscribe
      <4> QED BY <4>1 DEF BeginTraversal
    <3> QED BY <2>11, <1>6, <3>1, <3>2 DEF Unsubscribe
  <2>12. CASE EndUnsubscribe(c)
    BY <2>12, <1>6 DEF EndUnsubscribe
  <2>13. CASE Send(c)
    <3>1. pc' \in [Conn -> Label]
      BY <2>13, BranchType
    <3>2. /\ present' \in [Conn -> SUBSET (Topic \cup Conn)]
          /\ seen' \in [Conn -> SUBSET (Topic \cup Conn)]
          /\ messageIdCounter' \in [Conn -> Nat \ {0}]
      <4>1. \/ UNCHANGED <<messageIdCounter, present, seen>>
            \/ TakeMessageId(c) /\ BeginTraversal(c, Subscribers(frame[c].destination))
        BY <2>13 DEF Send
      <4>2. Subscribers(frame[c].destination) \subseteq Conn
        BY DEF Subscribers
      <4>3. /\ present \in [Conn -> SUBSET (Topic \cup Conn)]
            /\ seen \in [Conn -> SUBSET (Topic \cup Conn)]
            /\ messageIdCounter \in [Conn -> Nat \ {0}]
        OBVIOUS
      <4>4. messageIdCounter' \in [Conn -> Nat \ {0}]
        BY <4>1, <4>3 DEF TakeMessageId
      <4>5. CASE BeginTraversal(c, Subscribers(frame[c].destination))
        BY <4>2, <4>3, <4>4, <4>5 DEF BeginTraversal
      <4> QED BY <4>1, <4>3, <4>4, <4>5
    <3> QED BY <2>13, <1>6, <3>1, <3>2 DEF Send
  <2>14. CASE Deliver(c)
    BY <2>14, <1>6, MessageType, SendToType DEF Deliver, ServerFrame
  <2>15. CASE EndBroadcast(c)
    BY <2>15, <1>6 DEF EndBroadcast
  <2>16. CASE Disconnect(c)
    BY <2>16, <1>6 DEF Disconnect, Terminate, BeginTraversal
  <2>17. CASE LeaveServer(c)
    BY <2>17, <1>6 DEF LeaveServer, RemoveHandler, Close
  <2>18. CASE Receipt(c)
    BY <2>18, <1>6, AnswerType, SendToType DEF Receipt
  <2>19. ASSUME NEW t \in Topic, VisitTopic(c, t) PROVE TypeOK'
    <3>1. pc' \in [Conn -> Label]
      BY <2>19, BranchType
    <3>2. CASE RemoveEntry(c, t)
      BY <3>1, <3>2, <2>19, <1>6, RemoveEntryType DEF VisitTopic
    <3>3. CASE UNCHANGED <<present, connectionsVars>> /\ UNCHANGED seen
      BY <3>1, <3>3, <2>19, <1>6 DEF VisitTopic
    <3>4. CASE UNCHANGED <<present, connectionsVars>> /\ seen' = [seen EXCEPT ![c] = @ \cup {t}]
      BY <3>1, <3>4, <2>19, <1>6 DEF VisitTopic
    <3> QED BY <2>19, <3>2, <3>3, <3>4 DEF VisitTopic
  <2>20. ASSUME NEW t \in Topic, LeaveTopic(c, t) PROVE TypeOK'
    BY <2>20, <1>6, RemoveEntryType DEF LeaveTopic
  <2>21. ASSUME NEW d \in Conn, VisitSubscriber(c, d) PROVE TypeOK'
    BY <2>21, <1>6 DEF VisitSubscriber, Subscribers, isSubscribed, Target, CommandAt
  <2> QED BY <1>6, <2>1, <2>2, <2>3, <2>4, <2>5, <2>6, <2>7, <2>8, <2>9, <2>10, <2>11, <2>12, <2>13, <2>14, <2>15, <2>16, <2>17, <2>18, <2>19, <2>20, <2>21 DEF ProtocolStep
<1> QED BY <1>1, <1>2, <1>3, <1>4, <1>5, <1>6 DEF Step, ThreadStep
-----------------------------------------------------------------------------
(* A write reaches one socket, or none.                                    *)
LEMMA SendToOut ==
  ASSUME TypeOK, NEW d \in Conn, NEW f, SendTo(d, f), NEW e \in Conn
  PROVE  out'[e] = out[e] \/ (e = d /\ out'[e] = Append(out[e], f))
  BY DEF TypeOK, SendTo, Write, WriteSucceeds, WriteFails, handlerVars

(* Removing an entry of c touches nothing else, and no traversal over the  *)
(* topics but the one of c itself.                                         *)
LEMMA RemoveEntryEffect ==
  ASSUME TypeOK, NEW c \in Conn, NEW t \in Topic, RemoveEntry(c, t),
         pc[c] \in {"disconnect", "unsubscribe"}
  PROVE  /\ \A s \in Topic : \A d \in Conn :
              topicSubscribers'[s][d] = IF s = t /\ d = c THEN NONE ELSE topicSubscribers[s][d]
         /\ \A d \in Conn \ {c} : pc[d] \in {"disconnect", "unsubscribe"} =>
              present'[d] = present[d] /\ seen'[d] = seen[d]
         /\ present'[c] = present[c]
         /\ seen'[c] = seen[c] \cup {t}
<1>1. topicSubscribers' = [topicSubscribers EXCEPT ![t][c] = NONE]
  BY DEF RemoveEntry, RemoveSubscriber
<1>2. \A d \in Conn : pc[d] \in {"disconnect", "unsubscribe"} => ~Broadcasting(d, t)
  BY DEF Broadcasting
<1>3. \A d \in Conn : ~Broadcasting(d, t) => present'[d] = present[d]
  BY DEF RemoveEntry
<1>4. \A d \in Conn \ {c} : ~Broadcasting(d, t) => seen'[d] = seen[d]
  BY DEF RemoveEntry, TypeOK
<1>5. seen'[c] = seen[c] \cup {t}
  BY DEF RemoveEntry, TypeOK
<1>6. \A s \in Topic : \A d \in Conn :
        topicSubscribers'[s][d] = IF s = t /\ d = c THEN NONE ELSE topicSubscribers[s][d]
  BY <1>1 DEF TypeOK
<1> QED BY <1>2, <1>3, <1>4, <1>5, <1>6

(* Subscribing touches the entry of c for t and no other.                  *)
LEMMA AddSubscriberEffect ==
  ASSUME TypeOK, NEW c \in Conn, NEW id, NEW t, AddSubscriber(c, id, t)
  PROVE  \A s \in Topic : \A d \in Conn :
           s # t \/ d # c => topicSubscribers'[s][d] = topicSubscribers[s][d]
<1>1. topicSubscribers \in [Topic -> [Conn -> SubId \cup {NONE}]]
  BY DEF TypeOK
<1>2. \/ UNCHANGED topicSubscribers
      \/ topicSubscribers' = [topicSubscribers EXCEPT ![t][c] = id]
  BY DEF AddSubscriber, connectionsVars
<1>3. ASSUME NEW s \in Topic, NEW d \in Conn, s # t \/ d # c,
             topicSubscribers' = [topicSubscribers EXCEPT ![t][c] = id]
      PROVE  topicSubscribers'[s][d] = topicSubscribers[s][d]
  <2>1. CASE s # t
    BY <1>1, <1>3, <2>1
  <2>2. CASE s = t
    BY <1>1, <1>3, <2>2
  <2> QED BY <2>1, <2>2
<1> QED BY <1>2, <1>3

(* What a step of one thread leaves alone of every other thread, and what  *)
(* it may only add to.                                                     *)
Undisturbed(d) ==
  /\ pc'[d] = pc[d]
  /\ frame'[d] = frame[d]
  /\ shouldTerminate'[d] = shouldTerminate[d]
  /\ username'[d] = username[d]
  /\ target'[d] = target[d]
  /\ idToUsername'[d] = idToUsername[d]
  /\ d \in activeConnections' <=> d \in activeConnections
  /\ \A t \in Topic : topicSubscribers'[t][d] = topicSubscribers[t][d]
  /\ pc[d] \in {"disconnect", "unsubscribe"} => present'[d] = present[d] /\ seen'[d] = seen[d]
  /\ out'[d] = out[d] \/ \E m \in Message : out'[d] = Append(out[d], m)

OnlyGrows ==
  /\ topics \subseteq topics'
  /\ \A u \in User : isOnline(u) => isOnline(u)'
  /\ \A u \in User : registedClients[u] # NONE => registedClients'[u] # NONE

(* Topics, users and the marks of those online are never taken back.       *)
LEMMA StepGrows ==
  ASSUME TypeOK, NEW c \in Conn, Step(c)
  PROVE  OnlyGrows
<1> USE DEF OnlyGrows, isOnline, connectionsVars, localVars
<1>1. CASE Login(c)
  BY <1>1 DEF Login, PutLoggedIn, TypeOK
<1>2. CASE Register(c)
  BY <1>2 DEF Register, PutRegisted, TypeOK
<1>3. CASE UNCHANGED <<topics, registedClients, LoggedIn>>
  BY <1>3
<1>4. CASE Subscribe(c)
  BY <1>4 DEF Subscribe, AddSubscriber
<1> QED
  BY <1>1, <1>2, <1>3, <1>4 DEF Step, ThreadStep, ProtocolStep, Accept, AddConnection, Read,
     Process, StopReading, Return, Unwind, Connect, Verify, CheckOnline, Session, PutUsername,
     Connected, Refuse, Error, Unsubscribe, VisitTopic, RemoveEntry, RemoveSubscriber,
     EndUnsubscribe, Send, VisitSubscriber, Deliver, EndBroadcast, Disconnect, LeaveTopic,
     LeaveServer, RemoveHandler, Receipt

(* No thread disturbs another.                                             *)
LEMMA StepElsewhere ==
  ASSUME TypeOK, NEW c \in Conn, CommandAt(c), Step(c), NEW d \in Conn, d # c
  PROVE  Undisturbed(d)
<1> USE DEF Undisturbed, Goto, At, handlerVars, connectionsVars, localVars
<1>1. CASE Accept(c)
  BY <1>1 DEF Accept, Open, AddConnection, TypeOK
<1>2. CASE Read(c)
  BY <1>2 DEF Read, Process, TypeOK
<1>3. CASE StopReading(c)
  BY <1>3 DEF StopReading, AutoClose, TypeOK
<1>4. CASE Return(c)
  BY <1>4 DEF Return, Close, AutoClose, BeginTraversal, TypeOK
<1>5. CASE Unwind(c)
  BY <1>5 DEF Unwind, AutoClose, TypeOK
<1>6. CASE ProtocolStep(c)
  <2>1. CASE Connect(c)
    BY <2>1 DEF Connect, TypeOK
  <2>2. CASE Register(c)
    BY <2>2 DEF Register, PutRegisted, TypeOK
  <2>3. CASE Verify(c)
    BY <2>3 DEF Verify, TypeOK
  <2>4. CASE CheckOnline(c)
    BY <2>4 DEF CheckOnline, TypeOK
  <2>5. CASE Login(c)
    BY <2>5 DEF Login, PutLoggedIn, TypeOK
  <2>6. CASE Session(c)
    BY <2>6 DEF Session, PutUsername, TypeOK
  <2>7. CASE Connected(c)
    BY <2>7, SendToOut DEF Connected, TypeOK
  <2>8. CASE Refuse(c)
    BY <2>8, SendToOut DEF Refuse, Terminate, BeginTraversal, TypeOK
  <2>9. CASE Error(c)
    BY <2>9, SendToOut DEF Error, Terminate, TypeOK
  <2>10. CASE Subscribe(c)
    <3>1. \A t \in Topic : topicSubscribers'[t][d] = topicSubscribers[t][d]
      <4>1. \/ UNCHANGED connectionsVars
            \/ AddSubscriber(c, frame[c].id, frame[c].destination)
        BY <2>10 DEF Subscribe
      <4> QED BY <4>1, AddSubscriberEffect
    <3>2. UNCHANGED <<activeConnections, idToUsername>>
      BY <2>10 DEF Subscribe, AddSubscriber
    <3>3. pc'[d] = pc[d]
      BY <2>10 DEF Subscribe, TypeOK
    <3> QED BY <2>10, <3>1, <3>2, <3>3 DEF Subscribe
  <2>11. CASE Unsubscribe(c)
    BY <2>11 DEF Unsubscribe, BeginTraversal, TypeOK
  <2>12. CASE EndUnsubscribe(c)
    BY <2>12 DEF EndUnsubscribe, TypeOK
  <2>13. CASE Send(c)
    BY <2>13 DEF Send, TakeMessageId, BeginTraversal, TypeOK
  <2>14. CASE Deliver(c)
    BY <2>14, SendToOut, MessageType DEF Deliver, TypeOK
  <2>15. CASE EndBroadcast(c)
    BY <2>15 DEF EndBroadcast, TypeOK
  <2>16. CASE Disconnect(c)
    BY <2>16 DEF Disconnect, Terminate, BeginTraversal, TypeOK
  <2>17. CASE LeaveServer(c)
    BY <2>17 DEF LeaveServer, RemoveHandler, Close, TypeOK
  <2>18. CASE Receipt(c)
    BY <2>18, SendToOut DEF Receipt, TypeOK
  <2>19. ASSUME NEW t \in Topic, VisitTopic(c, t) PROVE Undisturbed(d)
    <3>1. CASE RemoveEntry(c, t) /\ UNCHANGED pc
      <4>1. UNCHANGED <<activeConnections, idToUsername>>
        BY <3>1 DEF RemoveEntry, RemoveSubscriber
      <4>2. \A s \in Topic : topicSubscribers'[s][d] = topicSubscribers[s][d]
        BY <3>1, <2>19, RemoveEntryEffect DEF VisitTopic
      <4>3. pc[d] \in {"disconnect", "unsubscribe"} => present'[d] = present[d] /\ seen'[d] = seen[d]
        BY <3>1, <2>19, RemoveEntryEffect DEF VisitTopic
      <4> QED BY <2>19, <3>1, <4>1, <4>2, <4>3 DEF VisitTopic
    <3>2. CASE Goto(c, "crash") /\ UNCHANGED <<present, seen, connectionsVars>>
      BY <2>19, <3>2 DEF VisitTopic, TypeOK
    <3>3. CASE seen' = [seen EXCEPT ![c] = @ \cup {t}] /\ UNCHANGED <<pc, present, connectionsVars>>
      BY <2>19, <3>3 DEF VisitTopic, TypeOK
    <3> QED BY <2>19, <3>1, <3>2, <3>3 DEF VisitTopic
  <2>20. ASSUME NEW t \in Topic, LeaveTopic(c, t) PROVE Undisturbed(d)
    <3>1. UNCHANGED <<activeConnections, idToUsername>>
      BY <2>20 DEF LeaveTopic, RemoveEntry, RemoveSubscriber
    <3>2. \A s \in Topic : topicSubscribers'[s][d] = topicSubscribers[s][d]
      BY <2>20, RemoveEntryEffect DEF LeaveTopic
    <3>3. pc[d] \in {"disconnect", "unsubscribe"} => present'[d] = present[d] /\ seen'[d] = seen[d]
      BY <2>20, RemoveEntryEffect DEF LeaveTopic
    <3> QED BY <2>20, <3>1, <3>2, <3>3 DEF LeaveTopic
  <2>21. ASSUME NEW e \in Conn, VisitSubscriber(c, e) PROVE Undisturbed(d)
    BY <2>21 DEF VisitSubscriber, TypeOK
  <2> QED BY <1>6, <2>1, <2>2, <2>3, <2>4, <2>5, <2>6, <2>7, <2>8, <2>9, <2>10, <2>11, <2>12, <2>13, <2>14, <2>15, <2>16, <2>17, <2>18, <2>19, <2>20, <2>21 DEF ProtocolStep
<1> QED BY <1>1, <1>2, <1>3, <1>4, <1>5, <1>6 DEF Step, ThreadStep
-----------------------------------------------------------------------------
(* A frame of another command adds nothing to the answers of this one.     *)
LEMMA OtherFrame ==
  ASSUME TypeOK, NEW d \in Conn, NEW command, NEW m, out'[d] = Append(out[d], m), m.cmd # command
  PROVE  Answers(d, command)' = Answers(d, command)
<1>1. out[d] \in Seq(ServerFrame)
  BY DEF TypeOK
<1>2. /\ DOMAIN out'[d] = 1..(Len(out[d]) + 1)
      /\ \A i \in 1..Len(out[d]) : out'[d][i] = out[d][i]
      /\ out'[d][Len(out[d]) + 1] = m
      /\ DOMAIN out[d] = 1..Len(out[d])
      /\ Len(out[d]) \in Nat
  BY <1>1
<1> QED BY <1>2 DEF Answers

(* A MESSAGE in the socket is no answer.                                   *)
LEMMA MessageIsNoAnswer ==
  ASSUME TypeOK, NEW d \in Conn, NEW command \in {"CONNECTED", "RECEIPT", "ERROR"},
         out'[d] = out[d] \/ \E m \in Message : out'[d] = Append(out[d], m)
  PROVE  Answers(d, command)' = Answers(d, command)
<1>1. CASE out'[d] = out[d]
  BY <1>1 DEF Answers
<1>2. CASE \E m \in Message : out'[d] = Append(out[d], m)
  BY <1>2, OtherFrame DEF Message
<1> QED BY <1>1, <1>2

(* The order of the answers survives another frame at the end.             *)
LEMMA ErrorStaysFinal ==
  ASSUME TypeOK, NEW d \in Conn, ErrorSent(d), NEW m, out'[d] = Append(out[d], m),
         m.cmd = "MESSAGE" \/ Answers(d, "ERROR") = {}
  PROVE  \A i, j \in DOMAIN out'[d] :
           i < j /\ out'[d][i].cmd = "ERROR" => out'[d][j].cmd = "MESSAGE"
<1>1. out[d] \in Seq(ServerFrame)
  BY DEF TypeOK
<1>2. /\ DOMAIN out'[d] = 1..(Len(out[d]) + 1)
      /\ \A i \in 1..Len(out[d]) : out'[d][i] = out[d][i]
      /\ out'[d][Len(out[d]) + 1] = m
      /\ DOMAIN out[d] = 1..Len(out[d])
      /\ Len(out[d]) \in Nat
  BY <1>1
<1>3. ASSUME NEW i \in DOMAIN out'[d], NEW j \in DOMAIN out'[d],
             i < j, out'[d][i].cmd = "ERROR"
      PROVE  out'[d][j].cmd = "MESSAGE"
  <2>1. i \in DOMAIN out[d] /\ out[d][i].cmd = "ERROR"
    BY <1>2, <1>3
  <2>2. m.cmd = "MESSAGE"
    BY <2>1 DEF Answers
  <2>3. CASE j \in DOMAIN out[d]
    BY <1>2, <1>3, <2>1, <2>3 DEF ErrorSent
  <2>4. CASE j = Len(out[d]) + 1
    BY <1>2, <2>2, <2>4
  <2> QED BY <1>2, <2>3, <2>4
<1> QED BY <1>3

(* A thread that is left alone keeps its invariant.                        *)
LEMMA OthersKeep ==
  ASSUME TypeOK, NEW d \in Conn, ConnInv(d), Undisturbed(d), OnlyGrows
  PROVE  ConnInv(d)'
<1> USE DEF ConnInv, Undisturbed, OnlyGrows
<1>1. CommandAt(d)'
  BY DEF CommandAt
<1>2. ActiveUntilGone(d)'
  BY DEF ActiveUntilGone
<1>3. EntriesOf(d)'
  BY DEF EntriesOf, isSubscribed
<1>4. Ahead(d)'
  BY DEF Ahead, isSubscribed
<1>5. AuthorSubscribed(d)'
  BY DEF AuthorSubscribed, isSubscribed, CommandAt
<1>6. Done(d)'
  BY DEF Done, isSubscribed
<1>7. ErrorSent(d)'
  <2>1. Answers(d, "ERROR")' = Answers(d, "ERROR")
    BY MessageIsNoAnswer
  <2>2. \A i, j \in DOMAIN out'[d] :
          i < j /\ out'[d][i].cmd = "ERROR" => out'[d][j].cmd = "MESSAGE"
    <3>1. CASE out'[d] = out[d]
      BY <3>1 DEF ErrorSent
    <3>2. CASE \E m \in Message : out'[d] = Append(out[d], m)
      <4>1. PICK m \in Message : out'[d] = Append(out[d], m)
        BY <3>2
      <4>2. m.cmd = "MESSAGE"
        BY DEF Message
      <4> QED BY <4>1, <4>2, ErrorStaysFinal
    <3> QED BY <3>1, <3>2
  <2>3. Answers(d, "ERROR") # {} =>
          /\ shouldTerminate'[d]
          /\ \/ pc'[d] \in {"check", "crash", "ended"}
             \/ pc'[d] = "disconnect" /\ frame'[d].cmd = "CONNECT"
    BY DEF ErrorSent
  <2> QED BY <2>1, <2>2, <2>3 DEF ErrorSent
<1>8. SessionBuilt(d)'
  <2>1. Answers(d, "CONNECTED")' = Answers(d, "CONNECTED")
    BY MessageIsNoAnswer
  <2>2. \A u : SessionOf(d, u) => SessionOf(d, u)'
    BY DEF SessionOf
  <2>3. pc[d] \in {"verify", "online", "login", "session"} => frame[d].login \in User
    BY DEF CommandAt
  <2>4. pc'[d] \in {"verify", "online", "login", "session"} =>
          registedClients'[frame'[d].login] # NONE
    BY <2>3 DEF SessionBuilt
  <2>5. pc'[d] = "session" => username'[d] = frame'[d].login /\ isOnline(frame[d].login)'
    BY <2>3 DEF SessionBuilt
  <2>6. pc'[d] = "connected" => SessionOf(d, frame[d].login)'
    BY <2>2 DEF SessionBuilt
  <2>7. Answers(d, "CONNECTED") # {} /\ pc'[d] # "session" => SessionOf(d, username[d])'
    BY <2>2 DEF SessionBuilt
  <2> QED BY <2>1, <2>4, <2>5, <2>6, <2>7 DEF SessionBuilt, SessionOf, isOnline
<1> QED BY <1>1, <1>2, <1>3, <1>4, <1>5, <1>6, <1>7, <1>8
-----------------------------------------------------------------------------
(* The lemmas below take the parts of ConnInv one by one, for the thread   *)
(* that makes the step.                                                    *)

(* What arrives is one of the frames the client may send.                  *)
LEMMA ReadFrame ==
  ASSUME NEW c \in Conn, Read(c)
  PROVE  \E f \in Frame : Process(c, f)
  BY FramesAssumption DEF Read

(* Where a thread goes agrees with the command of its frame.               *)
LEMMA OwnCommandAt ==
  ASSUME TypeOK, NEW c \in Conn, ConnInv(c), Step(c)
  PROVE  CommandAt(c)'
<1> USE DEF CommandAt, Goto, At, Command, localVars
<1>0. /\ pc \in [Conn -> Label]
      /\ frame \in [Conn -> Frame \cup {NONE}]
      /\ target \in [Conn -> Target \cup {NONE}]
      /\ CommandAt(c) /\ Done(c)
  BY DEF TypeOK, ConnInv, Label
<1>1. CASE Accept(c)
  BY <1>0, <1>1 DEF Accept, Open, AddConnection
<1>2. CASE Read(c)
  <2>1. PICK f \in Frame : Process(c, f)
    BY <1>2, ReadFrame
  <2>2. f.cmd \in Command
    BY DEF Frame
  <2> QED BY <1>0, <2>1, <2>2 DEF Process
<1>3. CASE StopReading(c)
  BY <1>0, <1>3 DEF StopReading
<1>4. CASE Return(c)
  BY <1>0, <1>4 DEF Return, BeginTraversal
<1>5. CASE Unwind(c)
  BY <1>0, <1>5 DEF Unwind
<1>6. CASE ProtocolStep(c)
  <2>1. CASE Connect(c)
    <3>1. pc[c] \in Label \ {"idle", "read", "ended"}
      BY <2>1 DEF Connect, Label
    <3> QED BY <1>0, <2>1, <3>1, FrameFields DEF Connect
  <2>2. CASE Register(c)
    BY <1>0, <2>2 DEF Register, PutRegisted
  <2>3. CASE Verify(c)
    BY <1>0, <2>3 DEF Verify
  <2>4. CASE CheckOnline(c)
    BY <1>0, <2>4 DEF CheckOnline
  <2>5. CASE Login(c)
    BY <1>0, <2>5 DEF Login, PutLoggedIn
  <2>6. CASE Session(c)
    BY <1>0, <2>6 DEF Session, PutUsername
  <2>7. CASE Connected(c)
    BY <1>0, <2>7 DEF Connected
  <2>8. CASE Refuse(c)
    BY <1>0, <2>8 DEF Refuse, Terminate, BeginTraversal
  <2>9. CASE Error(c)
    BY <1>0, <2>9 DEF Error, Terminate
  <2>10. CASE Subscribe(c)
    BY <1>0, <2>10 DEF Subscribe, AddSubscriber
  <2>11. CASE Unsubscribe(c)
    <3>1. pc[c] \in Label \ {"idle", "read", "ended"}
      BY <2>11 DEF Unsubscribe, Label
    <3> QED BY <1>0, <2>11, <3>1, FrameFields DEF Unsubscribe
  <2>12. CASE EndUnsubscribe(c)
    BY <1>0, <2>12 DEF EndUnsubscribe
  <2>13. CASE Send(c)
    <3>1. pc[c] \in Label \ {"idle", "read", "ended"}
      BY <2>13 DEF Send, Label
    <3> QED BY <1>0, <2>13, <3>1, FrameFields DEF Send
  <2>14. CASE Deliver(c)
    BY <1>0, <2>14 DEF Deliver
  <2>15. CASE EndBroadcast(c)
    BY <1>0, <2>15 DEF EndBroadcast
  <2>16. CASE Disconnect(c)
    BY <1>0, <2>16 DEF Disconnect, Terminate, BeginTraversal
  <2>17. CASE LeaveServer(c)
    BY <1>0, <2>17 DEF LeaveServer, RemoveHandler
  <2>18. CASE Receipt(c)
    BY <1>0, <2>18 DEF Receipt
  <2>19. ASSUME NEW t \in Topic, VisitTopic(c, t) PROVE CommandAt(c)'
    BY <1>0, <2>19 DEF VisitTopic, RemoveEntry, RemoveSubscriber
  <2>20. ASSUME NEW t \in Topic, LeaveTopic(c, t) PROVE CommandAt(c)'
    BY <1>0, <2>20 DEF LeaveTopic, RemoveEntry, RemoveSubscriber
  <2>21. ASSUME NEW e \in Conn, VisitSubscriber(c, e) PROVE CommandAt(c)'
    <3>1. frame[c].destination \in Topic
      BY <1>0, <2>21 DEF VisitSubscriber
    <3>2. topicSubscribers[frame[c].destination][e] \in SubId
      BY <2>21, <3>1 DEF VisitSubscriber, Subscribers, isSubscribed, TypeOK
    <3> QED BY <1>0, <2>21, <3>2 DEF VisitSubscriber, Target
  <2> QED BY <1>6, <2>1, <2>2, <2>3, <2>4, <2>5, <2>6, <2>7, <2>8, <2>9, <2>10, <2>11, <2>12, <2>13, <2>14, <2>15, <2>16, <2>17, <2>18, <2>19, <2>20, <2>21 DEF ProtocolStep
<1> QED BY <1>1, <1>2, <1>3, <1>4, <1>5, <1>6 DEF Step, ThreadStep

(* A thread leaves activeConnections in LeaveServer only.                  *)
LEMMA OwnActive ==
  ASSUME TypeOK, NEW c \in Conn, ConnInv(c), Step(c)
  PROVE  ActiveUntilGone(c)'
<1> USE DEF CommandAt, ActiveUntilGone, Goto, At, Command, localVars, connectionsVars
<1>0. /\ pc \in [Conn -> Label]
      /\ frame \in [Conn -> Frame \cup {NONE}]
      /\ shouldTerminate \in [Conn -> BOOLEAN]
      /\ CommandAt(c) /\ ActiveUntilGone(c)
  BY DEF TypeOK, ConnInv, Label
<1>1. CASE Accept(c)
  BY <1>0, <1>1 DEF Accept, Open, AddConnection
<1>2. CASE Read(c)
  <2>1. PICK f \in Frame : Process(c, f)
    BY <1>2, ReadFrame
  <2>2. f.cmd \in Command
    BY DEF Frame
  <2> QED BY <1>0, <2>1, <2>2 DEF Process
<1>3. CASE StopReading(c)
  BY <1>0, <1>3 DEF StopReading
<1>4. CASE Return(c)
  BY <1>0, <1>4 DEF Return, BeginTraversal
<1>5. CASE Unwind(c)
  BY <1>0, <1>5 DEF Unwind
<1>6. CASE ProtocolStep(c)
  <2>1. CASE Connect(c)
    BY <1>0, <2>1 DEF Connect
  <2>2. CASE Register(c)
    BY <1>0, <2>2 DEF Register, PutRegisted
  <2>3. CASE Verify(c)
    BY <1>0, <2>3 DEF Verify
  <2>4. CASE CheckOnline(c)
    BY <1>0, <2>4 DEF CheckOnline
  <2>5. CASE Login(c)
    BY <1>0, <2>5 DEF Login, PutLoggedIn
  <2>6. CASE Session(c)
    BY <1>0, <2>6 DEF Session, PutUsername
  <2>7. CASE Connected(c)
    BY <1>0, <2>7 DEF Connected
  <2>8. CASE Refuse(c)
    BY <1>0, <2>8 DEF Refuse, Terminate, BeginTraversal
  <2>9. CASE Error(c)
    BY <1>0, <2>9 DEF Error, Terminate
  <2>10. CASE Subscribe(c)
    BY <1>0, <2>10 DEF Subscribe, AddSubscriber
  <2>11. CASE Unsubscribe(c)
    BY <1>0, <2>11 DEF Unsubscribe, BeginTraversal
  <2>12. CASE EndUnsubscribe(c)
    BY <1>0, <2>12 DEF EndUnsubscribe
  <2>13. CASE Send(c)
    BY <1>0, <2>13 DEF Send, BeginTraversal
  <2>14. CASE Deliver(c)
    BY <1>0, <2>14 DEF Deliver
  <2>15. CASE EndBroadcast(c)
    BY <1>0, <2>15 DEF EndBroadcast
  <2>16. CASE Disconnect(c)
    BY <1>0, <2>16 DEF Disconnect, Terminate, BeginTraversal
  <2>17. CASE LeaveServer(c)
    BY <1>0, <2>17 DEF LeaveServer, RemoveHandler
  <2>18. CASE Receipt(c)
    BY <1>0, <2>18 DEF Receipt
  <2>19. ASSUME NEW t \in Topic, VisitTopic(c, t) PROVE ActiveUntilGone(c)'
    BY <1>0, <2>19 DEF VisitTopic, RemoveEntry, RemoveSubscriber
  <2>20. ASSUME NEW t \in Topic, LeaveTopic(c, t) PROVE ActiveUntilGone(c)'
    BY <1>0, <2>20 DEF LeaveTopic, RemoveEntry, RemoveSubscriber
  <2>21. ASSUME NEW e \in Conn, VisitSubscriber(c, e) PROVE ActiveUntilGone(c)'
    BY <1>0, <2>21 DEF VisitSubscriber
  <2> QED BY <1>6, <2>1, <2>2, <2>3, <2>4, <2>5, <2>6, <2>7, <2>8, <2>9, <2>10, <2>11, <2>12, <2>13, <2>14, <2>15, <2>16, <2>17, <2>18, <2>19, <2>20, <2>21 DEF ProtocolStep
<1> QED BY <1>1, <1>2, <1>3, <1>4, <1>5, <1>6 DEF Step, ThreadStep
-----------------------------------------------------------------------------
(* The handlers that lead to a traversal, to a broadcast, to a receipt.    *)
LEMMA Arrivals ==
  ASSUME TypeOK, NEW c \in Conn, Step(c)
  PROVE  /\ pc'[c] \in {"disconnect", "unsubscribe"} =>
              \/ Refuse(c) \/ Disconnect(c) \/ Unsubscribe(c)
              \/ \E t \in Topic : VisitTopic(c, t) \/ LeaveTopic(c, t)
         /\ pc'[c] \in {"broadcast", "deliver"} =>
              Send(c) \/ Deliver(c) \/ \E e \in Conn : VisitSubscriber(c, e)
         /\ pc'[c] = "receipt" =>
              Subscribe(c) \/ EndUnsubscribe(c) \/ EndBroadcast(c) \/ LeaveServer(c)
<1> USE DEF Goto, At
<1>0. pc \in [Conn -> Label]
  BY DEF TypeOK
<1>1. Accept(c) \/ Read(c) \/ StopReading(c) \/ Return(c) \/ Unwind(c) =>
        pc'[c] \in Command \cup {"read", "ended", "error"}
  BY <1>0, FramesAssumption, ReadFrame DEF Accept, Read, Process, StopReading, Return, Unwind, Frame, Command
<1>2. Connect(c) \/ Register(c) \/ Verify(c) \/ CheckOnline(c) =>
        pc'[c] \in {"refuse", "crash", "register", "verify", "online", "login"}
  BY <1>0 DEF Connect, Register, Verify, CheckOnline
<1>3. Login(c) \/ Session(c) \/ Connected(c) \/ Error(c) \/ Receipt(c) =>
        pc'[c] \in {"session", "connected", "check", "crash"}
  BY <1>0 DEF Login, Session, Connected, Error, Receipt
<1>4. Subscribe(c) \/ EndUnsubscribe(c) \/ EndBroadcast(c) \/ LeaveServer(c) =>
        pc'[c] \in {"error", "receipt", "check", "crash"}
  BY <1>0 DEF Subscribe, EndUnsubscribe, EndBroadcast, LeaveServer
<1>5. Send(c) \/ Deliver(c) \/ (\E e \in Conn : VisitSubscriber(c, e)) =>
        pc'[c] \in {"error", "broadcast", "deliver"}
  BY <1>0 DEF Send, Deliver, VisitSubscriber
<1>6. Refuse(c) \/ Disconnect(c) \/ Unsubscribe(c)
      \/ (\E t \in Topic : VisitTopic(c, t) \/ LeaveTopic(c, t)) =>
        pc'[c] \in {"error", "disconnect", "unsubscribe", "crash"}
  BY <1>0 DEF Refuse, Disconnect, Unsubscribe, VisitTopic, LeaveTopic
<1> QED
  BY <1>1, <1>2, <1>3, <1>4, <1>5, <1>6 DEF Step, ThreadStep, ProtocolStep, Command

(* The handlers that touch the subscriptions of their connection.          *)
LEMMA EntrySteps ==
  ASSUME NEW c \in Conn, Step(c)
  PROVE  \/ UNCHANGED <<activeConnections, topics, topicSubscribers>>
         \/ Accept(c) \/ Subscribe(c) \/ LeaveServer(c)
         \/ \E t \in Topic : VisitTopic(c, t) \/ LeaveTopic(c, t)
  BY DEF connectionsVars, localVars, Step, ThreadStep, ProtocolStep, Read, Process, StopReading,
     Return, Unwind, Connect, Register, PutRegisted, Verify, CheckOnline, Login, PutLoggedIn,
     Session, PutUsername, Connected, Refuse, Error, Unsubscribe, EndUnsubscribe, Send,
     VisitSubscriber, Deliver, EndBroadcast, Disconnect, Receipt

(* A thread enters itself in existing topics while it is active, and is in *)
(* none when it leaves the server.                                         *)
LEMMA OwnEntries ==
  ASSUME TypeOK, NEW c \in Conn, ConnInv(c), Step(c)
  PROVE  EntriesOf(c)'
<1> USE DEF EntriesOf, isSubscribed
<1>0. EntriesOf(c) /\ Ahead(c)
  BY DEF ConnInv
<1>1. CASE UNCHANGED <<activeConnections, topics, topicSubscribers>>
  BY <1>0, <1>1
<1>2. CASE Accept(c)
  BY <1>0, <1>2 DEF Accept, AddConnection
<1>3. CASE Subscribe(c)
  <2>1. CASE UNCHANGED connectionsVars
    BY <1>0, <2>1 DEF connectionsVars
  <2>2. CASE AddSubscriber(c, frame[c].id, frame[c].destination) /\ c \in activeConnections
    <3>1. /\ topics' = topics \cup {frame[c].destination}
          /\ activeConnections' = activeConnections
      BY <2>2 DEF AddSubscriber
    <3>2. \A t \in Topic : t # frame[c].destination => topicSubscribers'[t][c] = topicSubscribers[t][c]
      BY <2>2, AddSubscriberEffect
    <3> QED BY <1>0, <2>2, <3>1, <3>2
  <2> QED BY <1>3, <2>1, <2>2 DEF Subscribe, AddSubscriber, connectionsVars
<1>4. ASSUME NEW t \in Topic, VisitTopic(c, t) \/ LeaveTopic(c, t)
      PROVE  EntriesOf(c)'
  <2>1. CASE RemoveEntry(c, t)
    <3>1. UNCHANGED <<activeConnections, topics>>
      BY <2>1 DEF RemoveEntry, RemoveSubscriber
    <3>2. pc[c] \in {"disconnect", "unsubscribe"}
      BY <1>4 DEF VisitTopic, LeaveTopic, At
    <3>3. \A s \in Topic : topicSubscribers'[s][c] \in {NONE, topicSubscribers[s][c]}
      BY <2>1, <3>2, RemoveEntryEffect
    <3> QED BY <1>0, <3>1, <3>3
  <2>2. CASE UNCHANGED connectionsVars
    BY <1>0, <2>2 DEF connectionsVars
  <2> QED BY <1>4, <2>1, <2>2 DEF VisitTopic, LeaveTopic
<1>5. CASE LeaveServer(c)
  <2>1. \A t \in Topic : ~isSubscribed(c, t)
    BY <1>0, <1>5 DEF LeaveServer, At, Ahead
  <2>2. UNCHANGED topicSubscribers
    BY <1>5 DEF LeaveServer, RemoveHandler, connectionsVars
  <2> QED BY <2>1, <2>2
<1> QED BY <1>1, <1>2, <1>3, <1>4, <1>5, EntrySteps

(* A removing traversal starts with all entries ahead of it, and passes    *)
(* none that it has to remove.                                             *)
LEMMA OwnAhead ==
  ASSUME TypeOK, NEW c \in Conn, ConnInv(c), Step(c)
  PROVE  Ahead(c)'
<1> USE DEF Goto, At
<1>0. /\ pc \in [Conn -> Label]
      /\ present \in [Conn -> SUBSET (Topic \cup Conn)]
      /\ seen \in [Conn -> SUBSET (Topic \cup Conn)]
      /\ CommandAt(c) /\ EntriesOf(c) /\ Ahead(c)
  BY DEF TypeOK, ConnInv
<1>1. CASE pc'[c] \notin {"disconnect", "unsubscribe"}
  BY <1>1 DEF Ahead
<1>2. CASE Refuse(c) \/ Disconnect(c) \/ Unsubscribe(c)
  <2>1. pc'[c] \in {"disconnect", "unsubscribe"} => present'[c] = topics /\ seen'[c] = {}
    BY <1>0, <1>2 DEF Refuse, Disconnect, Unsubscribe, BeginTraversal
  <2>2. UNCHANGED <<topicSubscribers, frame>>
    BY <1>2 DEF Refuse, Disconnect, Unsubscribe, connectionsVars
  <2>3. \A t \in Topic : isSubscribed(c, t) => t \in topics
    BY <1>0 DEF EntriesOf
  <2>4. pc'[c] = "unsubscribe" => frame[c].id # NONE
    BY <1>0, <1>2 DEF Refuse, Disconnect, Unsubscribe
  <2> QED BY <2>1, <2>2, <2>3, <2>4 DEF Ahead, isSubscribed
<1>3. ASSUME NEW t \in Topic, VisitTopic(c, t) \/ LeaveTopic(c, t)
      PROVE  Ahead(c)'
  <2>1. UNCHANGED frame /\ pc[c] \in {"disconnect", "unsubscribe"} /\ pc'[c] \in {pc[c], "crash"}
    BY <1>0, <1>3 DEF VisitTopic, LeaveTopic
  <2>2. CASE RemoveEntry(c, t)
    <3>1. /\ present'[c] = present[c] /\ seen'[c] = seen[c] \cup {t}
          /\ \A s \in Topic :
               topicSubscribers'[s][c] = IF s = t THEN NONE ELSE topicSubscribers[s][c]
      BY <2>1, <2>2, RemoveEntryEffect
    <3>2. pc[c] = "unsubscribe" => frame[c].id # NONE
      BY <1>0, NoneAssumption DEF CommandAt
    <3> QED BY <1>0, <2>1, <3>1, <3>2 DEF Ahead, isSubscribed
  <2>3. CASE pc'[c] = "crash"
    BY <2>3 DEF Ahead
  <2>4. CASE /\ pc[c] = "unsubscribe" /\ topicSubscribers[t][c] # frame[c].id
             /\ seen' = [seen EXCEPT ![c] = @ \cup {t}]
             /\ UNCHANGED <<pc, present, connectionsVars>>
    BY <1>0, <2>1, <2>4 DEF Ahead, isSubscribed, connectionsVars
  <2> QED BY <1>0, <1>3, <2>2, <2>3, <2>4 DEF VisitTopic, LeaveTopic
<1> QED BY <1>1, <1>2, <1>3, Arrivals

(* A broadcast starts with its author among the subscribers, and ends so.  *)
LEMMA OwnAuthor ==
  ASSUME TypeOK, NEW c \in Conn, ConnInv(c), Step(c)
  PROVE  AuthorSubscribed(c)'
<1>0. pc \in [Conn -> Label] /\ AuthorSubscribed(c)
  BY DEF TypeOK, ConnInv
<1>1. CASE pc'[c] \notin {"broadcast", "deliver"}
  BY <1>1 DEF AuthorSubscribed
<1>2. CASE Send(c) \/ Deliver(c) \/ \E e \in Conn : VisitSubscriber(c, e)
  <2>1. UNCHANGED <<frame, topicSubscribers>>
    BY <1>2 DEF Send, Deliver, VisitSubscriber, connectionsVars
  <2>2. pc'[c] \in {"broadcast", "deliver"} => isSubscribed(c, frame[c].destination)
    BY <1>0, <1>2 DEF Send, Deliver, VisitSubscriber, AuthorSubscribed, At, Goto
  <2> QED BY <2>1, <2>2 DEF AuthorSubscribed, isSubscribed
<1> QED BY <1>1, <1>2, Arrivals

(* A receipt is due when the handler has done its work.                    *)
LEMMA OwnDone ==
  ASSUME TypeOK, NEW c \in Conn, ConnInv(c), Step(c)
  PROVE  Done(c)'
<1> USE DEF Goto, At
<1>0. pc \in [Conn -> Label] /\ CommandAt(c) /\ ActiveUntilGone(c) /\ Ahead(c) /\ AuthorSubscribed(c)
  BY DEF TypeOK, ConnInv
<1>1. CASE pc'[c] # "receipt"
  BY <1>1 DEF Done
<1>2. CASE Subscribe(c) /\ pc'[c] = "receipt"
  <2>1. /\ frame[c].cmd = "SUBSCRIBE" /\ frame' = frame
        /\ c \in activeConnections
    BY <1>0, <1>2 DEF Subscribe, CommandAt, ActiveUntilGone, Command, localVars
  <2>2. frame[c].destination \in Topic /\ AddSubscriber(c, frame[c].id, frame[c].destination)
    BY <1>0, <1>2, FrameFields DEF Subscribe, Label, Command
  <2>3. topicSubscribers'[frame[c].destination][c] = frame[c].id
    BY <2>1, <2>2 DEF AddSubscriber, TypeOK
  <2> QED BY <2>1, <2>2, <2>3 DEF Done
<1>3. CASE EndUnsubscribe(c)
  BY <1>0, <1>3 DEF EndUnsubscribe, Ahead, Done, CommandAt, localVars, connectionsVars
<1>4. CASE EndBroadcast(c)
  BY <1>0, <1>4 DEF EndBroadcast, AuthorSubscribed, Done, CommandAt, localVars, connectionsVars, isSubscribed
<1>5. CASE LeaveServer(c) /\ pc'[c] = "receipt"
  BY <1>0, <1>5 DEF LeaveServer, Done, CommandAt, localVars
<1> QED BY <1>1, <1>2, <1>3, <1>4, <1>5, Arrivals
-----------------------------------------------------------------------------
(* What a thread writes to its own socket, and where it is then.           *)
LEMMA OwnWrites ==
  ASSUME TypeOK, NEW c \in Conn, ConnInv(c), Step(c)
  PROVE  \/ out'[c] = out[c]
         \/ \E m \in Message : out'[c] = Append(out[c], m)
         \/ Connected(c) /\ out'[c] = Append(out[c], Answer("CONNECTED"))
         \/ Refuse(c) /\ out'[c] = Append(out[c], Answer("ERROR"))
         \/ Error(c) /\ out'[c] = Append(out[c], Answer("ERROR"))
         \/ Receipt(c) /\ out'[c] = Append(out[c], Answer("RECEIPT"))
<1>1. CASE UNCHANGED out
  BY <1>1
<1>2. CASE Connected(c) \/ Refuse(c) \/ Error(c) \/ Receipt(c)
  BY <1>2, SendToOut DEF Connected, Refuse, Error, Receipt, handlerVars
<1>3. CASE Deliver(c)
  BY <1>3, SendToOut, MessageType DEF Deliver, ConnInv
<1> QED
  BY <1>1, <1>2, <1>3 DEF handlerVars, Step, ThreadStep, ProtocolStep, Accept, Open, Read,
     Process, StopReading, AutoClose, Return, Close, Unwind, Connect, Register, Verify,
     CheckOnline, Login, Session, Subscribe, Unsubscribe, VisitTopic, EndUnsubscribe, Send,
     VisitSubscriber, EndBroadcast, Disconnect, LeaveTopic, LeaveServer, RemoveHandler

(* Where a thread goes that has sent its ERROR.                            *)
LEMMA AfterError ==
  ASSUME TypeOK, NEW c \in Conn, ErrorSent(c), Answers(c, "ERROR") # {}, Step(c)
  PROVE  /\ shouldTerminate'[c]
         /\ \/ pc'[c] \in {"check", "crash", "ended"}
            \/ pc'[c] = "disconnect" /\ frame'[c].cmd = "CONNECT"
<1> USE DEF Goto, At
<1>0. /\ pc \in [Conn -> Label]
      /\ shouldTerminate[c]
      /\ \/ pc[c] \in {"check", "crash", "ended"}
         \/ pc[c] = "disconnect" /\ frame[c].cmd = "CONNECT"
  BY DEF TypeOK, ErrorSent
<1>1. \/ Return(c) \/ Unwind(c) \/ LeaveServer(c)
      \/ \E t \in Topic : LeaveTopic(c, t)
  BY <1>0 DEF Step, ThreadStep, ProtocolStep, Accept, Read, Process, StopReading, Connect,
     Register, Verify, CheckOnline, Login, Session, Connected, Refuse, Error, Subscribe,
     Unsubscribe, VisitTopic, EndUnsubscribe, Send, VisitSubscriber, Deliver, EndBroadcast,
     Disconnect, Receipt
<1> QED BY <1>0, <1>1 DEF Return, Unwind, LeaveServer, LeaveTopic, localVars

(* No thread answers after its ERROR.                                      *)
LEMMA OwnError ==
  ASSUME TypeOK, NEW c \in Conn, ConnInv(c), Step(c)
  PROVE  ErrorSent(c)'
<1>0. /\ pc \in [Conn -> Label] /\ shouldTerminate \in [Conn -> BOOLEAN]
      /\ CommandAt(c) /\ ErrorSent(c)
  BY DEF TypeOK, ConnInv
<1>1. ASSUME Answers(c, "ERROR")' = Answers(c, "ERROR"),
             \/ out'[c] = out[c]
             \/ \E m : out'[c] = Append(out[c], m)
                        /\ (m.cmd = "MESSAGE" \/ Answers(c, "ERROR") = {})
      PROVE  ErrorSent(c)'
  <2>1. \A i, j \in DOMAIN out'[c] :
          i < j /\ out'[c][i].cmd = "ERROR" => out'[c][j].cmd = "MESSAGE"
    <3>1. CASE out'[c] = out[c]
      BY <1>0, <3>1 DEF ErrorSent
    <3>2. CASE \E m : out'[c] = Append(out[c], m)
                      /\ (m.cmd = "MESSAGE" \/ Answers(c, "ERROR") = {})
      BY <1>0, <3>2, ErrorStaysFinal
    <3> QED BY <1>1, <3>1, <3>2
  <2>2. Answers(c, "ERROR") # {} =>
          /\ shouldTerminate'[c]
          /\ \/ pc'[c] \in {"check", "crash", "ended"}
             \/ pc'[c] = "disconnect" /\ frame'[c].cmd = "CONNECT"
    BY <1>0, AfterError
  <2> QED BY <1>1, <2>1, <2>2 DEF ErrorSent
<1>2. CASE out'[c] = out[c] \/ \E m \in Message : out'[c] = Append(out[c], m)
  <2>1. \A m \in Message : m.cmd = "MESSAGE"
    BY DEF Message
  <2> QED BY <1>1, <1>2, <2>1, MessageIsNoAnswer
<1>3. CASE \/ Connected(c) /\ out'[c] = Append(out[c], Answer("CONNECTED"))
           \/ Receipt(c) /\ out'[c] = Append(out[c], Answer("RECEIPT"))
  <2>1. Answers(c, "ERROR") = {}
    BY <1>0, <1>3 DEF Connected, Receipt, At, ErrorSent
  <2>2. PICK m : out'[c] = Append(out[c], m) /\ m.cmd # "ERROR"
    BY <1>3 DEF Answer
  <2>3. Answers(c, "ERROR")' = Answers(c, "ERROR")
    BY <2>2, OtherFrame
  <2> QED BY <1>1, <2>1, <2>2, <2>3
<1>4. CASE /\ Refuse(c) \/ Error(c)
           /\ out'[c] = Append(out[c], Answer("ERROR"))
  <2>1. Answers(c, "ERROR") = {}
    BY <1>0, <1>4 DEF Refuse, Error, At, ErrorSent
  <2>2. \A i, j \in DOMAIN out'[c] :
          i < j /\ out'[c][i].cmd = "ERROR" => out'[c][j].cmd = "MESSAGE"
    BY <1>0, <1>4, <2>1, ErrorStaysFinal
  <2>3. /\ shouldTerminate'[c]
        /\ pc'[c] = "check" \/ (pc'[c] = "disconnect" /\ frame'[c].cmd = "CONNECT")
    BY <1>0, <1>4 DEF Refuse, Error, At, Goto, Terminate, CommandAt
  <2> QED BY <2>2, <2>3 DEF ErrorSent
<1> QED BY <1>2, <1>3, <1>4, OwnWrites
(* The handlers that build a session up, and what they leave behind.       *)
LEMMA SessionSteps ==
  ASSUME TypeOK, NEW c \in Conn, Step(c)
  PROVE  /\ pc'[c] \in {"verify", "online", "login", "session", "connected"} =>
              Connect(c) \/ Register(c) \/ Verify(c) \/ CheckOnline(c) \/ Login(c) \/ Session(c)
         /\ ~Login(c) => username'[c] = username[c]
         /\ ~Session(c) => idToUsername'[c] = idToUsername[c]
<1> USE DEF Goto, At, localVars, connectionsVars
<1>0. pc \in [Conn -> Label]
  BY DEF TypeOK
<1>1. CASE Connect(c) \/ Register(c) \/ Verify(c) \/ CheckOnline(c) \/ Login(c) \/ Session(c)
  BY <1>1 DEF Connect, Register, PutRegisted, Verify, CheckOnline, Login, PutLoggedIn, Session
<1>2. CASE Accept(c) \/ Read(c) \/ StopReading(c) \/ Return(c) \/ Unwind(c)
  <2>1. pc'[c] \in Command \cup {"read", "ended", "error"}
    BY <1>0, <1>2, ReadFrame DEF Accept, Read, Process, StopReading, Return, Unwind, Frame, Command
  <2>2. UNCHANGED <<username, idToUsername>>
    BY <1>2 DEF Accept, AddConnection, Read, Process, StopReading, Return, Unwind
  <2> QED BY <2>1, <2>2 DEF Command
<1>3. CASE Connected(c) \/ Refuse(c) \/ Error(c) \/ Receipt(c) \/ Disconnect(c) \/ Subscribe(c)
           \/ Unsubscribe(c) \/ EndUnsubscribe(c) \/ EndBroadcast(c)
  BY <1>0, <1>3 DEF Connected, Refuse, Error, Receipt, Disconnect, Subscribe, AddSubscriber,
     Unsubscribe, EndUnsubscribe, EndBroadcast
<1>4. CASE Send(c) \/ Deliver(c) \/ (\E e \in Conn : VisitSubscriber(c, e)) \/ LeaveServer(c)
           \/ \E t \in Topic : VisitTopic(c, t) \/ LeaveTopic(c, t)
  BY <1>0, <1>4 DEF Send, Deliver, VisitSubscriber, VisitTopic, LeaveTopic, RemoveEntry,
     RemoveSubscriber, LeaveServer, RemoveHandler
<1> QED BY <1>1, <1>2, <1>3, <1>4 DEF Step, ThreadStep, ProtocolStep

(* A login finds its user registered, marks it online, then records the    *)
(* connection: each step relies on what the one before it did, and no      *)
(* other thread takes any of it back.                                      *)
LEMMA OwnSession ==
  ASSUME TypeOK, NEW c \in Conn, ConnInv(c), Step(c), OnlyGrows
  PROVE  SessionBuilt(c)'
<1> USE DEF Goto, At
<1>0. /\ pc \in [Conn -> Label] /\ username \in [Conn -> User \cup {NONE}]
      /\ registedClients \in [User -> Pass \cup {NONE}] /\ LoggedIn \in [User -> BOOLEAN]
      /\ idToUsername \in [Conn -> User \cup {NONE}]
      /\ CommandAt(c) /\ SessionBuilt(c)
  BY DEF TypeOK, ConnInv
<1>1. pc'[c] \in {"verify", "online", "login", "session"} =>
        registedClients'[frame'[c].login] # NONE
  <2>1. CASE Connect(c)
    <3>1. UNCHANGED <<registedClients, frame>>
      BY <2>1 DEF Connect, localVars, connectionsVars
    <3>2. pc'[c] = "verify" => registedClients[frame[c].login] # NONE
      BY <1>0, <2>1 DEF Connect
    <3>3. pc'[c] \in {"refuse", "crash", "register", "verify"}
      BY <1>0, <2>1 DEF Connect
    <3> QED BY <3>1, <3>2, <3>3
  <2>2. CASE Register(c)
    BY <1>0, <2>2 DEF Register, PutRegisted, CommandAt, localVars
  <2>3. CASE Verify(c) \/ CheckOnline(c)
    BY <1>0, <2>3 DEF Verify, CheckOnline, SessionBuilt, localVars, connectionsVars
  <2>4. CASE Login(c) \/ Session(c)
    BY <1>0, <2>4 DEF Login, PutLoggedIn, Session, SessionBuilt, localVars
  <2> QED BY <2>1, <2>2, <2>3, <2>4, SessionSteps
<1>2. pc'[c] = "session" => username'[c] = frame'[c].login /\ isOnline(frame[c].login)' /\ frame' = frame
  <2>1. CASE Login(c)
    BY <1>0, <2>1 DEF Login, PutLoggedIn, isOnline, CommandAt
  <2>2. CASE Connect(c) \/ Register(c) \/ Verify(c) \/ CheckOnline(c) \/ Session(c)
    BY <1>0, <2>2 DEF Connect, Register, Verify, CheckOnline, Session
  <2> QED BY <2>1, <2>2, SessionSteps
<1>3. Session(c) => SessionOf(c, frame[c].login)' /\ frame' = frame /\ username'[c] = frame[c].login
  BY <1>0 DEF Session, PutUsername, SessionBuilt, SessionOf, isOnline, CommandAt, localVars
<1>4. pc'[c] = "connected" => SessionOf(c, frame[c].login)' /\ frame' = frame
  <2>1. CASE Connect(c) \/ Register(c) \/ Verify(c) \/ CheckOnline(c) \/ Login(c)
    BY <1>0, <2>1 DEF Connect, Register, Verify, CheckOnline, Login
  <2> QED BY <1>3, <2>1, SessionSteps
<1>5. Answers(c, "CONNECTED")' # {} /\ pc'[c] # "session" => SessionOf(c, username[c])'
  <2>1. CASE Login(c)
    BY <1>0, <2>1 DEF Login
  <2>2. CASE Session(c)
    BY <1>3, <2>2 DEF SessionOf, isOnline
  <2>3. CASE ~Login(c) /\ ~Session(c) /\ SessionOf(c, username[c])
    BY <2>3, SessionSteps DEF SessionOf, OnlyGrows
  <2>4. CASE ~Login(c) /\ ~Session(c) /\ Answers(c, "CONNECTED")' = Answers(c, "CONNECTED")
    <3>1. pc[c] = "session" => Session(c)
      BY DEF Step, ThreadStep, ProtocolStep, Accept, Read, Process, StopReading, Return, Unwind,
         Connect, Register, Verify, CheckOnline, Login, Connected, Refuse, Error, Subscribe,
         Unsubscribe, VisitTopic, EndUnsubscribe, Send, VisitSubscriber, Deliver, EndBroadcast,
         Disconnect, LeaveTopic, LeaveServer, Receipt
    <3> QED BY <1>0, <2>3, <2>4, <3>1 DEF SessionBuilt
  <2>5. CASE Connected(c)
    <3>1. pc[c] = "connected" /\ SessionOf(c, username[c])
      BY <1>0, <2>5 DEF Connected, SessionBuilt, SessionOf
    <3> QED BY <2>1, <2>2, <2>3, <3>1
  <2>6. CASE out'[c] = out[c] \/ \E m \in Message : out'[c] = Append(out[c], m)
    BY <2>1, <2>2, <2>4, <2>6, MessageIsNoAnswer
  <2>7. CASE out'[c] = Append(out[c], Answer("ERROR")) \/ out'[c] = Append(out[c], Answer("RECEIPT"))
    BY <2>1, <2>2, <2>4, <2>7, OtherFrame DEF Answer
  <2> QED BY <2>5, <2>6, <2>7, OwnWrites
<1> QED BY <1>1, <1>2, <1>4, <1>5 DEF SessionBuilt, SessionOf, isOnline
-----------------------------------------------------------------------------
(* Every step keeps the inductive invariant: the types by TypeStep, the    *)
(* part of the stepping thread by the Own lemmas, the others' by           *)
(* StepElsewhere and OthersKeep.                                           *)
LEMMA NextInv == IInv /\ [Next]_vars => IInv'
<1> SUFFICES ASSUME IInv, [Next]_vars PROVE IInv'
  OBVIOUS
<1>0. TypeOK /\ \A d \in Conn : ConnInv(d)
  BY DEF IInv
<1>1. CASE UNCHANGED vars
  <2>1. TypeOK'
    BY <1>0, <1>1 DEF vars, handlerVars, connectionsVars, protocolVars, TypeOK
  <2>2. ASSUME NEW d \in Conn PROVE ConnInv(d)'
    <3>1. Undisturbed(d) /\ OnlyGrows
      BY <1>1 DEF vars, handlerVars, connectionsVars, protocolVars, Undisturbed, OnlyGrows, isOnline
    <3> QED BY <1>0, <3>1, OthersKeep
  <2> QED BY <2>1, <2>2 DEF IInv
<1>2. ASSUME NEW c \in Conn, Step(c) PROVE IInv'
  <2>1. CommandAt(c)
    BY <1>0 DEF ConnInv
  <2>2. TypeOK' /\ OnlyGrows
    BY <1>0, <1>2, <2>1, TypeStep, StepGrows
  <2>3. ConnInv(c)'
    BY <1>0, <1>2, <2>2, OwnCommandAt, OwnActive, OwnEntries, OwnAhead, OwnAuthor, OwnDone,
       OwnError, OwnSession DEF ConnInv
  <2>4. ASSUME NEW d \in Conn, d # c PROVE ConnInv(d)'
    BY <1>0, <1>2, <2>1, <2>2, <2>4, StepElsewhere, OthersKeep
  <2> QED BY <2>2, <2>3, <2>4 DEF IInv
<1> QED BY <1>1, <1>2 DEF Next, Step

(* IInv is an invariant of the server.                                     *)
THEOREM Invariance == Spec => []IInv
<1>1. Init => IInv
  BY InitInv
<1>2. IInv /\ [Next]_vars => IInv'
  BY NextInv
<1> QED BY <1>1, <1>2, PTL DEF Spec

(* Type correctness of the server.                                         *)
THEOREM TypeCorrect == Spec => []TypeOK
<1>1. IInv => TypeOK
  BY DEF IInv
<1> QED BY <1>1, Invariance, PTL

(* disconnect always finds its handler in activeConnections, so close() is *)
(* never called on null.                                                   *)
THEOREM HandlerAlwaysFound == Spec => []HandlerFound
<1>1. IInv => HandlerFound
  BY DEF IInv, ConnInv, ActiveUntilGone, HandlerFound, At
<1> QED BY <1>1, Invariance, PTL

(* A connection that has left the server is in no topic.                   *)
THEOREM GoneFromTopics == Spec => []LoggedOutIsGone
<1>1. IInv => LoggedOutIsGone
  BY DEF IInv, ConnInv, EntriesOf, LoggedOutIsGone
<1> QED BY <1>1, Invariance, PTL

(* A RECEIPT is only written when what it acknowledges is the case.        *)
THEOREM ReceiptsAreTrue == Spec => []ReceiptMeansDone
<1>1. IInv => ReceiptMeansDone
  BY DEF IInv, ConnInv, Done, ActiveUntilGone, ReceiptMeansDone, At
<1> QED BY <1>1, Invariance, PTL

(* ERROR is the last answer of a connection.                               *)
THEOREM ErrorsAreFinal == Spec => []ErrorIsFinal
<1>1. IInv => ErrorIsFinal
  BY DEF IInv, ConnInv, ErrorSent, ErrorIsFinal
<1> QED BY <1>1, Invariance, PTL

(* The maps and the protocol object agree on the user of a session.        *)
THEOREM SessionsAgree == Spec => []AnsweredIsOnline
<1>1. IInv => AnsweredIsOnline
  <2> SUFFICES ASSUME IInv, NEW c \in activeConnections,
                      \E i \in DOMAIN out[c] : out[c][i].cmd = "CONNECTED", ~At(c, "session")
               PROVE  /\ username[c] # NONE
                      /\ idToUsername[c] = username[c]
                      /\ isOnline(username[c])
                      /\ registedClients[username[c]] # NONE
    BY DEF AnsweredIsOnline
  <2>1. c \in Conn /\ SessionBuilt(c)
    BY DEF IInv, TypeOK, ConnInv
  <2>2. SessionOf(c, username[c])
    BY <2>1 DEF SessionBuilt, Answers, At
  <2> QED BY <2>2, NoneAssumption DEF SessionOf
<1> QED BY <1>1, Invariance, PTL
=============================================================================
