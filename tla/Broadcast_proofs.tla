--------------------------- MODULE Broadcast_proofs ---------------------------
(***************************************************************************)
(* A broadcast reaches its subscribers once, in order and under ids of     *)
(* their own, for any number of connections, users, topics and frames.     *)
(*                                                                         *)
(* The first lemmas say what one step of any thread does to the messages   *)
(* in a socket, to the traversal of another thread and to who can be       *)
(* reached; then BroadcastInv is shown to survive it, part by part.        *)
(***************************************************************************)
EXTENDS BroadcastInvariant, ThreadPerClientSession_proofs

-----------------------------------------------------------------------------
(* What is written to a socket: an answer, or the MESSAGE of Deliver.      *)
LEMMA StepWrites ==
  ASSUME TypeOK, NEW x \in Conn, CommandAt(x), Step(x), NEW d \in Conn
  PROVE  \/ out'[d] = out[d]
         \/ \E m : m.cmd # "MESSAGE" /\ out'[d] = Append(out[d], m)
         \/ /\ Deliver(x) /\ d = target[x].to
            /\ out'[d] = Append(out[d], MessageOf(x))
<1>1. CASE UNCHANGED out
  BY <1>1
<1>2. CASE Connected(x) \/ Refuse(x) \/ Error(x) \/ Receipt(x)
  <2>1. \/ UNCHANGED out
        \/ \E command \in {"CONNECTED", "RECEIPT", "ERROR"} : SendTo(x, Answer(command))
    BY <1>2 DEF Connected, Refuse, Error, Receipt, handlerVars
  <2>2. \A command \in {"CONNECTED", "RECEIPT", "ERROR"} : Answer(command).cmd # "MESSAGE"
    BY DEF Answer
  <2> QED BY <2>1, <2>2, SendToOut
<1>3. CASE Deliver(x)
  <2>1. target[x].to \in Conn /\ SendTo(target[x].to, MessageOf(x))
    BY <1>3, MessageType DEF Deliver
  <2> QED BY <1>3, <2>1, SendToOut
<1> QED
  BY <1>1, <1>2, <1>3, SocketSteps DEF handlerVars, Accept, Open, Return, Close, AutoClose,
     StopReading, Unwind, LeaveServer, RemoveHandler

(* Another frame leaves the messages of c where they are.                  *)
LEMMA SameMessages ==
  ASSUME TypeOK, NEW d \in Conn, NEW c \in Conn,
         \/ out'[d] = out[d]
         \/ \E m : /\ m.cmd # "MESSAGE" \/ m.sender # c
                   /\ out'[d] = Append(out[d], m)
  PROVE  /\ FromSender(d, c)' = FromSender(d, c)
         /\ \A i \in FromSender(d, c) : out'[d][i] = out[d][i]
<1>1. CASE out'[d] = out[d]
  BY <1>1 DEF FromSender
<1>2. ASSUME NEW m, m.cmd # "MESSAGE" \/ m.sender # c, out'[d] = Append(out[d], m)
      PROVE  /\ FromSender(d, c)' = FromSender(d, c)
             /\ \A i \in FromSender(d, c) : out'[d][i] = out[d][i]
  <2>1. out[d] \in Seq(ServerFrame)
    BY DEF TypeOK
  <2>2. /\ DOMAIN out'[d] = 1..(Len(out[d]) + 1)
        /\ \A i \in 1..Len(out[d]) : out'[d][i] = out[d][i]
        /\ out'[d][Len(out[d]) + 1] = m
        /\ DOMAIN out[d] = 1..Len(out[d])
        /\ Len(out[d]) \in Nat
    BY <1>2, <2>1
  <2> QED BY <1>2, <2>2 DEF FromSender
<1> QED BY <1>1, <1>2

(* A message of c comes after those that are there.                        *)
LEMMA OneMore ==
  ASSUME TypeOK, NEW d \in Conn, NEW c \in Conn, NEW m,
         m.cmd = "MESSAGE", m.sender = c, out'[d] = Append(out[d], m)
  PROVE  /\ Len(out[d]) \in Nat
         /\ FromSender(d, c)' = FromSender(d, c) \cup {Len(out[d]) + 1}
         /\ FromSender(d, c) \subseteq 1..Len(out[d])
         /\ \A i \in FromSender(d, c) : out'[d][i] = out[d][i]
         /\ out'[d][Len(out[d]) + 1] = m
<1>1. out[d] \in Seq(ServerFrame)
  BY DEF TypeOK
<1>2. /\ DOMAIN out'[d] = 1..(Len(out[d]) + 1)
      /\ \A i \in 1..Len(out[d]) : out'[d][i] = out[d][i]
      /\ out'[d][Len(out[d]) + 1] = m
      /\ DOMAIN out[d] = 1..Len(out[d])
      /\ Len(out[d]) \in Nat
  BY <1>1
<1> QED BY <1>2 DEF FromSender

(* Every MESSAGE has an id.                                                *)
LEMMA MessageFields ==
  ASSUME TypeOK, NEW d \in Conn, NEW c \in Conn, NEW i \in FromSender(d, c)
  PROVE  out[d][i].messageId \in Nat
<1>1. out[d] \in Seq(ServerFrame) /\ i \in DOMAIN out[d]
  BY DEF TypeOK, FromSender
<1>2. out[d][i] \in ServerFrame
  BY <1>1
<1>3. out[d][i] \in Message
  BY <1>2 DEF FromSender, ServerFrame, Reply
<1> QED BY <1>3 DEF Message

(* Only the author of a broadcast adds to its messages.                    *)
LEMMA MessagesKept ==
  ASSUME TypeOK, NEW x \in Conn, CommandAt(x), Step(x), NEW c \in Conn, NEW d \in Conn,
         x # c \/ ~Deliver(x) \/ d # target[x].to
  PROVE  /\ FromSender(d, c)' = FromSender(d, c)
         /\ \A i \in FromSender(d, c) : out'[d][i] = out[d][i]
<1>1. \/ out'[d] = out[d]
      \/ \E m : m.cmd # "MESSAGE" /\ out'[d] = Append(out[d], m)
      \/ x # c /\ out'[d] = Append(out[d], MessageOf(x))
  BY StepWrites
<1>2. MessageOf(x).sender = x
  BY DEF MessageOf
<1> QED BY <1>1, <1>2, SameMessages

(* A message that is written at last is the latest one of its author.      *)
LEMMA DeliverWrites ==
  ASSUME TypeOK, NEW c \in Conn, CommandAt(c), Deliver(c), NEW d \in Conn, d = target[c].to
  PROVE  \/ out'[d] = Append(out[d], MessageOf(c))
         \/ /\ out'[d] = out[d]
            /\ d \notin activeConnections' \/ ~connected'[d] \/ sock'[d] # "open"
<1>1. SendTo(d, MessageOf(c)) /\ UNCHANGED activeConnections
  BY DEF Deliver, connectionsVars
<1>2. CASE d \notin activeConnections
  BY <1>1, <1>2 DEF SendTo, handlerVars
<1>3. CASE WriteSucceeds(d, MessageOf(c))
  BY <1>3 DEF WriteSucceeds, TypeOK
<1>4. CASE WriteFails(d)
  BY <1>4 DEF WriteFails, TypeOK
<1> QED BY <1>1, <1>2, <1>3, <1>4 DEF SendTo, Write

(* Message ids are taken by SEND only.                                     *)
LEMMA CounterSteps ==
  ASSUME TypeOK, NEW x \in Conn, Step(x), NEW c \in Conn
  PROVE  \/ messageIdCounter'[c] = messageIdCounter[c]
         \/ /\ x = c /\ Send(c)
            /\ messageIdCounter'[c] = messageIdCounter[c] + 1
<1>1. \/ UNCHANGED messageIdCounter
      \/ Send(x) /\ TakeMessageId(x)
  BY DEF localVars, Step, ThreadStep, ProtocolStep, Accept, Read, Process, StopReading, Return,
     Unwind, Connect, Register, Verify, CheckOnline, Login, Session, Connected, Refuse, Error,
     Subscribe, Unsubscribe, EndUnsubscribe, Send, Deliver, EndBroadcast, Disconnect, LeaveServer,
     Receipt, VisitTopic, LeaveTopic, VisitSubscriber
<1> QED BY <1>1 DEF TakeMessageId, TypeOK
-----------------------------------------------------------------------------
(* What the traversal of c has left and has seen is its own, but that an   *)
(* entry may go: that of a thread that logs out or unsubscribes.           *)
LEMMA OtherTraversal ==
  ASSUME TypeOK, NEW x \in Conn, Step(x), NEW c \in Conn, c # x
  PROVE  \/ present'[c] = present[c] /\ seen'[c] = seen[c]
         \/ /\ Sending(c)
            /\ pc[x] \in {"disconnect", "unsubscribe"}
            /\ present'[c] = present[c] \ {x}
            /\ seen'[c] = seen[c] \ {x}
            /\ topicSubscribers'[frame[c].destination][x] = NONE
<1>0. /\ present \in [Conn -> SUBSET (Topic \cup Conn)]
      /\ seen \in [Conn -> SUBSET (Topic \cup Conn)]
      /\ topicSubscribers \in [Topic -> [Conn -> SubId \cup {NONE}]]
  BY DEF TypeOK
<1>1. CASE UNCHANGED <<present, seen>>
  BY <1>1
<1>2. ASSUME NEW entries, BeginTraversal(x, entries)
      PROVE  present'[c] = present[c] /\ seen'[c] = seen[c]
  BY <1>0, <1>2 DEF BeginTraversal
<1>3. ASSUME NEW t \in Topic, RemoveEntry(x, t), pc[x] \in {"disconnect", "unsubscribe"}
      PROVE  \/ present'[c] = present[c] /\ seen'[c] = seen[c]
             \/ /\ Sending(c)
                /\ present'[c] = present[c] \ {x}
                /\ seen'[c] = seen[c] \ {x}
                /\ topicSubscribers'[frame[c].destination][x] = NONE
  <2>1. CASE ~Broadcasting(c, t)
    BY <1>0, <1>3, <2>1 DEF RemoveEntry
  <2>2. CASE Broadcasting(c, t)
    <3>1. present'[c] = present[c] \ {x} /\ seen'[c] = seen[c] \ {x}
      BY <1>0, <1>3, <2>2 DEF RemoveEntry
    <3>2. frame[c].destination = t /\ Sending(c)
      BY <2>2 DEF Broadcasting, Sending
    <3>3. topicSubscribers'[t][x] = NONE
      BY <1>3, RemoveEntryEffect
    <3> QED BY <3>1, <3>2, <3>3
  <2> QED BY <2>1, <2>2
<1>4. ASSUME NEW t \in Topic, VisitTopic(x, t) \/ LeaveTopic(x, t)
      PROVE  \/ UNCHANGED <<present, seen>>
             \/ RemoveEntry(x, t) /\ pc[x] \in {"disconnect", "unsubscribe"}
             \/ present' = present /\ seen' = [seen EXCEPT ![x] = @ \cup {t}]
  BY <1>4 DEF VisitTopic, LeaveTopic, At
<1>5. ASSUME NEW d \in Conn, VisitSubscriber(x, d)
      PROVE  present'[c] = present[c] /\ seen'[c] = seen[c]
  BY <1>0, <1>5 DEF VisitSubscriber
<1>6. ASSUME NEW t \in Topic, VisitTopic(x, t) \/ LeaveTopic(x, t)
      PROVE  \/ present'[c] = present[c] /\ seen'[c] = seen[c]
             \/ /\ Sending(c)
                /\ pc[x] \in {"disconnect", "unsubscribe"}
                /\ present'[c] = present[c] \ {x}
                /\ seen'[c] = seen[c] \ {x}
                /\ topicSubscribers'[frame[c].destination][x] = NONE
  <2>1. CASE present' = present /\ seen' = [seen EXCEPT ![x] = @ \cup {t}]
    BY <1>0, <2>1
  <2> QED BY <1>3, <1>4, <1>6, <2>1
<1>7. \/ UNCHANGED <<present, seen>>
      \/ \E entries : BeginTraversal(x, entries)
      \/ \E t \in Topic : VisitTopic(x, t) \/ LeaveTopic(x, t)
      \/ \E d \in Conn : VisitSubscriber(x, d)
  BY DEF localVars, Step, ThreadStep, ProtocolStep, Accept, Read, Process, StopReading, Return,
     Unwind, Connect, Register, Verify, CheckOnline, Login, Session, Connected, Refuse, Error,
     Subscribe, Unsubscribe, EndUnsubscribe, Send, Deliver, EndBroadcast, Disconnect, LeaveServer,
     Receipt
<1> QED BY <1>1, <1>2, <1>5, <1>6, <1>7

Reachable(d) == d \in activeConnections /\ connected[d] /\ sock[d] = "open"

(* A connection that can be reached could be reached before, unless it has *)
(* just been accepted.                                                     *)
LEMMA ReachableBefore ==
  ASSUME TypeOK, NEW x \in Conn, CommandAt(x), Step(x), NEW d \in Conn,
         pc[d] # "idle", Reachable(d)'
  PROVE  Reachable(d)
<1> USE DEF Reachable
<1>0. sock \in [Conn -> {"none", "open", "closed"}] /\ connected \in [Conn -> BOOLEAN]
  BY DEF TypeOK
<1>1. ASSUME NEW e \in Conn, NEW f, SendTo(e, f)
      PROVE  sock' = sock /\ (connected'[d] => connected[d])
  BY <1>0, <1>1 DEF SendTo, Write, WriteSucceeds, WriteFails, handlerVars
<1>2. activeConnections' \subseteq activeConnections \/ Accept(x)
  BY DEF connectionsVars, localVars, Step, ThreadStep, ProtocolStep, Read, Process, StopReading,
     Return, Unwind, Connect, Register, PutRegisted, Verify, CheckOnline, Login, PutLoggedIn,
     Session, PutUsername, Connected, Refuse, Error, Subscribe, AddSubscriber, Unsubscribe,
     EndUnsubscribe, Send, VisitSubscriber, Deliver, EndBroadcast, Disconnect, LeaveServer,
     RemoveHandler, Receipt, VisitTopic, LeaveTopic, RemoveEntry, RemoveSubscriber
<1>3. CASE Accept(x)
  <2>1. x # d
    BY <1>3 DEF Accept, At
  <2> QED BY <1>0, <1>3, <2>1 DEF Accept, Open, AddConnection
<1>4. CASE UNCHANGED handlerVars /\ ~Accept(x)
  BY <1>2, <1>4 DEF handlerVars
<1>5. CASE Return(x) \/ StopReading(x) \/ Unwind(x) \/ LeaveServer(x)
  <2>1. sock'[d] = "open" /\ connected'[d] => sock[d] = "open" /\ connected[d]
    BY <1>0, <1>5 DEF Return, StopReading, Unwind, LeaveServer, RemoveHandler, Close, AutoClose,
       handlerVars
  <2>2. ~Accept(x)
    BY <1>5 DEF Return, StopReading, Unwind, LeaveServer, Accept, At
  <2> QED BY <1>2, <2>1, <2>2
<1>6. CASE Connected(x) \/ Refuse(x) \/ Error(x) \/ Receipt(x)
  <2>1. UNCHANGED handlerVars \/ \E command : SendTo(x, Answer(command))
    BY <1>6 DEF Connected, Refuse, Error, Receipt
  <2>2. ~Accept(x)
    BY <1>6 DEF Connected, Refuse, Error, Receipt, Accept, At
  <2> QED BY <1>1, <1>2, <2>1, <2>2 DEF handlerVars
<1>7. CASE Deliver(x)
  <2>1. target[x].to \in Conn /\ SendTo(target[x].to, MessageOf(x))
    BY <1>7, MessageType DEF Deliver
  <2>2. ~Accept(x)
    BY <1>7 DEF Deliver, Accept, At
  <2> QED BY <1>1, <1>2, <2>1, <2>2
<1> QED BY <1>3, <1>4, <1>5, <1>6, <1>7, SocketSteps

(* No connection goes back to where it has not been accepted.              *)
LEMMA AcceptedStays ==
  ASSUME TypeOK, NEW x \in Conn, CommandAt(x), Step(x), NEW d \in Conn, pc[d] # "idle"
  PROVE  pc'[d] # "idle"
<1>0. pc \in [Conn -> Label]
  BY DEF TypeOK
<1>1. \E l : l # "idle" /\ pc' = [pc EXCEPT ![x] = l]
  <2> USE DEF Goto, At
  <2>1. CASE Read(x)
    <3>1. PICK f \in Frame : Process(x, f)
      BY <2>1, ReadFrame
    <3>2. f.cmd # "idle"
      BY DEF Frame, Command
    <3> QED BY <3>1, <3>2 DEF Process
  <2>2. CASE Accept(x) \/ StopReading(x) \/ Return(x) \/ Unwind(x)
    BY <2>2 DEF Accept, StopReading, Return, Unwind
  <2>3. CASE Connect(x) \/ Register(x) \/ Verify(x) \/ CheckOnline(x) \/ Login(x) \/ Session(x)
             \/ Connected(x) \/ Refuse(x) \/ Error(x)
    BY <2>3 DEF Connect, Register, Verify, CheckOnline, Login, Session, Connected, Refuse, Error
  <2>4. CASE Subscribe(x) \/ Unsubscribe(x) \/ EndUnsubscribe(x) \/ Send(x) \/ Deliver(x)
             \/ EndBroadcast(x) \/ Disconnect(x) \/ LeaveServer(x) \/ Receipt(x)
    BY <2>4 DEF Subscribe, Unsubscribe, EndUnsubscribe, Send, Deliver, EndBroadcast, Disconnect,
       LeaveServer, Receipt
  <2>5. ASSUME NEW t \in Topic, VisitTopic(x, t) \/ LeaveTopic(x, t)
        PROVE  \E l : l # "idle" /\ pc' = [pc EXCEPT ![x] = l]
    <3>1. CASE UNCHANGED pc /\ pc[x] # "idle"
      BY <1>0, <3>1
    <3>2. CASE Goto(x, "crash")
      BY <3>2
    <3> QED BY <2>5, <3>1, <3>2 DEF VisitTopic, LeaveTopic
  <2>6. ASSUME NEW e \in Conn, VisitSubscriber(x, e)
        PROVE  \E l : l # "idle" /\ pc' = [pc EXCEPT ![x] = l]
    BY <2>6 DEF VisitSubscriber
  <2> QED BY <2>1, <2>2, <2>3, <2>4, <2>5, <2>6 DEF Step, ThreadStep, ProtocolStep
<1> QED BY <1>0, <1>1

(* No step takes shouldTerminate back.                                     *)
LEMMA TerminateStays ==
  ASSUME TypeOK, NEW x \in Conn, Step(x), NEW d \in Conn, shouldTerminate[d]
  PROVE  shouldTerminate'[d]
  BY DEF TypeOK, Terminate, localVars, Step, ThreadStep, ProtocolStep, Accept, Read, Process,
     StopReading, Return, Unwind, Connect, Register, Verify, CheckOnline, Login, Session,
     Connected, Refuse, Error, Subscribe, Unsubscribe, EndUnsubscribe, Send, Deliver,
     EndBroadcast, Disconnect, LeaveServer, Receipt, VisitTopic, LeaveTopic, VisitSubscriber

(* A thread that is told to terminate stays so, and enters no topic any    *)
(* more.                                                                   *)
LEMMA GoneStaysGone ==
  ASSUME TypeOK, NEW x \in Conn, CommandAt(x), Step(x), NEW d \in Conn, Leaving(d),
         NEW t \in Topic, shouldTerminate[d], ~isSubscribed(d, t)
  PROVE  shouldTerminate'[d] /\ ~isSubscribed(d, t)'
<1>1. shouldTerminate'[d]
  BY TerminateStays
<1>2. CASE x # d
  BY <1>1, <1>2, StepElsewhere DEF Undisturbed, isSubscribed
<1>3. CASE x = d
  <2>1. pc[d] # "SUBSCRIBE"
    BY DEF Leaving
  <2>2. topicSubscribers'[t][d] = topicSubscribers[t][d] \/ topicSubscribers'[t][d] = NONE
    <3>1. CASE UNCHANGED topicSubscribers
      BY <3>1
    <3>2. ASSUME NEW s \in Topic, RemoveEntry(x, s)
          PROVE  topicSubscribers'[t][d] \in {topicSubscribers[t][d], NONE}
      BY <3>2 DEF RemoveEntry, RemoveSubscriber, TypeOK
    <3>3. \/ UNCHANGED topicSubscribers
          \/ \E s \in Topic : RemoveEntry(x, s)
      BY <1>3, <2>1, EntrySteps DEF Accept, AddConnection, Subscribe, At, LeaveServer, RemoveHandler,
         connectionsVars, VisitTopic, LeaveTopic
    <3> QED BY <3>1, <3>2, <3>3
  <2> QED BY <1>1, <2>2 DEF isSubscribed
<1> QED BY <1>2, <1>3
-----------------------------------------------------------------------------
(* No step of another thread breaks what c knows of its subscribers.       *)
LEMMA OthersPair ==
  ASSUME TypeOK, NEW x \in Conn, ConnInv(x), FrameOfClient(x), Step(x),
         NEW c \in Conn, c # x, CommandAt(c), NEW d \in Conn, Leaving(d), PairInv(c, d)
  PROVE  PairInv(c, d)'
<1>1. CommandAt(x)
  BY DEF ConnInv
<1>2. /\ pc'[c] = pc[c] /\ frame'[c] = frame[c] /\ target'[c] = target[c]
      /\ messageIdCounter'[c] = messageIdCounter[c]
  BY <1>1, StepElsewhere, CounterSteps DEF Undisturbed
<1>3. /\ FromSender(d, c)' = FromSender(d, c)
      /\ \A i \in FromSender(d, c) : out'[d][i] = out[d][i]
  BY <1>1, MessagesKept
<1>4. Latest(d, c)' = Latest(d, c)
  BY <1>2, <1>3 DEF Latest
<1>5. /\ Sending(c)' <=> Sending(c)
      /\ Sent(c)' <=> Sent(c)
      /\ Delivering(c, d)' <=> Delivering(c, d)
  BY <1>2 DEF Sending, Sent, Delivering
<1>6. present'[c] \subseteq present[c] /\ seen'[c] \subseteq seen[c]
  BY OtherTraversal
<1>7. Numbered(c, d)'
  BY <1>2, <1>3 DEF PairInv, Numbered
<1>8. VisitedOnce(c, d)'
  <2> SUFFICES ASSUME Sending(c), ~Unsubscribes(d), Delivering(c, d) \/ Latest(d, c) # {}
               PROVE  \/ d \in seen'[c]
                      \/ shouldTerminate'[d] /\ ~isSubscribed(d, frame[c].destination)'
    BY <1>4, <1>5, <1>2 DEF PairInv, VisitedOnce
  <2>1. CASE shouldTerminate[d] /\ ~isSubscribed(d, frame[c].destination)
    <3>1. frame[c].destination \in Topic
      BY DEF CommandAt, Sending
    <3> QED BY <1>1, <1>2, <2>1, <3>1, GoneStaysGone
  <2>2. CASE d \in seen[c] /\ d \notin seen'[c]
    <3>1. /\ d = x
          /\ pc[d] \in {"disconnect", "unsubscribe"}
          /\ topicSubscribers'[frame[c].destination][d] = NONE
      BY <2>2, OtherTraversal
    <3>2. pc[d] = "disconnect"
      BY <1>1, <3>1 DEF FrameOfClient, CommandAt, Unsubscribes
    <3>3. shouldTerminate[d] /\ shouldTerminate'[d]
      BY <3>1, <3>2, TerminateStays DEF ConnInv, ActiveUntilGone
    <3> QED BY <1>2, <3>1, <3>3 DEF isSubscribed
  <2> QED BY <2>1, <2>2 DEF PairInv, VisitedOnce
<1>9. AcceptedBefore(c, d)'
  <2>1. pc[d] # "idle" => pc'[d] # "idle"
    BY <1>1, AcceptedStays
  <2> QED BY <1>5, <1>6, <2>1 DEF PairInv, AcceptedBefore, Sent
<1>10. Reached(c, d)'
  <2> SUFFICES ASSUME d \in present'[c], Reachable(d)', Sending(c) \/ Sent(c)
               PROVE  /\ Sending(c) /\ d \in seen'[c] => Delivering(c, d) \/ Latest(d, c) # {}
                      /\ Sent(c) => Latest(d, c) # {}
    BY <1>4, <1>5 DEF Reached, Reachable
  <2>1. d \in present[c] /\ pc[d] # "idle"
    BY <1>6 DEF PairInv, AcceptedBefore, Sent
  <2>2. Reachable(d)
    BY <1>1, <2>1, ReachableBefore
  <2> QED BY <1>6, <2>1, <2>2 DEF PairInv, Reached, Reachable
<1> QED BY <1>7, <1>8, <1>9, <1>10 DEF PairInv
(* The steps of a broadcast, each with all it changes for a subscriber d.  *)

(* SEND takes the next id, which no message has, and has seen nobody yet.  *)
LEMMA SendPair ==
  ASSUME TypeOK, NEW c \in Conn, CommandAt(c), Step(c), Send(c),
         NEW d \in Conn, EntriesOf(d), pc[d] = "idle" => d \notin activeConnections, PairInv(c, d)
  PROVE  PairInv(c, d)'
<1>0. /\ pc \in [Conn -> Label] /\ messageIdCounter \in [Conn -> Nat \ {0}]
      /\ present \in [Conn -> SUBSET (Topic \cup Conn)]
      /\ seen \in [Conn -> SUBSET (Topic \cup Conn)]
  BY DEF TypeOK
<1>1. /\ FromSender(d, c)' = FromSender(d, c)
      /\ \A i \in FromSender(d, c) : out'[d][i] = out[d][i]
  <2>1. ~Deliver(c)
    BY DEF Send, Deliver, At
  <2> QED BY <2>1, MessagesKept
<1>2. \A i \in FromSender(d, c) : out[d][i].messageId \in Nat
  BY MessageFields
<1>3. CASE Goto(c, "error") /\ UNCHANGED <<messageIdCounter, present, seen>>
  <2>1. ~Sending(c)' /\ ~Sent(c)'
    BY <1>0, <1>3 DEF Goto, Sending, Sent
  <2>2. Numbered(c, d)'
    BY <1>1, <1>3 DEF PairInv, Numbered
  <2> QED BY <2>1, <2>2 DEF PairInv, VisitedOnce, AcceptedBefore, Reached
<1>4. CASE /\ TakeMessageId(c) /\ Goto(c, "broadcast")
           /\ BeginTraversal(c, Subscribers(frame[c].destination))
  <2>1. /\ messageIdCounter'[c] = messageIdCounter[c] + 1
        /\ pc'[c] = "broadcast"
        /\ present'[c] = Subscribers(frame[c].destination)
        /\ seen'[c] = {}
    BY <1>0, <1>4 DEF TakeMessageId, Goto, BeginTraversal
  <2>2. Numbered(c, d)'
    BY <1>0, <1>1, <1>2, <2>1 DEF PairInv, Numbered
  <2>3. Latest(d, c)' = {}
    BY <1>0, <1>1, <1>2, <2>1 DEF PairInv, Numbered, Latest
  <2>4. ~Delivering(c, d)' /\ ~Sent(c)'
    BY <2>1 DEF Delivering, Sent
  <2>5. VisitedOnce(c, d)'
    BY <2>3, <2>4 DEF VisitedOnce
  <2>6. AcceptedBefore(c, d)'
    <3>1. frame[c].destination \in Topic
      <4>1. pc[c] = "SEND" /\ frame[c].destination # NONE
        BY <2>1 DEF Send, At, Goto, TypeOK
      <4>2. frame[c].destination \in Topic \cup {NONE}
        BY <4>1, FrameFields DEF Label, Command
      <4> QED BY <4>1, <4>2
    <3>2. d \in present'[c] => pc[d] # "idle"
      BY <2>1, <3>1 DEF Subscribers, EntriesOf
    <3> QED BY <3>2, AcceptedStays DEF AcceptedBefore
  <2>7. Reached(c, d)'
    BY <2>1, <2>4 DEF Reached
  <2> QED BY <2>2, <2>5, <2>6, <2>7 DEF PairInv
<1> QED BY <1>3, <1>4 DEF Send

(* forEach turns to e, which it has not seen and not served.               *)
LEMMA VisitPair ==
  ASSUME TypeOK, NEW c \in Conn, CommandAt(c), Step(c), NEW e \in Conn, VisitSubscriber(c, e),
         NEW d \in Conn, PairInv(c, d)
  PROVE  PairInv(c, d)'
<1>0. /\ pc \in [Conn -> Label]
      /\ target \in [Conn -> Target \cup {NONE}]
      /\ seen \in [Conn -> SUBSET (Topic \cup Conn)]
  BY DEF TypeOK
<1>1. /\ pc[c] = "broadcast" /\ pc'[c] = "deliver"
      /\ target'[c].to = e
      /\ seen'[c] = seen[c] \cup {e}
      /\ e \notin seen[c] /\ isSubscribed(e, frame[c].destination)
  BY <1>0 DEF VisitSubscriber, At, Goto, Subscribers
<1>2. UNCHANGED <<frame, messageIdCounter, present, out, connected, sock, shouldTerminate,
                  activeConnections, topicSubscribers>>
  BY DEF VisitSubscriber, connectionsVars, handlerVars
<1>3. Latest(d, c)' = Latest(d, c) /\ Numbered(c, d)'
  BY <1>2 DEF Latest, FromSender, Numbered, PairInv
<1>4. /\ Sending(c) /\ Sending(c)' /\ ~Sent(c)'
      /\ ~Delivering(c, d)
      /\ Delivering(c, d)' <=> d = e
  BY <1>1 DEF Sending, Sent, Delivering
<1>5. VisitedOnce(c, d)'
  BY <1>1, <1>2, <1>3, <1>4 DEF PairInv, VisitedOnce, isSubscribed
<1>6. AcceptedBefore(c, d)'
  BY <1>2, <1>4, AcceptedStays DEF PairInv, AcceptedBefore
<1>7. Reached(c, d)'
  BY <1>1, <1>2, <1>3, <1>4 DEF PairInv, Reached
<1> QED BY <1>3, <1>5, <1>6, <1>7 DEF PairInv

(* The subscriber the traversal is at gets the message, unless it cannot   *)
(* be reached any more; nobody else gets anything.                         *)
LEMMA DeliverPair ==
  ASSUME TypeOK, NEW c \in Conn, CommandAt(c), Step(c), Deliver(c), NEW d \in Conn, PairInv(c, d)
  PROVE  PairInv(c, d)'
<1>0. pc \in [Conn -> Label] /\ messageIdCounter \in [Conn -> Nat \ {0}]
  BY DEF TypeOK
<1>1. pc[c] = "deliver" /\ pc'[c] = "broadcast"
  BY <1>0 DEF Deliver, At, Goto
<1>2. UNCHANGED <<frame, messageIdCounter, present, seen, shouldTerminate, activeConnections,
                  topicSubscribers>>
  BY DEF Deliver, connectionsVars
<1>3. /\ Sending(c) /\ Sending(c)' /\ ~Sent(c)'
      /\ ~Delivering(c, d)'
      /\ Delivering(c, d) <=> d = target[c].to
  BY <1>1 DEF Sending, Sent, Delivering
<1>4. AcceptedBefore(c, d)'
  BY <1>2, <1>3, AcceptedStays DEF PairInv, AcceptedBefore
<1>5. CASE d # target[c].to \/ out'[d] = out[d]
  <2>1. /\ FromSender(d, c)' = FromSender(d, c)
        /\ \A i \in FromSender(d, c) : out'[d][i] = out[d][i]
    BY <1>5, MessagesKept, SameMessages
  <2>2. Latest(d, c)' = Latest(d, c)
    BY <1>2, <2>1 DEF Latest
  <2>3. Numbered(c, d)'
    BY <1>2, <2>1 DEF PairInv, Numbered
  <2>4. VisitedOnce(c, d)'
    BY <1>2, <1>3, <2>2 DEF PairInv, VisitedOnce, isSubscribed
  <2>5. Reached(c, d)'
    <3>1. CASE d # target[c].to
      <4>1. pc[d] # "idle" /\ Reachable(d)' /\ d \in present[c] => Reachable(d)
        BY ReachableBefore
      <4>2. d \in present[c] => pc[d] # "idle"
        BY <1>3 DEF PairInv, AcceptedBefore
      <4> QED BY <1>2, <1>3, <2>2, <3>1, <4>1, <4>2 DEF PairInv, Reached, Reachable
    <3>2. CASE d = target[c].to /\ out'[d] = out[d]
      <4>1. out'[d] # Append(out[d], MessageOf(c))
        <5>1. out[d] \in Seq(ServerFrame)
          BY DEF TypeOK
        <5>2. Len(Append(out[d], MessageOf(c))) = Len(out[d]) + 1 /\ Len(out[d]) \in Nat
          BY <5>1
        <5> QED BY <3>2, <5>2
      <4>2. ~Reachable(d)'
        BY <3>2, <4>1, DeliverWrites DEF Reachable
      <4> QED BY <4>2 DEF Reached, Reachable
    <3> QED BY <1>5, <3>1, <3>2
  <2> QED BY <1>4, <2>3, <2>4, <2>5 DEF PairInv
<1>6. CASE d = target[c].to /\ out'[d] = Append(out[d], MessageOf(c))
  <2> DEFINE last == Len(out[d]) + 1
  <2>1. /\ Len(out[d]) \in Nat
        /\ FromSender(d, c)' = FromSender(d, c) \cup {last}
        /\ FromSender(d, c) \subseteq 1..Len(out[d])
        /\ \A i \in FromSender(d, c) : out'[d][i] = out[d][i]
        /\ out'[d][last] = MessageOf(c)
    <3>1. MessageOf(c).cmd = "MESSAGE" /\ MessageOf(c).sender = c
      BY DEF MessageOf
    <3> QED BY <1>6, <3>1, OneMore
  <2>2. MessageOf(c).messageId = messageIdCounter[c] - 1
    BY DEF MessageOf
  <2>3. \A i \in FromSender(d, c) :
          /\ out[d][i].messageId \in Nat
          /\ out[d][i].messageId < messageIdCounter[c]
          /\ out[d][i].messageId = messageIdCounter[c] - 1 => Unsubscribes(d)
    <3>1. \A i \in FromSender(d, c) : out[d][i].messageId \in Nat
      BY MessageFields
    <3>2. \A i \in FromSender(d, c) : out[d][i].messageId < messageIdCounter[c]
      BY DEF PairInv, Numbered
    <3>3. ~Unsubscribes(d) => Latest(d, c) = {}
      BY <1>3, <1>6 DEF PairInv, VisitedOnce
    <3> QED BY <3>1, <3>2, <3>3 DEF Latest
  <2>4. Numbered(c, d)'
    <3>1. \A i \in FromSender(d, c)' : out'[d][i].messageId < messageIdCounter'[c]
      BY <1>0, <1>2, <2>1, <2>2, <2>3
    <3>2. ASSUME NEW i \in FromSender(d, c)', NEW j \in FromSender(d, c)', i < j
          PROVE  \/ out'[d][i].messageId < out'[d][j].messageId
                 \/ out'[d][i].messageId = out'[d][j].messageId /\ Unsubscribes(d)
      <4>1. i \in FromSender(d, c)
        BY <2>1, <3>2
      <4>2. CASE j = last
        <5>1. out'[d][i].messageId = out[d][i].messageId
          BY <2>1, <4>1
        <5>2. out'[d][j].messageId = messageIdCounter[c] - 1
          BY <2>1, <2>2, <4>2
        <5>3. out[d][i].messageId < messageIdCounter[c] - 1 \/ Unsubscribes(d)
          <6>1. CASE out[d][i].messageId = messageIdCounter[c] - 1
            BY <2>3, <4>1, <6>1
          <6>2. CASE out[d][i].messageId # messageIdCounter[c] - 1
            <7>1. out[d][i].messageId \in Nat /\ out[d][i].messageId < messageIdCounter[c]
              BY <2>3, <4>1
            <7> HIDE DEF last
            <7> QED BY <1>0, <6>2, <7>1
          <6> QED BY <6>1, <6>2
        <5>4. out[d][i].messageId \in Nat /\ out[d][i].messageId \leq messageIdCounter[c] - 1
          BY <1>0, <2>3, <4>1
        <5> QED BY <5>1, <5>2, <5>3, <5>4, <1>0
      <4>3. CASE j \in FromSender(d, c)
        BY <2>1, <3>2, <4>1, <4>3 DEF PairInv, Numbered
      <4> QED BY <2>1, <4>2, <4>3
    <3> QED BY <3>1, <3>2 DEF Numbered
  <2>5. last \in Latest(d, c)'
    BY <1>2, <2>1, <2>2 DEF Latest
  <2>6. VisitedOnce(c, d)'
    BY <1>2, <1>3, <1>6 DEF PairInv, VisitedOnce, isSubscribed
  <2>7. Reached(c, d)'
    BY <1>3, <2>5 DEF Reached
  <2> QED BY <1>4, <2>4, <2>6, <2>7 DEF PairInv
<1> QED BY <1>5, <1>6, DeliverWrites

(* At the end of forEach everybody who was there throughout is seen.       *)
LEMMA EndPair ==
  ASSUME TypeOK, NEW c \in Conn, CommandAt(c), Step(c), EndBroadcast(c), NEW d \in Conn, PairInv(c, d)
  PROVE  PairInv(c, d)'
<1>0. pc \in [Conn -> Label]
  BY DEF TypeOK
<1>1. /\ pc[c] = "broadcast" /\ pc'[c] = "receipt"
      /\ present[c] \subseteq seen[c]
  BY <1>0 DEF EndBroadcast, At, Goto
<1>2. UNCHANGED <<frame, messageIdCounter, present, seen, out, connected, sock, activeConnections>>
  BY DEF EndBroadcast, localVars, connectionsVars, handlerVars
<1>3. Latest(d, c)' = Latest(d, c) /\ Numbered(c, d)'
  BY <1>2 DEF Latest, FromSender, Numbered, PairInv
<1>4. Sending(c) /\ ~Sending(c)' /\ ~Delivering(c, d)
  BY <1>1 DEF Sending, Delivering
<1>5. VisitedOnce(c, d)'
  BY <1>4 DEF VisitedOnce
<1>6. AcceptedBefore(c, d)'
  BY <1>2, <1>4, AcceptedStays DEF PairInv, AcceptedBefore
<1>7. Reached(c, d)'
  BY <1>1, <1>2, <1>3, <1>4 DEF PairInv, Reached
<1> QED BY <1>3, <1>5, <1>6, <1>7 DEF PairInv

(* Any other step of c is outside a broadcast and writes no MESSAGE.       *)
LEMMA OtherStepPair ==
  ASSUME TypeOK, NEW c \in Conn, ConnInv(c), Step(c),
         ~Send(c), ~Deliver(c), ~EndBroadcast(c), \A e \in Conn : ~VisitSubscriber(c, e),
         NEW d \in Conn, PairInv(c, d)
  PROVE  PairInv(c, d)'
<1>0. CommandAt(c)
  BY DEF ConnInv
<1>1. ~Sending(c)'
  BY Arrivals DEF Sending
<1>2. ~Sent(c)'
  <2>1. ASSUME pc'[c] = "receipt" PROVE frame'[c].cmd # "SEND"
    <3>1. Subscribe(c) \/ EndUnsubscribe(c) \/ LeaveServer(c)
      BY <2>1, Arrivals
    <3>2. frame' = frame
      BY <3>1 DEF Subscribe, EndUnsubscribe, LeaveServer, localVars
    <3>3. frame[c].cmd # "SEND"
      BY <1>0, <3>1 DEF Subscribe, EndUnsubscribe, LeaveServer, CommandAt, At, Command
    <3> QED BY <3>2, <3>3
  <2> QED BY <2>1 DEF Sent
<1>3. /\ FromSender(d, c)' = FromSender(d, c)
      /\ \A i \in FromSender(d, c) : out'[d][i] = out[d][i]
  BY <1>0, MessagesKept
<1>4. messageIdCounter'[c] = messageIdCounter[c]
  BY CounterSteps
<1>5. Numbered(c, d)'
  BY <1>3, <1>4 DEF PairInv, Numbered
<1> QED BY <1>1, <1>2, <1>5 DEF PairInv, VisitedOnce, AcceptedBefore, Reached
-----------------------------------------------------------------------------
(* A thread in process() keeps the frame its client has sent.              *)
LEMMA FrameStep ==
  ASSUME TypeOK, NEW x \in Conn, CommandAt(x), Step(x), NEW c \in Conn, FrameOfClient(c)
  PROVE  FrameOfClient(c)'
<1>0. pc \in [Conn -> Label] /\ frame \in [Conn -> Frame \cup {NONE}]
  BY DEF TypeOK
<1>1. CASE c # x
  BY <1>1, StepElsewhere DEF Undisturbed, FrameOfClient
<1>2. CASE c = x
  <2>1. CASE Read(c)
    BY <1>0, <2>1 DEF Read, Process, FrameOfClient
  <2>2. CASE Accept(c) \/ Return(c) \/ StopReading(c) \/ Unwind(c)
    BY <1>0, <2>2 DEF Accept, Return, StopReading, Unwind, Goto, FrameOfClient
  <2>3. CASE ProtocolStep(c)
    <3>1. frame' = frame
      BY <2>3 DEF ProtocolStep, localVars, Connect, Register, Verify, CheckOnline, Login, Session,
         Connected, Refuse, Error, Subscribe, Unsubscribe, EndUnsubscribe, Send, Deliver,
         EndBroadcast, Disconnect, LeaveServer, Receipt, VisitTopic, LeaveTopic, VisitSubscriber
    <3>2. pc[c] \notin {"idle", "read", "ended"}
      BY <2>3 DEF ProtocolStep, At, Command, Connect, Register, Verify, CheckOnline, Login, Session,
         Connected, Refuse, Error, Subscribe, Unsubscribe, EndUnsubscribe, Send, Deliver,
         EndBroadcast, Disconnect, LeaveServer, Receipt, VisitTopic, LeaveTopic, VisitSubscriber
    <3> QED BY <3>1, <3>2 DEF FrameOfClient
  <2> QED BY <1>2, <2>1, <2>2, <2>3 DEF Step, ThreadStep
<1> QED BY <1>1, <1>2

(* An entry holds the id of a SUBSCRIBE of its connection for its topic.   *)
LEMMA EntryIds ==
  ASSUME TypeOK, NEW x \in Conn, CommandAt(x), FrameOfClient(x), Step(x),
         NEW c \in Conn, IdsChosen(c), NEW t \in Topic, isSubscribed(c, t)'
  PROVE  Chosen(c, t, topicSubscribers'[t][c])
<1>0. topicSubscribers \in [Topic -> [Conn -> SubId \cup {NONE}]]
  BY DEF TypeOK
<1>1. CASE topicSubscribers'[t][c] = topicSubscribers[t][c]
  BY <1>1 DEF IdsChosen, isSubscribed
<1>2. CASE topicSubscribers'[t][c] # topicSubscribers[t][c]
  <2>1. x = c
    BY <1>2, StepElsewhere DEF Undisturbed
  <2>2. ASSUME NEW s \in Topic, VisitTopic(c, s) \/ LeaveTopic(c, s) PROVE FALSE
    <3>1. UNCHANGED topicSubscribers \/ RemoveEntry(c, s)
      BY <2>2 DEF VisitTopic, LeaveTopic, connectionsVars
    <3>2. RemoveEntry(c, s) => topicSubscribers'[t][c] \in {topicSubscribers[t][c], NONE}
      BY <1>0 DEF RemoveEntry, RemoveSubscriber
    <3> QED BY <1>2, <3>1, <3>2 DEF isSubscribed
  <2>3. Subscribe(c)
    BY <1>2, <2>1, <2>2, EntrySteps DEF Accept, AddConnection, LeaveServer, RemoveHandler,
       connectionsVars
  <2>4. AddSubscriber(c, frame[c].id, frame[c].destination)
    BY <1>2, <2>3 DEF Subscribe, connectionsVars
  <2>5. t = frame[c].destination /\ topicSubscribers'[t][c] = frame[c].id
    BY <1>0, <1>2, <2>4 DEF AddSubscriber, connectionsVars
  <2>6. frame[c].cmd = "SUBSCRIBE" /\ frame[c] \in ClientFrames[c]
    BY <2>1, <2>3 DEF Subscribe, At, CommandAt, Command, FrameOfClient
  <2> QED BY <2>5, <2>6 DEF Chosen
<1> QED BY <1>1, <1>2

(* The header of the frame that is about to be written is the id of the    *)
(* entry forEach is at.                                                    *)
LEMMA TargetIds ==
  ASSUME TypeOK, NEW x \in Conn, CommandAt(x), Step(x), \A d \in Conn : IdsChosen(d),
         NEW c \in Conn, CommandAt(c), pc'[c] = "deliver"
  PROVE  Chosen(target'[c].to, frame'[c].destination, target'[c].subscription)
<1>1. CASE x # c
  BY <1>1, StepElsewhere DEF Undisturbed, IdsChosen
<1>2. CASE x = c
  <2>1. PICK e \in Conn : VisitSubscriber(c, e)
    BY <1>2, Arrivals DEF Send, Deliver, Goto, TypeOK
  <2>2. /\ frame'[c] = frame[c]
        /\ target'[c].to = e
        /\ target'[c].subscription = topicSubscribers[frame[c].destination][e]
        /\ isSubscribed(e, frame[c].destination)
    BY <2>1 DEF VisitSubscriber, Subscribers, TypeOK
  <2>3. frame[c].destination \in Topic
    BY <2>1 DEF VisitSubscriber, At, CommandAt
  <2> QED BY <2>2, <2>3 DEF IdsChosen
<1> QED BY <1>1, <1>2

(* Ids stay what the clients chose, wherever they have got to.             *)
LEMMA IdsStep ==
  ASSUME TypeOK, NEW x \in Conn, CommandAt(x), FrameOfClient(x), Step(x),
         \A d \in Conn : IdsChosen(d), NEW c \in Conn, CommandAt(c)
  PROVE  IdsChosen(c)'
<1>1. \A t \in Topic : isSubscribed(c, t)' => Chosen(c, t, topicSubscribers'[t][c])
  BY EntryIds
<1>2. pc'[c] = "deliver" =>
        Chosen(target'[c].to, frame'[c].destination, target'[c].subscription)
  BY TargetIds
<1>3. ASSUME NEW i \in DOMAIN out'[c], out'[c][i].cmd = "MESSAGE"
      PROVE  Chosen(c, out'[c][i].destination, out'[c][i].subscription)
  <2>1. out[c] \in Seq(ServerFrame)
    BY DEF TypeOK
  <2>2. \A m : out'[c] = Append(out[c], m) =>
          \/ i \in DOMAIN out[c] /\ out'[c][i] = out[c][i]
          \/ out'[c][i] = m
    BY <1>3, <2>1
  <2>3. CASE i \in DOMAIN out[c] /\ out'[c][i] = out[c][i]
    BY <1>3, <2>3 DEF IdsChosen
  <2>4. CASE Deliver(x) /\ c = target[x].to /\ out'[c][i] = MessageOf(x)
    BY <2>4 DEF IdsChosen, MessageOf, Deliver, At
  <2> QED BY <1>3, <2>2, <2>3, <2>4, StepWrites
<1> QED BY <1>1, <1>2, <1>3 DEF IdsChosen, Chosen
-----------------------------------------------------------------------------
(* What a step leaves of the invariant between an author and a subscriber. *)
LEMMA PairStep ==
  ASSUME BroadcastInv, NEW x \in Conn, Step(x), NEW c \in Conn, NEW d \in Conn
  PROVE  PairInv(c, d)'
<1>0. /\ TypeOK
      /\ ConnInv(x) /\ CommandAt(x) /\ FrameOfClient(x)
      /\ CommandAt(c) /\ PairInv(c, d)
      /\ Leaving(d) /\ EntriesOf(d)
      /\ pc[d] = "idle" => d \notin activeConnections
  BY DEF BroadcastInv, SessionInv, IInv, ConnInv, SocketOf
<1>1. CASE c # x
  BY <1>0, <1>1, OthersPair
<1>2. CASE c = x
  BY <1>0, <1>2, SendPair, VisitPair, DeliverPair, EndPair, OtherStepPair
<1> QED BY <1>1, <1>2

(* Nobody sends yet and no socket has a message.                           *)
LEMMA InitBroadcastInv == Init => BroadcastInv
<1> SUFFICES ASSUME Init PROVE BroadcastInv
  OBVIOUS
<1>1. SessionInv
  <2>1. \A c \in Conn : SocketOf(c) /\ Leaving(c)
    BY DEF Init, HandlerInit, ConnectionsInit, ProtocolInit, SocketOf, Leaving
  <2> QED BY <2>1, InitInv DEF SessionInv
<1>2. ASSUME NEW c \in Conn PROVE FrameOfClient(c) /\ IdsChosen(c)
  BY DEF Init, HandlerInit, ConnectionsInit, ProtocolInit, FrameOfClient, IdsChosen, isSubscribed
<1>3. ASSUME NEW c \in Conn, NEW d \in Conn PROVE PairInv(c, d)
  <2>1. pc[c] = "idle" /\ FromSender(d, c) = {}
    BY DEF Init, HandlerInit, ProtocolInit, FromSender
  <2>2. ~Sending(c) /\ ~Sent(c)
    BY <2>1 DEF Sending, Sent
  <2> QED BY <2>1, <2>2 DEF PairInv, Numbered, VisitedOnce, AcceptedBefore, Reached
<1> QED BY <1>1, <1>2, <1>3 DEF BroadcastInv

(* The step: the thread that takes it, and all the others.                 *)
LEMMA NextBroadcastInv == BroadcastInv /\ [Next]_vars => BroadcastInv'
<1> SUFFICES ASSUME BroadcastInv, [Next]_vars PROVE BroadcastInv'
  OBVIOUS
<1>0. /\ SessionInv /\ TypeOK
      /\ \A c \in Conn : CommandAt(c) /\ FrameOfClient(c) /\ IdsChosen(c)
  BY DEF BroadcastInv, SessionInv, IInv, ConnInv
<1>1. SessionInv'
  BY <1>0, NextSessionInv
<1>2. CASE UNCHANGED vars
  <2>1. /\ \A c \in Conn : FrameOfClient(c)' /\ IdsChosen(c)'
        /\ \A c, d \in Conn : PairInv(c, d)'
    BY <1>2 DEF vars, handlerVars, connectionsVars, protocolVars, BroadcastInv, FrameOfClient,
       IdsChosen, Chosen, isSubscribed, PairInv, Numbered, VisitedOnce, AcceptedBefore, Reached,
       FromSender, Latest, Sending, Sent, Delivering, Unsubscribes
  <2> QED BY <1>1, <2>1 DEF BroadcastInv
<1>3. ASSUME NEW x \in Conn, Step(x) PROVE BroadcastInv'
  <2>1. \A c \in Conn : FrameOfClient(c)' /\ IdsChosen(c)'
    BY <1>0, <1>3, FrameStep, IdsStep
  <2>2. \A c, d \in Conn : PairInv(c, d)'
    BY <1>3, PairStep
  <2> QED BY <1>1, <2>1, <2>2 DEF BroadcastInv
<1> QED BY <1>2, <1>3 DEF Next, Step

(* The invariant of a broadcast holds in every reachable state.            *)
THEOREM BroadcastInvariance == Spec => []BroadcastInv
<1> QED BY InitBroadcastInv, NextBroadcastInv, PTL DEF Spec

(* A subscriber sees no subscription id but those it chose for the topic.  *)
THEOREM IdsAreOwn == Spec => []OwnSubscriptionId
<1>1. BroadcastInv => OwnSubscriptionId
  BY DEF BroadcastInv, IdsChosen, Chosen, OwnSubscriptionId
<1> QED BY <1>1, BroadcastInvariance, PTL

(* The messages of one sender come in order, and once.                     *)
THEOREM MessagesInOrder == Spec => []InOrderOnce
<1>1. BroadcastInv => InOrderOnce
  BY DEF BroadcastInv, PairInv, Numbered, InOrderOnce
<1> QED BY <1>1, BroadcastInvariance, PTL

(* When the author gets its RECEIPT, whoever stayed has the message.       *)
THEOREM NobodyLeftOut == Spec => []ServedByReceipt
<1>1. BroadcastInv => ServedByReceipt
  <2> SUFFICES ASSUME BroadcastInv, NEW c \in Conn, At(c, "receipt"), frame[c].cmd = "SEND",
                      NEW d \in present[c], d \in activeConnections, connected[d], sock[d] = "open"
               PROVE  \E i \in FromSender(d, c) : out[d][i].messageId = messageIdCounter[c] - 1
    BY DEF ServedByReceipt
  <2>1. d \in Conn
    BY DEF BroadcastInv, SessionInv, IInv, TypeOK
  <2>2. Latest(d, c) # {}
    BY <2>1 DEF BroadcastInv, PairInv, Reached, Sent, At
  <2> QED BY <2>2 DEF Latest
<1> QED BY <1>1, BroadcastInvariance, PTL
=============================================================================
