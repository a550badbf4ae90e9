--------------------- MODULE StompMessagingProtocolImpl ---------------------
(***************************************************************************)
(* StompMessagingProtocolImpl: one protocol object per connection.         *)
(* process(frame) is split at every access to a map other threads may      *)
(* touch; pc[c] names the access that comes next.                          *)
(*                                                                         *)
(* A forEach or a for loop over a ConcurrentHashMap is weakly consistent:  *)
(* it visits every entry that is there from its start to its end, and may  *)
(* or may not visit one that is put meanwhile.  present[c] holds the       *)
(* entries there since the start of the traversal that c is in, seen[c]    *)
(* those it has visited; the order is the hash order, so any order.        *)
(***************************************************************************)
EXTENDS ConnectionsImpl

VARIABLES
  pc,                \* where the thread of the connection is
  frame,             \* the frame process() has been called with, or NONE
  shouldTerminate,
  username,          \* the field of that name; "" is NONE here
  messageIdCounter,
  present, seen,     \* the traversal of a map the connection is in
  target             \* forEach's current subscriber: [to, subscription], or NONE

protocolVars ==
  <<pc, frame, shouldTerminate, username, messageIdCounter, present, seen, target>>

(* Every local variable of process() but the program counter.              *)
localVars ==
  <<frame, shouldTerminate, username, messageIdCounter, present, seen, target>>

ProtocolInit ==
  /\ pc = [c \in Conn |-> "idle"]
  /\ frame = [c \in Conn |-> NONE]
  /\ shouldTerminate = [c \in Conn |-> FALSE]
  /\ username = [c \in Conn |-> NONE]
  /\ messageIdCounter = [c \in Conn |-> 1]
  /\ present = [c \in Conn |-> {}]
  /\ seen = [c \in Conn |-> {}]
  /\ target = [c \in Conn |-> NONE]

Goto(c, label) == pc' = [pc EXCEPT ![c] = label]

At(c, label) == pc[c] = label

(* Mutant of Terminate: sendErrorFrame forgets to set the flag.            *)
NoTerminate(c) == UNCHANGED shouldTerminate

Terminate(c) == shouldTerminate' = [shouldTerminate EXCEPT ![c] = TRUE]

BeginTraversal(c, entries) ==
  /\ present' = [present EXCEPT ![c] = entries]
  /\ seen' = [seen EXCEPT ![c] = {}]

(* Connection e is in the forEach over the subscribers of t.               *)
Broadcasting(e, t) ==
  pc[e] \in {"broadcast", "deliver"} /\ frame[e].destination = t

(* The entry of c goes from the map of t, and from the traversals of it.   *)
RemoveEntry(c, t) ==
  LET Others(f) == [e \in Conn |-> IF Broadcasting(e, t) THEN f[e] \ {c} ELSE f[e]]
  IN  /\ RemoveSubscriber(c, t)
      /\ present' = Others(present)
      /\ seen' = [Others(seen) EXCEPT ![c] = seen[c] \cup {t}]

-----------------------------------------------------------------------------
(* process(frame): the switch on the command.                              *)
Process(c, f) ==
  /\ At(c, "read")
  /\ frame' = [frame EXCEPT ![c] = f]
  /\ Goto(c, IF f.cmd = "OTHER" THEN "error" ELSE f.cmd)
  /\ UNCHANGED <<shouldTerminate, username, messageIdCounter, present, seen, target>>
  /\ UNCHANGED <<connectionsVars, handlerVars>>

(* connect, up to attemptLogin's containsKey, which throws on null.        *)
Connect(c) ==
  /\ At(c, "CONNECT")
  /\ Goto(c, CASE ~frame[c].versionAndHost -> "refuse"
               [] frame[c].versionAndHost /\ frame[c].login = NONE -> "crash"
               [] OTHER -> IF registedClients[frame[c].login] = NONE
                             THEN "register" ELSE "verify")
  /\ UNCHANGED <<localVars, connectionsVars, handlerVars>>

(* attemptLogin's put, which throws on a null passcode.                    *)
Register(c) ==
  /\ At(c, "register")
  /\ IF frame[c].passcode = NONE
       THEN Goto(c, "crash") /\ UNCHANGED connectionsVars
       ELSE Goto(c, "verify") /\ PutRegisted(frame[c].login, frame[c].passcode)
  /\ UNCHANGED <<localVars, handlerVars>>

(* attemptLogin's get and equals.                                          *)
Verify(c) ==
  /\ At(c, "verify")
  /\ Goto(c, IF registedClients[frame[c].login] = frame[c].passcode
               THEN "online" ELSE "refuse")
  /\ UNCHANGED <<localVars, connectionsVars, handlerVars>>

CheckOnline(c) ==
  /\ At(c, "online")
  /\ Goto(c, IF isOnline(frame[c].login) THEN "refuse" ELSE "login")
  /\ UNCHANGED <<localVars, connectionsVars, handlerVars>>

(* login, in its two puts.                                                 *)
Login(c) ==
  /\ At(c, "login")
  /\ username' = [username EXCEPT ![c] = frame[c].login]
  /\ PutLoggedIn(frame[c].login)
  /\ Goto(c, "session")
  /\ UNCHANGED <<frame, shouldTerminate, messageIdCounter, present, seen, target>>
  /\ UNCHANGED handlerVars

(* Mutants of Session: the passcode is stored for the name; the first name *)
(* of a connection stays (putIfAbsent).                                    *)
SessionSwapped(c) ==
  /\ At(c, "session")
  /\ PutUsername(c, frame[c].passcode)
  /\ Goto(c, "connected")
  /\ UNCHANGED <<localVars, handlerVars>>

SessionOnce(c) ==
  /\ At(c, "session")
  /\ PutUsername(c, IF idToUsername[c] = NONE THEN frame[c].login ELSE idToUsername[c])
  /\ Goto(c, "connected")
  /\ UNCHANGED <<localVars, handlerVars>>

Session(c) ==
  /\ At(c, "session")
  /\ PutUsername(c, frame[c].login)
  /\ Goto(c, "connected")
  /\ UNCHANGED <<localVars, handlerVars>>

Connected(c) ==
  /\ At(c, "connected")
  /\ SendTo(c, Answer("CONNECTED"))
  /\ Goto(c, "check")
  /\ UNCHANGED <<localVars, connectionsVars>>

(* connect's error paths: sendErrorFrame, then connections.disconnect.     *)
Refuse(c) ==
  /\ At(c, "refuse")
  /\ Terminate(c)
  /\ SendTo(c, Answer("ERROR"))
  /\ BeginTraversal(c, topics)
  /\ Goto(c, "disconnect")
  /\ UNCHANGED <<frame, username, messageIdCounter, target, connectionsVars>>

(* sendErrorFrame on every other error path.                               *)
Error(c) ==
  /\ At(c, "error")
  /\ Terminate(c)
  /\ SendTo(c, Answer("ERROR"))
  /\ Goto(c, "check")
  /\ UNCHANGED <<frame, username, messageIdCounter, present, seen, target>>
  /\ UNCHANGED connectionsVars
-----------------------------------------------------------------------------
(* subscribe: only this thread touches this connection's entries, so the   *)
(* isSubscribed test and the put cannot be told from one step.             *)
Subscribe(c) ==
  /\ At(c, "SUBSCRIBE")
  /\ LET t == frame[c].destination  id == frame[c].id
     IN  IF NONE \in {t, id} \/ isSubscribed(c, t)
           THEN Goto(c, "error") /\ UNCHANGED connectionsVars
           ELSE Goto(c, "receipt") /\ AddSubscriber(c, id, t)
  /\ UNCHANGED <<localVars, handlerVars>>

Unsubscribe(c) ==
  /\ At(c, "UNSUBSCRIBE")
  /\ IF frame[c].id = NONE
       THEN Goto(c, "error") /\ UNCHANGED <<present, seen>>
       ELSE Goto(c, "unsubscribe") /\ BeginTraversal(c, topics)
  /\ UNCHANGED <<frame, shouldTerminate, username, messageIdCounter, target>>
  /\ UNCHANGED <<connectionsVars, handlerVars>>

(* One round of ConnectionsImpl.unsubscribe's loop over all topics.        *)
(* registedClientId is null for a topic without this connection, and       *)
(* registedClientId.equals then throws.                                    *)
VisitTopic(c, t) ==
  /\ At(c, "unsubscribe")
  /\ t \in topics \ seen[c]
  /\ \/ /\ ~isSubscribed(c, t)
        /\ Goto(c, "crash")
        /\ UNCHANGED <<present, seen, connectionsVars>>
     \/ /\ topicSubscribers[t][c] = frame[c].id
        /\ RemoveEntry(c, t)
        /\ UNCHANGED pc
     \/ /\ topicSubscribers[t][c] \notin {NONE, frame[c].id}
        /\ seen' = [seen EXCEPT ![c] = @ \cup {t}]
        /\ UNCHANGED <<pc, present, connectionsVars>>
  /\ UNCHANGED <<frame, shouldTerminate, username, messageIdCounter, target>>
  /\ UNCHANGED handlerVars

(* Mutant of EndUnsubscribe: the loop ends after one topic.                *)
EndUnsubscribeEarly(c) ==
  /\ At(c, "unsubscribe")
  /\ seen[c] # {} \/ present[c] = {}
  /\ Goto(c, "receipt")
  /\ UNCHANGED <<localVars, connectionsVars, handlerVars>>

EndUnsubscribe(c) ==
  /\ At(c, "unsubscribe")
  /\ present[c] \subseteq seen[c]
  /\ Goto(c, "receipt")
  /\ UNCHANGED <<localVars, connectionsVars, handlerVars>>
-----------------------------------------------------------------------------
(* messageIdCounter.getAndIncrement(), and its mutant: get().              *)
SameMessageId(c) == UNCHANGED messageIdCounter

TakeMessageId(c) == messageIdCounter' = [messageIdCounter EXCEPT ![c] = @ + 1]

(* send: the tests, then sendMessageFrame takes the message id and starts  *)
(* forEach over the subscribers of the topic.                              *)
Send(c) ==
  /\ At(c, "SEND")
  /\ LET t == frame[c].destination
     IN  IF t = NONE \/ ~frame[c].body \/ ~isSubscribed(c, t)
           THEN Goto(c, "error") /\ UNCHANGED <<messageIdCounter, present, seen>>
           ELSE /\ TakeMessageId(c)
                /\ BeginTraversal(c, Subscribers(t))
                /\ Goto(c, "broadcast")
  /\ UNCHANGED <<frame, shouldTerminate, username, target>>
  /\ UNCHANGED <<connectionsVars, handlerVars>>

(* forEach reaches the entry of d: the subscription header is set from it. *)
VisitSubscriber(c, d) ==
  /\ At(c, "broadcast")
  /\ d \in Subscribers(frame[c].destination) \ seen[c]
  /\ target' = [target EXCEPT ![c] =
       [to |-> d, subscription |-> topicSubscribers[frame[c].destination][d]]]
  /\ seen' = [seen EXCEPT ![c] = @ \cup {d}]
  /\ Goto(c, "deliver")
  /\ UNCHANGED <<frame, shouldTerminate, username, messageIdCounter, present>>
  /\ UNCHANGED <<connectionsVars, handlerVars>>

(* Mutant of MessageOf: the header is set once, from the sender's entry.   *)
MessageOfSender(c) ==
  [cmd          |-> "MESSAGE",
   sender       |-> c,
   messageId    |-> messageIdCounter[c] - 1,
   destination  |-> frame[c].destination,
   subscription |-> topicSubscribers[frame[c].destination][c]]

MessageOf(c) == [cmd          |-> "MESSAGE",
                 sender       |-> c,
                 messageId    |-> messageIdCounter[c] - 1,
                 destination  |-> frame[c].destination,
                 subscription |-> target[c].subscription]

(* Mutants of Deliver: a subscriber that is gone ends the broadcast; a     *)
(* failed write is tried again.                                            *)
DeliverOrStop(c) ==
  /\ At(c, "deliver")
  /\ SendTo(target[c].to, MessageOf(c))
  /\ target' = [target EXCEPT ![c] = NONE]
  /\ Goto(c, IF target[c].to \in activeConnections THEN "broadcast" ELSE "receipt")
  /\ UNCHANGED <<frame, shouldTerminate, username, messageIdCounter, present, seen>>
  /\ UNCHANGED connectionsVars

DeliverAgain(c) ==
  /\ At(c, "deliver")
  /\ SendTo(target[c].to, MessageOf(c))
  /\ IF connected'[target[c].to]
       THEN Goto(c, "broadcast") /\ target' = [target EXCEPT ![c] = NONE]
       ELSE UNCHANGED <<pc, target>>
  /\ UNCHANGED <<frame, shouldTerminate, username, messageIdCounter, present, seen>>
  /\ UNCHANGED connectionsVars

(* The frame is encoded and written at once; d may be gone by now.         *)
Deliver(c) ==
  /\ At(c, "deliver")
  /\ SendTo(target[c].to, MessageOf(c))
  /\ target' = [target EXCEPT ![c] = NONE]
  /\ Goto(c, "broadcast")
  /\ UNCHANGED <<frame, shouldTerminate, username, messageIdCounter, present, seen>>
  /\ UNCHANGED connectionsVars

EndBroadcast(c) ==
  /\ At(c, "broadcast")
  /\ present[c] \subseteq seen[c]
  /\ Goto(c, "receipt")
  /\ UNCHANGED <<localVars, connectionsVars, handlerVars>>
-----------------------------------------------------------------------------
Disconnect(c) ==
  /\ At(c, "DISCONNECT")
  /\ Terminate(c)
  /\ BeginTraversal(c, topics)
  /\ Goto(c, "disconnect")
  /\ UNCHANGED <<frame, username, messageIdCounter, target>>
  /\ UNCHANGED <<connectionsVars, handlerVars>>

(* One round of ConnectionsImpl.disconnect's forEach over the topics.      *)
LeaveTopic(c, t) ==
  /\ At(c, "disconnect")
  /\ t \in topics \ seen[c]
  /\ RemoveEntry(c, t)
  /\ UNCHANGED <<pc, frame, shouldTerminate, username, messageIdCounter, target>>
  /\ UNCHANGED handlerVars

(* Mutants of LeaveServer: the handler goes before the topics; connect     *)
(* does not return after it and goes on to the isOnline test.              *)
LeaveServerFirst(c) ==
  /\ At(c, "disconnect")
  /\ IF c \in activeConnections
       THEN /\ RemoveHandler(c)
            /\ Goto(c, IF frame[c].cmd = "DISCONNECT" THEN "receipt" ELSE "check")
       ELSE Goto(c, "crash") /\ UNCHANGED <<connectionsVars, handlerVars>>
  /\ UNCHANGED localVars

LeaveServerGoOn(c) ==
  /\ At(c, "disconnect")
  /\ present[c] \subseteq seen[c]
  /\ IF c \in activeConnections
       THEN /\ RemoveHandler(c)
            /\ Goto(c, IF frame[c].cmd = "DISCONNECT" THEN "receipt" ELSE "online")
       ELSE Goto(c, "crash") /\ UNCHANGED <<connectionsVars, handlerVars>>
  /\ UNCHANGED localVars

(* The rest of ConnectionsImpl.disconnect: without a handler in the map,   *)
(* activeConnections.remove(connectionId) is null and close() throws.      *)
LeaveServer(c) ==
  /\ At(c, "disconnect")
  /\ present[c] \subseteq seen[c]
  /\ IF c \in activeConnections
       THEN /\ RemoveHandler(c)
            /\ Goto(c, IF frame[c].cmd = "DISCONNECT" THEN "receipt" ELSE "check")
       ELSE Goto(c, "crash") /\ UNCHANGED <<connectionsVars, handlerVars>>
  /\ UNCHANGED localVars

(* sendReceiptFrame.  disconnect calls it without testing for the header:  *)
(* the put of a null receipt-id throws.                                    *)
Receipt(c) ==
  /\ At(c, "receipt")
  /\ IF frame[c].receipt
       THEN SendTo(c, Answer("RECEIPT")) ELSE UNCHANGED handlerVars
  /\ Goto(c, IF frame[c].cmd = "DISCONNECT" /\ ~frame[c].receipt
               THEN "crash" ELSE "check")
  /\ UNCHANGED <<localVars, connectionsVars>>

(* process(frame) does its next step.                                      *)
ProtocolStep(c) ==
  \/ Connect(c) \/ Register(c) \/ Verify(c) \/ CheckOnline(c) \/ Login(c)
  \/ Session(c) \/ Connected(c) \/ Refuse(c) \/ Error(c)
  \/ Subscribe(c) \/ Unsubscribe(c) \/ EndUnsubscribe(c)
  \/ Send(c) \/ Deliver(c) \/ EndBroadcast(c)
  \/ Disconnect(c) \/ LeaveServer(c) \/ Receipt(c)
  \/ \E t \in Topic : VisitTopic(c, t) \/ LeaveTopic(c, t)
  \/ \E d \in Conn : VisitSubscriber(c, d)
=============================================================================
