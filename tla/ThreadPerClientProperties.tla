---------------------- MODULE ThreadPerClientProperties ----------------------
(***************************************************************************)
(* What the thread-per-client server promises, and what the repository     *)
(* says of it although the code does otherwise (the last section).         *)
(***************************************************************************)
EXTENDS ThreadPerClient

Label == Command \cup
  {"idle", "read", "check", "ended", "crash", "error", "refuse", "register",
   "verify", "online", "login", "session", "connected", "receipt",
   "unsubscribe", "broadcast", "deliver", "disconnect"}

Target == [to : Conn, subscription : SubId]

(* Type invariant: every variable holds what the Java field it models can  *)
(* hold.                                                                   *)
TypeOK ==
  /\ sock \in [Conn -> {"none", "open", "closed"}]
  /\ connected \in [Conn -> BOOLEAN]
  /\ out \in [Conn -> Seq(ServerFrame)]
  /\ activeConnections \subseteq Conn
  /\ topics \subseteq Topic
  /\ topicSubscribers \in [Topic -> [Conn -> SubId \cup {NONE}]]
  /\ registedClients \in [User -> Pass \cup {NONE}]
  /\ LoggedIn \in [User -> BOOLEAN]
  /\ idToUsername \in [Conn -> User \cup {NONE}]
  /\ pc \in [Conn -> Label]
  /\ frame \in [Conn -> Frame \cup {NONE}]
  /\ shouldTerminate \in [Conn -> BOOLEAN]
  /\ username \in [Conn -> User \cup {NONE}]
  /\ messageIdCounter \in [Conn -> Nat \ {0}]
  /\ present \in [Conn -> SUBSET (Topic \cup Conn)]
  /\ seen \in [Conn -> SUBSET (Topic \cup Conn)]
  /\ target \in [Conn -> Target \cup {NONE}]
  /\ reads \in [Conn -> Nat]
-----------------------------------------------------------------------------
(* ConnectionsImpl.disconnect dereferences what activeConnections.remove   *)
(* returns.  Three paths of the protocol call it, and DISCONNECT may       *)
(* follow any history of frames: the handler must still be in the map.     *)
HandlerFound == \A c \in Conn : At(c, "disconnect") => c \in activeConnections

(* A connection that disconnect has taken out of activeConnections is in   *)
(* the subscriber map of no topic: no later broadcast finds it.            *)
LoggedOutIsGone ==
  \A c \in Conn :
    ~At(c, "idle") /\ c \notin activeConnections =>
      \A t \in Topic : ~isSubscribed(c, t)

(* When the RECEIPT of a frame is about to be written, what it             *)
(* acknowledges has happened and no other thread has undone it: the        *)
(* subscription has this id, no topic has the id that was unsubscribed,    *)
(* the author of a broadcast is still a subscriber of the topic, a         *)
(* connection that logged out is in no map.                                *)
ReceiptMeansDone ==
  \A c \in Conn : At(c, "receipt") =>
    LET f == frame[c]
    IN  /\ f.cmd = "SUBSCRIBE" => topicSubscribers[f.destination][c] = f.id
        /\ f.cmd = "UNSUBSCRIBE" => \A t \in Topic : topicSubscribers[t][c] # f.id
        /\ f.cmd = "SEND" => isSubscribed(c, f.destination)
        /\ f.cmd = "DISCONNECT" => c \notin activeConnections

(* sendErrorFrame is the last answer of a connection: every path that      *)
(* sends ERROR ends in a thread that reads no further frame.  (Broadcasts  *)
(* of other threads may still be written after it.)                        *)
ErrorIsFinal ==
  \A c \in Conn : \A i, j \in DOMAIN out[c] :
    i < j /\ out[c][i].cmd = "ERROR" => out[c][j].cmd = "MESSAGE"

(* While a connection lives whose client has read CONNECTED, and no        *)
(* further CONNECT of it is between its two puts, both login maps and its  *)
(* protocol object name the same user, and that user is online and         *)
(* registered: no refused, repeated or racing login of another connection  *)
(* takes the session away.                                                 *)
AnsweredIsOnline ==
  \A c \in activeConnections :
    (\E i \in DOMAIN out[c] : out[c][i].cmd = "CONNECTED") /\ ~At(c, "session") =>
      LET u == username[c]
      IN  /\ u # NONE
          /\ idToUsername[c] = u
          /\ isOnline(u)
          /\ registedClients[u] # NONE
-----------------------------------------------------------------------------
(* Indices of the messages in the socket of d that c sent.                 *)
FromSender(d, c) ==
  {i \in DOMAIN out[d] : out[d][i].cmd = "MESSAGE" /\ out[d][i].sender = c}

Unsubscribes(d) == \E f \in ClientFrames[d] : f.cmd = "UNSUBSCRIBE"

(* A broadcast sets the "subscription" header of one shared frame again    *)
(* and again.  A subscriber still only sees an id it chose itself, for     *)
(* that topic.                                                             *)
OwnSubscriptionId ==
  \A d \in Conn : \A i \in DOMAIN out[d] :
    out[d][i].cmd = "MESSAGE" =>
      \E f \in ClientFrames[d] : /\ f.cmd = "SUBSCRIBE"
                                 /\ f.destination = out[d][i].destination
                                 /\ f.id = out[d][i].subscription

(* A subscriber sees the messages of one sender in the order they were     *)
(* sent, none of them twice.  (One that leaves a topic and comes back      *)
(* while the broadcast runs may be visited under both entries.)            *)
InOrderOnce ==
  \A d, c \in Conn : \A i, j \in FromSender(d, c) :
    i < j => \/ out[d][i].messageId < out[d][j].messageId
             \/ out[d][i].messageId = out[d][j].messageId /\ Unsubscribes(d)

(* When the author of a message gets to its RECEIPT, every connection that *)
(* was subscribed from the start of the broadcast to its end has the       *)
(* message, whatever the others did meanwhile, unless its link failed.     *)
ServedByReceipt ==
  \A c \in Conn : At(c, "receipt") /\ frame[c].cmd = "SEND" =>
    \A d \in present[c] :
      d \in activeConnections /\ connected[d] /\ sock[d] = "open" =>
        \E i \in FromSender(d, c) : out[d][i].messageId = messageIdCounter[c] - 1
-----------------------------------------------------------------------------
(* What a client can see of its connection: the requests of its socket are *)
(* served one by one, and the answers are the frames written to it.        *)
SessionStage ==
  [c \in Conn |->
     CASE shouldTerminate[c] \/ pc[c] \in {"crash", "ended"} -> "ended"
       [] ~shouldTerminate[c] /\ pc[c] \in {"idle", "read", "check"} -> "ready"
       [] OTHER -> "asked"]

SessionLink ==
  [c \in Conn |-> IF sock[c] = "open" /\ ~connected[c] THEN "broken" ELSE sock[c]]

SessionRequest == [c \in Conn |-> IF SessionStage[c] = "asked" THEN frame[c] ELSE NONE]

SessionAnswers == [c \in Conn |-> [i \in DOMAIN out[c] |-> out[c][i].cmd]]

Promised == INSTANCE StompSession WITH
  link    <- SessionLink,
  stage   <- SessionStage,
  request <- SessionRequest,
  answers <- SessionAnswers

(* The thread-per-client server implements StompSession: whatever the      *)
(* threads of other connections do to the shared maps and to this socket,  *)
(* its client sees one answer per request, in order, none after ERROR, and *)
(* the end of the connection only when that is due.                        *)
SessionServed == Promised!SessionSpec
-----------------------------------------------------------------------------
(* process() returns or its thread ends: dead subscribers, topics that     *)
(* come and go and failing links hold up no broadcast and no traversal.    *)
ProcessReturns ==
  \A c \in Conn : pc[c] \notin {"idle", "read", "ended"} ~> pc[c] \in {"read", "ended"}

(* shouldTerminate is acted upon: the socket gets closed.                  *)
TerminationCloses == \A c \in Conn : shouldTerminate[c] ~> sock[c] = "closed"
-----------------------------------------------------------------------------
(* The properties below are violated: see the findings.                    *)

(* "Logout successful. You can log in again." (StompClient.cpp): once the  *)
(* DISCONNECT of its session is handled, a user is not online, unless in   *)
(* another session.                                                        *)
LogoutFreesUser ==
  \A c \in Conn : At(c, "ended") /\ c \notin activeConnections /\ username[c] # NONE =>
    \/ ~isOnline(username[c])
    \/ \E d \in Conn \ {c} : username[d] = username[c] /\ d \in activeConnections

(* "Said username is already online." is the answer to a CONNECT for a     *)
(* user with a session (StompMessagingProtocolImpl.connect): no user has   *)
(* two sessions at a time.                                                 *)
OneSessionPerUser ==
  \A c, d \in activeConnections :
    idToUsername[c] # NONE /\ idToUsername[c] = idToUsername[d] => c = d
=============================================================================
