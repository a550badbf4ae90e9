-------------------------- MODULE ConnectionsImpl --------------------------
(***************************************************************************)
(* ConnectionsImpl: the maps all connections share.  Each is a             *)
(* ConcurrentHashMap, so one operation on one map is atomic and a method   *)
(* that does several is not: every operator below is one such operation.   *)
(***************************************************************************)
EXTENDS BlockingConnectionHandler

VARIABLES
  activeConnections,  \* the keys of activeConnections
  topics,             \* the keys of topicSubscribers: topics are never removed
  topicSubscribers,   \* topic -> connection -> its subscription id, or NONE
  registedClients,    \* user -> passcode, or NONE
  LoggedIn,           \* user -> the flag isOnline reads: no entry reads as FALSE
  idToUsername        \* connection -> user, or NONE

connectionsVars == <<activeConnections, topics, topicSubscribers,
                     registedClients, LoggedIn, idToUsername>>

ConnectionsInit ==
  /\ activeConnections = {}
  /\ topics = {}
  /\ topicSubscribers = [t \in Topic |-> [c \in Conn |-> NONE]]
  /\ registedClients = [u \in User |-> NONE]
  /\ LoggedIn = [u \in User |-> FALSE]
  /\ idToUsername = [c \in Conn |-> NONE]

isSubscribed(c, t) == topicSubscribers[t][c] # NONE

Subscribers(t) == {c \in Conn : isSubscribed(c, t)}

isOnline(u) == LoggedIn[u]

(* send(connectionId, msg): a connection that is gone gets nothing.        *)
SendTo(c, f) ==
  IF c \in activeConnections THEN Write(c, f) ELSE UNCHANGED handlerVars

AddConnection(c) ==
  /\ activeConnections' = activeConnections \cup {c}
  /\ UNCHANGED <<topics, topicSubscribers, registedClients, LoggedIn, idToUsername>>

(* subscribe: computeIfAbsent and put.  In between, the topic exists       *)
(* without this subscriber, which no other thread can tell from after.     *)
AddSubscriber(c, id, t) ==
  IF c \in activeConnections
    THEN /\ topics' = topics \cup {t}
         /\ topicSubscribers' = [topicSubscribers EXCEPT ![t][c] = id]
         /\ UNCHANGED <<activeConnections, registedClients, LoggedIn, idToUsername>>
    ELSE UNCHANGED connectionsVars

RemoveSubscriber(c, t) ==
  /\ topicSubscribers' = [topicSubscribers EXCEPT ![t][c] = NONE]
  /\ UNCHANGED <<activeConnections, topics, registedClients, LoggedIn, idToUsername>>

(* disconnect, last part: activeConnections.remove(connectionId).close().  *)
(* idToUsername.contains(connectionId) then looks for the connection id    *)
(* among the VALUES of the map, which are user names: it is never found,   *)
(* so LoggedIn and idToUsername stay as they are.                          *)
RemoveHandler(c) ==
  /\ activeConnections' = activeConnections \ {c}
  /\ Close(c)
  /\ UNCHANGED <<topics, topicSubscribers, registedClients, LoggedIn, idToUsername>>

PutRegisted(u, p) ==
  /\ registedClients' = [registedClients EXCEPT ![u] = p]
  /\ UNCHANGED <<activeConnections, topics, topicSubscribers, LoggedIn, idToUsername>>

PutLoggedIn(u) ==
  /\ LoggedIn' = [LoggedIn EXCEPT ![u] = TRUE]
  /\ UNCHANGED <<activeConnections, topics, topicSubscribers, registedClients, idToUsername>>

PutUsername(c, u) ==
  /\ idToUsername' = [idToUsername EXCEPT ![c] = u]
  /\ UNCHANGED <<activeConnections, topics, topicSubscribers, registedClients, LoggedIn>>
=============================================================================
