------------------------ MODULE StompClientProperties ------------------------
(***************************************************************************)
(* What the console client promises to its user and to the server.         *)
(***************************************************************************)
EXTENDS StompClient

(* Type invariant: every variable holds what the C++ variable it models    *)
(* can hold.                                                               *)
TypeOK ==
  /\ sent \in [Conn -> Seq(Frame)]
  /\ \A h \in Conn : taken[h] \in 0..Len(sent[h]) /\ got[h] \in 0..Len(answers[h])
  /\ deleted \subseteq Conn
  /\ mutex \in {"main", "comm", NONE}
  /\ {shouldTerminate, isLoggedIn} \subseteq BOOLEAN
  /\ subscriptionMap \in [Topic -> SubId \cup {NONE}]
  /\ subscriptionId \in Nat \ {0}
  /\ eventsMap \in [Topic -> SUBSET Conn]
  /\ connectionhandler \in Conn \cup {NONE}
  /\ mpc \in {"prompt", "input", "command", "connect", "request",
              "discard", "forget", "delete", "null", "clear", "rejoin",
              "summarise", "terminate", "finish", "exited", "crashed"}
  /\ inputs \in 0..Len(Input)
  /\ mpc = "command" => command \in Input[inputs]
  /\ cpc \in {"loop", "lock", "unlock", "block", "waiting", "use", "call",
              "read", "connected", "push", "lost", "throw", "ended", "crashed"}
  /\ reader \in Conn \cup {NONE}
  /\ event \in Topic \cup {NONE}

AtPrompt == mpc \in {"prompt", "input"}

CommandsSent(h) == {sent[h][i].cmd : i \in DOMAIN sent[h]}

(* When the user is asked for the next command, no event of a connection   *)
(* that was logged out is left for a summary: the communication thread     *)
(* adds events without the mutex, and logout clears them before it joins   *)
(* that thread.                                                            *)
EventsOfThisSession == AtPrompt => \A t \in Topic : eventsMap[t] \cap deleted = {}

(* An UNSUBSCRIBE names an id that a SUBSCRIBE before it on the same       *)
(* connection introduced, although subscriptionMap outlives connections    *)
(* that are lost.                                                          *)
ExitMatchesJoin ==
  \A h \in Conn : \A i \in DOMAIN sent[h] :
    sent[h][i].cmd = "UNSUBSCRIBE" =>
      \E j \in 1..(i - 1) : sent[h][j].cmd = "SUBSCRIBE" /\ sent[h][j].id = sent[h][i].id

(* When the user is asked for the next command and isLoggedIn is set, the  *)
(* client has read the CONNECTED of a connection and not logged out on it, *)
(* whatever handler the pointer has been set to since.                     *)
LoggedInIsAnswered ==
  AtPrompt /\ isLoggedIn =>
    \E h \in Conn : /\ \E i \in 1..got[h] : answers[h][i] = "CONNECTED"
                    /\ "DISCONNECT" \notin CommandsSent(h)

(* The frames of the server are read as they come, until the communication *)
(* thread ends or the user logs in on another connection: the wait on cv   *)
(* misses no handler.                                                      *)
FramesRead ==
  \A h \in Conn :
    connectionhandler = h /\ HasLine(h) ~>
      ~HasLine(h) \/ connectionhandler # h \/ cpc = "ended" \/ crashed

(* Every command is carried out, up to the join of the communication       *)
(* thread: no lock that one thread holds stops the other for good.         *)
CommandReturns ==
  mpc \notin {"input", "exited", "crashed"} ~>
    mpc \in {"input", "exited", "crashed", "rejoin", "finish"}
-----------------------------------------------------------------------------
(* The property below is violated: see the findings.                       *)

(* "Ensure the previous thread is closed" (StompClient.cpp): a logout that *)
(* has written "Logout successful. You can log in again." gets to the next *)
(* command.                                                                *)
LogoutReturns == mpc = "rejoin" ~> mpc = "prompt" \/ crashed
=============================================================================
