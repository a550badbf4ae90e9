------------------------- MODULE StompClientInvariant -------------------------
(***************************************************************************)
(* Why the invariants of StompClientProperties hold, although the threads  *)
(* of the client share isLoggedIn, connectionhandler and eventsMap without *)
(* a common lock.  ClientInv is inductive; StompClient_proofs proves it so.*)
(***************************************************************************)
EXTENDS StompClientProperties

(* Where the main thread is in the middle of login and of logout.          *)
InLogin == mpc \in {"connect", "request", "discard", "forget"}
InLogout == mpc \in {"delete", "null", "clear", "rejoin"}

(* The sessions of the server hold what StompSession lets them hold.       *)
SessionTypeOK ==
  /\ link \in [Conn -> {"none", "open", "broken", "closed"}]
  /\ request \in [Conn -> Frame \cup {NONE}]
  /\ answers \in [Conn -> Seq({"CONNECTED", "RECEIPT", "ERROR", "MESSAGE"})]
  /\ taken \in [Conn -> Nat]
  /\ got \in [Conn -> Nat]

(* A connection is asked for one session and gives one: nothing goes out   *)
(* before it is open, and the only CONNECT is answered once.               *)
OneConnect(h) ==
  /\ link[h] = "none" => sent[h] = <<>>
  /\ \A i, j \in DOMAIN sent[h] :
       sent[h][i].cmd = "CONNECT" /\ sent[h][j].cmd = "CONNECT" => i = j
  /\ request[h] # NONE => taken[h] # 0 /\ request[h] = sent[h][taken[h]]
  /\ \A i \in DOMAIN answers[h] : answers[h][i] = "CONNECTED" =>
       \E j \in 1..taken[h] :
         /\ sent[h][j].cmd = "CONNECT"
         /\ j = taken[h] => request[h] = NONE
  /\ \A i, j \in DOMAIN answers[h] :
       answers[h][i] = "CONNECTED" /\ answers[h][j] = "CONNECTED" => i = j

(* A crash ends both threads.                                              *)
EndTogether == crashed => cpc = "crashed"

(* Where the pointer points, while login and logout change it.             *)
PointerInv ==
  /\ mpc \in {"connect", "request", "discard"} =>
       connectionhandler \in Conn /\ sent[connectionhandler] = <<>>
  /\ mpc \in {"delete", "null"} => connectionhandler \in Conn
  /\ mpc \in {"clear", "rejoin"} => connectionhandler = NONE
  /\ connectionhandler # NONE /\ mpc \notin {"connect", "discard", "forget", "crashed"} =>
       link[connectionhandler] # "none"
  /\ Typed("login") => Fresh # {}

(* The connections the client has read CONNECTED from, and those of them   *)
(* it has not logged out on.                                               *)
Answered(h) == \E i \in 1..got[h] : answers[h][i] = "CONNECTED"
LoggedOut(h) == "DISCONNECT" \in CommandsSent(h)
InSession == {h \in Conn : Answered(h) /\ ~LoggedOut(h)}

(* isLoggedIn follows the answers: while there is a second CONNECTED to be *)
(* acted upon, there is a second session, so that a logout leaves one; and *)
(* a logout of a connection that has not answered leaves the one that has. *)
LoginInv ==
  /\ isLoggedIn /\ ~InLogout /\ ~crashed => InSession # {}
  /\ isLoggedIn /\ mpc = "rejoin" => InSession # {}
  /\ connectionhandler # NONE /\ ~InLogout /\ ~crashed => ~LoggedOut(connectionhandler)
  /\ mpc \in {"delete", "null"} => Answered(connectionhandler) \/ InSession # {}
  /\ cpc \in {"call", "read", "connected"} =>
       /\ reader \in Conn
       /\ ~InLogout => ~LoggedOut(reader)
       /\ InLogout /\ LoggedOut(reader) => Answered(reader) \/ InSession # {}
  /\ cpc = "connected" =>
       /\ Answered(reader)
       /\ isLoggedIn /\ ~InLogout => InSession \ {reader} # {}
       /\ InLogout => InSession # {}

(* subscriptionMap is about the connection the pointer is at, as long as   *)
(* the user is logged in; once it is about a lost one, nobody can set      *)
(* isLoggedIn before a logout has cleared it.                              *)
MapInv ==
  /\ mpc = "rejoin" => \A t \in Topic : subscriptionMap[t] = NONE
  /\ \A t \in Topic : subscriptionMap[t] # NONE /\ ~crashed =>
       /\ ~isLoggedIn => cpc = "ended"
       /\ isLoggedIn /\ ~InLogout =>
            /\ ~InLogin /\ connectionhandler # NONE
            /\ \/ link[connectionhandler] = "closed"
               \/ \E j \in DOMAIN sent[connectionhandler] :
                    /\ sent[connectionhandler][j].cmd = "SUBSCRIBE"
                    /\ sent[connectionhandler][j].id = subscriptionMap[t]

(* An event that comes too late for LogoutClear leaves the communication   *)
(* thread without a handler to wait for: it does not end, so that logout   *)
(* does not come back to the prompt.                                       *)
EventInv ==
  /\ shouldTerminate =>
       cpc = "ended" \/ mpc \in {"terminate", "prompt", "finish", "exited", "crashed"}
  /\ cpc = "push" => reader \in Conn /\ sent[reader] # <<>>
  /\ \A t \in Topic : \A h \in eventsMap[t] : sent[h] # <<>>
  /\ mpc \notin {"null", "clear", "rejoin", "crashed"} =>
       /\ \A t \in Topic : eventsMap[t] \cap deleted = {}
       /\ cpc = "push" => reader \notin deleted
  /\ mpc = "rejoin" /\ (\E t \in Topic : eventsMap[t] \cap deleted # {}) =>
       cpc \in {"loop", "lock", "block", "waiting"}

(* The ids are those of the lines typed so far.                            *)
IdInv == subscriptionId <= inputs + (IF mpc = "command" THEN 0 ELSE 1)

(* The inductive invariant.                                                *)
ClientInv ==
  /\ TypeOK
  /\ SessionTypeOK
  /\ \A h \in Conn : OneConnect(h)
  /\ EndTogether
  /\ PointerInv
  /\ LoginInv
  /\ MapInv
  /\ EventInv
  /\ IdInv
  /\ ExitMatchesJoin
=============================================================================
