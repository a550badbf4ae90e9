----------------------------- MODULE StompClient -----------------------------
(***************************************************************************)
(* StompClient: the console client.  The main thread reads commands and    *)
(* carries them out; the communication thread reads frames from the        *)
(* server.  They share the local variables of main(), some of them under   *)
(* the mutex and some without.  A label is a point at which the next       *)
(* access to such a variable, or a call that blocks, is due.               *)
(*                                                                         *)
(* A connection handler is identified with its connection.  Destroying one *)
(* that the other thread uses, and using a map that the other thread       *)
(* changes, is undefined behaviour: the call does its work or fails, or    *)
(* the program ends ("crashed").                                           *)
(***************************************************************************)
EXTENDS ConnectionHandler, FiniteSets

CONSTANTS
  Input,         \* bound: what the user may type first, second and so on, each
                 \* time a command and its channel
  MaxEvents,     \* bound: how many events a report file has
  MaxMessages    \* bound: how many messages the client gets

ASSUME ClientAssumption ==
  /\ Input \in Seq(SUBSET [name : {"login", "join", "leave", "report", "summary",
                              "logout", "exit"},
                      channel : Topic \cup {NONE}])
  /\ \A i \in DOMAIN Input : \A line \in Input[i] :
       line.name \in {"login", "logout", "exit"} \/ line.channel \in Topic
  /\ 1..Len(Input) \subseteq SubId
  /\ {MaxEvents, MaxMessages} \subseteq Nat

VARIABLES
  mutex,                \* who holds it: "main", "comm" or NONE
  shouldTerminate,
  isLoggedIn,
  subscriptionMap,      \* channel -> id of its subscription, or NONE
  subscriptionId,       \* the static counter
  eventsMap,            \* channel -> the connections its events were read from
  connectionhandler,    \* the pointer, or NONE; stompProtocol goes with it
  mpc, command, inputs, \* main: its label, the line it is at, how many there were
  cpc, reader, event    \* communication thread: its label, the handler and the
                        \* channel of the event it works with

sharedVars == <<shouldTerminate, isLoggedIn, eventsMap, connectionhandler>>
mapVars == <<subscriptionMap, subscriptionId>>
mainVars == <<mpc, command, inputs>>
commVars == <<cpc, reader, event>>
vars == <<handlerVars, mutex, sharedVars, mapVars, mainVars, commVars>>

Init ==
  /\ HandlerInit
  /\ mutex = NONE
  /\ shouldTerminate = FALSE
  /\ isLoggedIn = FALSE
  /\ subscriptionMap = [t \in Topic |-> NONE]
  /\ subscriptionId = 1
  /\ eventsMap = [t \in Topic |-> {}]
  /\ connectionhandler = NONE
  /\ mpc = "prompt" /\ command = NONE /\ inputs = 0
  /\ cpc = "loop" /\ reader = NONE /\ event = NONE

(* The program ends: a null pointer, a dangling one, an exception that     *)
(* nobody catches, two threads in one map.                                 *)
Crash ==
  /\ mpc' = "crashed" /\ cpc' = "crashed"
  /\ UNCHANGED <<handlerVars, mutex, sharedVars, mapVars, command, inputs, reader, event>>

crashed == mpc = "crashed"

MainGoto(label) == mpc' = label /\ UNCHANGED <<command, inputs>>
CommGoto(label) == cpc' = label /\ UNCHANGED <<reader, event>>

(* lock_guard and unique_lock.                                             *)
Lock(thread) == mutex = NONE /\ mutex' = thread
Unlock == mutex' = NONE

(* cv.notify_all(): the communication thread is the only one that waits.   *)
NotifyAll == CommGoto(IF cpc = "waiting" THEN "lock" ELSE cpc)
-----------------------------------------------------------------------------
(* The main thread.                                                        *)

(* while (!shouldTerminate) ...                                            *)
Prompt ==
  /\ mpc = "prompt"
  /\ MainGoto(IF shouldTerminate THEN "finish" ELSE "input")
  /\ UNCHANGED <<handlerVars, mutex, sharedVars, mapVars, commVars>>

Fresh == {h \in Conn \ deleted : link[h] = "none"} \ {connectionhandler}

(* ... getline: the user types the next line.                              *)
Type ==
  /\ mpc = "input"
  /\ inputs < Len(Input)
  /\ command' \in Input[inputs + 1]
  /\ command'.name = "login" => Fresh # {}
  /\ inputs' = inputs + 1
  /\ mpc' = "command"
  /\ UNCHANGED <<handlerVars, mutex, sharedVars, mapVars, commVars>>

Typed(name) == mpc = "command" /\ command.name = name

(* continue: the command is refused, or there is nothing to do.            *)
Continue ==
  /\ MainGoto("prompt")
  /\ UNCHANGED <<handlerVars, mutex, sharedVars, mapVars, commVars>>

(* A line that is no command, or no valid one.                             *)
Ignore == mpc = "input" /\ Continue

(* Frames go out on the current connection.                                *)
Send(frames) ==
  /\ connectionhandler # NONE
  /\ SendLines(connectionhandler, frames)
  /\ UNCHANGED <<mutex, sharedVars, commVars>>

(* login.  The address may have no colon, or no number after it, at which  *)
(* stoi throws.                                                            *)
Login ==
  /\ Typed("login")
  /\ mutex = NONE
  /\ \/ Continue
     \/ ~isLoggedIn /\ Crash
     \/ /\ ~isLoggedIn
        /\ Lock("main")
        /\ connectionhandler' = CHOOSE h \in Fresh : TRUE
        /\ MainGoto("connect")
        /\ UNCHANGED <<handlerVars, shouldTerminate, isLoggedIn, eventsMap, mapVars,
                       commVars>>

(* Mutant: login does not notify.                                          *)
LoginSilently ==
  /\ mpc = "request"
  /\ \/ /\ \E u \in User, p \in Pass :
             SendLines(connectionhandler, <<createConnectFrame(u, p)>>)
        /\ Unlock
        /\ MainGoto("prompt")
     \/ /\ MayFail(connectionhandler)
        /\ MainGoto("discard")
        /\ UNCHANGED <<handlerVars, mutex>>
  /\ UNCHANGED <<sharedVars, mapVars, commVars>>

LoginConnect ==
  /\ mpc = "connect"
  /\ \/ Connect(connectionhandler) /\ MainGoto("request")
     \/ UNCHANGED handlerVars /\ MainGoto("discard")
  /\ UNCHANGED <<mutex, sharedVars, mapVars, commVars>>

LoginRequest ==
  /\ mpc = "request"
  /\ \/ /\ \E u \in User, p \in Pass :
             SendLines(connectionhandler, <<createConnectFrame(u, p)>>)
        /\ NotifyAll
        /\ Unlock
        /\ MainGoto("prompt")
     \/ /\ MayFail(connectionhandler)
        /\ MainGoto("discard")
        /\ UNCHANGED <<handlerVars, commVars, mutex>>
  /\ UNCHANGED <<sharedVars, mapVars>>

(* delete connectionhandler, in login and in logout ...                    *)
DeleteHandler ==
  /\ mpc \in {"discard", "delete"}
  /\ Delete(connectionhandler)
  /\ MainGoto(IF mpc = "discard" THEN "forget" ELSE "null")
  /\ UNCHANGED <<mutex, sharedVars, mapVars, commVars>>

(* ... connectionhandler = nullptr.                                        *)
ForgetHandler ==
  /\ mpc \in {"forget", "null"}
  /\ connectionhandler' = NONE
  /\ IF mpc = "forget" THEN Unlock /\ MainGoto("prompt")
                       ELSE UNCHANGED mutex /\ MainGoto("clear")
  /\ UNCHANGED <<handlerVars, shouldTerminate, isLoggedIn, eventsMap, mapVars,
                 commVars>>

Join ==
  /\ Typed("join")
  /\ IF ~isLoggedIn
       THEN Continue
       ELSE /\ subscriptionId' = subscriptionId + 1
            /\ subscriptionMap' = [subscriptionMap EXCEPT ![command.channel] = subscriptionId]
            /\ Send(<<createSubscribeFrame(command.channel, subscriptionId)>>)
            /\ MainGoto("prompt")

(* "exit" with a channel.                                                  *)
Leave ==
  /\ Typed("leave")
  /\ mutex = NONE
  /\ LET id == subscriptionMap[command.channel]
     IN  IF ~isLoggedIn \/ id = NONE
           THEN Continue
           ELSE /\ Send(<<createUnsubscribeFrame(id)>>)
                /\ MainGoto("prompt")
                /\ UNCHANGED mapVars

(* report: one frame for each event of the file; none if it is not valid.  *)
Report ==
  /\ Typed("report")
  /\ \/ Continue
     \/ /\ isLoggedIn
        /\ \E n \in 1..MaxEvents :
             Send([i \in 1..n |-> createSendFrame(command.channel)])
        /\ MainGoto("prompt")
        /\ UNCHANGED mapVars

(* summary reads eventsMap while it holds the mutex.                       *)
Summary ==
  /\ Typed("summary")
  /\ mutex = NONE
  /\ IF ~isLoggedIn \/ eventsMap[command.channel] = {}
       THEN Continue
       ELSE /\ Lock("main")
            /\ MainGoto("summarise")
            /\ UNCHANGED <<handlerVars, sharedVars, mapVars, commVars>>

SummaryWrite ==
  /\ mpc = "summarise"
  /\ Unlock
  /\ MainGoto("prompt")
  /\ UNCHANGED <<handlerVars, sharedVars, mapVars, commVars>>

(* Mutant: logout keeps the events.                                        *)
LogoutKeepsEvents ==
  /\ mpc = "clear"
  /\ isLoggedIn' = FALSE
  /\ subscriptionMap' = [t \in Topic |-> NONE]
  /\ MainGoto("rejoin")
  /\ UNCHANGED <<handlerVars, mutex, shouldTerminate, eventsMap, subscriptionId,
                 connectionhandler, commVars>>

Logout ==
  /\ Typed("logout")
  /\ IF ~isLoggedIn
       THEN Continue
       ELSE /\ Send(<<createDisconnectFrame>>)
            /\ MainGoto("delete")
            /\ UNCHANGED mapVars

LogoutClear ==
  /\ mpc = "clear"
  /\ isLoggedIn' = FALSE
  /\ subscriptionMap' = [t \in Topic |-> NONE]
  /\ eventsMap' = [t \in Topic |-> {}]
  /\ MainGoto("rejoin")
  /\ UNCHANGED <<handlerVars, mutex, shouldTerminate, subscriptionId,
                 connectionhandler, commVars>>

(* startServerCommunicationThread: join the previous thread, start a new   *)
(* one.                                                                    *)
Restart ==
  /\ mpc = "rejoin"
  /\ cpc = "ended"
  /\ CommGoto("loop")
  /\ MainGoto("prompt")
  /\ UNCHANGED <<handlerVars, mutex, sharedVars, mapVars>>

(* "exit" sets shouldTerminate, without the mutex ...                      *)
Exit ==
  /\ Typed("exit")
  /\ shouldTerminate' = TRUE
  /\ MainGoto("terminate")
  /\ UNCHANGED <<handlerVars, mutex, isLoggedIn, eventsMap, connectionhandler, mapVars,
                 commVars>>

(* ... and notifies.                                                       *)
ExitNotify ==
  /\ mpc = "terminate"
  /\ NotifyAll
  /\ MainGoto("prompt")
  /\ UNCHANGED <<handlerVars, mutex, sharedVars, mapVars>>

(* A command that uses the null pointer.                                   *)
NullHandler ==
  /\ mpc = "command" /\ command.name \in {"join", "leave", "report", "logout"}
  /\ command.name = "leave" => mutex = NONE /\ subscriptionMap[command.channel] # NONE
  /\ isLoggedIn /\ connectionhandler = NONE
  /\ Crash

(* The join after the loop.                                                *)
Goodbye ==
  /\ mpc = "finish"
  /\ cpc = "ended"
  /\ MainGoto("exited")
  /\ UNCHANGED <<handlerVars, mutex, sharedVars, mapVars, commVars>>

Main ==
  \/ Prompt \/ Login \/ LoginConnect \/ LoginRequest
  \/ DeleteHandler \/ ForgetHandler \/ Join \/ Leave \/ Report
  \/ Summary \/ SummaryWrite \/ Logout \/ LogoutClear \/ Restart
  \/ Exit \/ ExitNotify \/ NullHandler \/ Goodbye
-----------------------------------------------------------------------------
(* The communication thread.                                               *)

(* cv.wait(lock, predicate): while the predicate is false, unlock and      *)
(* block in one step.                                                      *)
TestPredicate ==
  /\ Lock("comm")
  /\ CommGoto(IF connectionhandler # NONE \/ shouldTerminate THEN "unlock" ELSE "block")
  /\ UNCHANGED <<handlerVars, sharedVars, mapVars, mainVars>>

(* Mutant: the wait keeps the mutex.                                       *)
CommBlockLocked ==
  /\ cpc = "block"
  /\ CommGoto("waiting")
  /\ UNCHANGED <<handlerVars, mutex, sharedVars, mapVars, mainVars>>

(* The head of the loop.                                                   *)
CommLoop ==
  /\ cpc = "loop"
  /\ IF ~shouldTerminate
       THEN TestPredicate
       ELSE /\ CommGoto("ended")
            /\ UNCHANGED <<handlerVars, mutex, sharedVars, mapVars, mainVars>>

CommBlock ==
  /\ cpc = "block"
  /\ Unlock
  /\ CommGoto("waiting")
  /\ UNCHANGED <<handlerVars, sharedVars, mapVars, mainVars>>

CommWake == cpc = "lock" /\ TestPredicate

(* The wait is over, and shouldTerminate is tested.                        *)
CommCheck ==
  /\ cpc = "unlock"
  /\ Unlock
  /\ CommGoto(IF shouldTerminate THEN "ended" ELSE "use")
  /\ UNCHANGED <<handlerVars, sharedVars, mapVars, mainVars>>

(* A wait may end without a notification.                                  *)
SpuriousWake ==
  /\ cpc = "waiting"
  /\ CommGoto("lock")
  /\ UNCHANGED <<handlerVars, mutex, sharedVars, mapVars, mainVars>>

(* connectionhandler && ...                                                *)
CommUse ==
  /\ cpc = "use"
  /\ reader' = connectionhandler
  /\ cpc' = IF connectionhandler = NONE THEN "lost" ELSE "call"
  /\ UNCHANGED <<handlerVars, mutex, sharedVars, mapVars, mainVars, event>>

(* ... connectionhandler->getLine(msg): the pointer may be read again, and *)
(* what it points to may be gone.                                          *)
CommCall ==
  /\ cpc = "call"
  /\ \/ {reader, connectionhandler} \cap (deleted \cup {NONE}) # {} /\ Crash
     \/ /\ reader' \in {reader, connectionhandler} \ {NONE}
        /\ cpc' = IF reader' \in deleted THEN "lost" ELSE "read"
        /\ UNCHANGED <<handlerVars, mutex, sharedVars, mapVars, mainVars, event>>

(* Mutant: every answer counts as CONNECTED.                               *)
AfterAny(h, answer) ==
  IF answer = "MESSAGE"
    THEN {<<"throw", NONE>>} \cup {<<"push", t>> : t \in Joined(h)}
    ELSE {<<"connected", NONE>>}

(* What is next when a frame has been read.  A MESSAGE is of a topic of    *)
(* the connection; the constructor of Event may throw.                     *)
After(h, answer) ==
  CASE answer = "CONNECTED" -> {<<"connected", NONE>>}
    [] answer = "MESSAGE"   -> {<<"throw", NONE>>} \cup {<<"push", t>> : t \in Joined(h)}
    [] OTHER                -> {<<"loop", NONE>>}

CommRead ==
  /\ cpc = "read" /\ reader \notin deleted
  /\ \/ /\ GetLine(reader)
        /\ \E next \in After(reader, Line(reader)) : cpc' = next[1] /\ event' = next[2]
        /\ UNCHANGED reader
     \/ /\ IsLost(reader)
        /\ CommGoto("lost")
        /\ UNCHANGED handlerVars
  /\ UNCHANGED <<mutex, sharedVars, mapVars, mainVars>>

(* The handler has been destroyed while its getLine was blocked in a read, *)
(* which returns when there is something to return.                        *)
CommReadDeleted ==
  /\ cpc = "read" /\ reader \in deleted
  /\ HasLine(reader) \/ IsLost(reader)
  /\ \/ Crash
     \/ /\ CommGoto("lost")
        /\ UNCHANGED <<handlerVars, mutex, sharedVars, mapVars, mainVars>>

CommConnected ==
  /\ cpc = "connected"
  /\ mutex = NONE
  /\ isLoggedIn' = TRUE
  /\ CommGoto("loop")
  /\ UNCHANGED <<handlerVars, mutex, shouldTerminate, eventsMap, connectionhandler,
                 mapVars, mainVars>>

(* Mutant: the event goes to the connection the pointer is at.             *)
CommPushCurrent ==
  /\ cpc = "push"
  /\ eventsMap' = [eventsMap EXCEPT ![event] = @ \cup {connectionhandler}]
  /\ CommGoto("loop")
  /\ UNCHANGED <<handlerVars, mutex, shouldTerminate, isLoggedIn, connectionhandler,
                 mapVars, mainVars>>

(* eventsMap[channel][user].push_back(e), without the mutex.               *)
CommPush ==
  /\ cpc = "push"
  /\ \/ mpc \in {"summarise", "clear"} /\ Crash
     \/ /\ eventsMap' = [eventsMap EXCEPT ![event] = @ \cup {reader}]
        /\ CommGoto("loop")
        /\ UNCHANGED <<handlerVars, mutex, shouldTerminate, isLoggedIn, connectionhandler,
                       mapVars, mainVars>>

(* Mutant: the thread goes on when the connection is lost.                 *)
CommLostGoesOn ==
  /\ cpc = "lost"
  /\ isLoggedIn' = FALSE
  /\ CommGoto("loop")
  /\ UNCHANGED <<handlerVars, mutex, shouldTerminate, eventsMap, connectionhandler,
                 mapVars, mainVars>>

(* The connection is lost, or an exception is caught.  (Main never waits   *)
(* on cv, so that notify_all does nothing here.)                           *)
CommLost ==
  /\ cpc = "lost"
  /\ isLoggedIn' = FALSE
  /\ CommGoto("ended")
  /\ UNCHANGED <<handlerVars, mutex, shouldTerminate, eventsMap, connectionhandler,
                 mapVars, mainVars>>

CommThrow ==
  /\ cpc = "throw"
  /\ shouldTerminate' = TRUE
  /\ CommGoto("ended")
  /\ UNCHANGED <<handlerVars, mutex, isLoggedIn, eventsMap, connectionhandler,
                 mapVars, mainVars>>

Comm ==
  \/ CommLoop \/ CommBlock \/ CommWake \/ CommCheck \/ CommUse \/ CommCall
  \/ CommRead \/ CommReadDeleted \/ CommConnected \/ CommPush \/ CommLost \/ CommThrow
-----------------------------------------------------------------------------
clientVars == <<mutex, sharedVars, mapVars, mainVars, commVars>>

(* What the server and the network must do for a connection, and what they *)
(* may do.  A blocked read keeps the socket of a destroyed handler open.   *)
Served(h) == ~crashed /\ (ServerTakes(h) \/ ServerWorks(h)) /\ UNCHANGED clientVars

Disturbed(h) ==
  /\ ~crashed
  /\ \/ Cardinality(Messages) < MaxMessages /\ ServerSends(h)
     \/ (h \in deleted => ~(cpc = "read" /\ reader = h)) /\ HangUp(h)
  /\ UNCHANGED clientVars

Next ==
  \/ Main \/ Type \/ Ignore \/ Comm \/ SpuriousWake
  \/ \E h \in Conn : Served(h) \/ Disturbed(h)

Spec == Init /\ [][Next]_vars

(* Both threads get to run, the server answers what it reads.  The user    *)
(* need not type, nobody need report anything.                             *)
FairSpec ==
  /\ Spec
  /\ SF_vars(Main)
  /\ WF_vars(Comm)
  /\ \A h \in Conn : WF_vars(Served(h))
=============================================================================
