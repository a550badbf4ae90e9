---------------------------- MODULE StompProtocol ----------------------------
(***************************************************************************)
(* StompProtocol (client): the frames the console client sends, as the     *)
(* server decodes them.  receiptCounter and the host are in no frame the   *)
(* server tells apart; subscriptions is never filled, so that the loop of  *)
(* createUnsubscribeFrame over it does nothing.                            *)
(***************************************************************************)
EXTENDS StompFrames

(* A frame that ends with its blank line: no header, no body.              *)
Plain == [cmd |-> "OTHER", versionAndHost |-> FALSE, login |-> NONE,
          passcode |-> NONE, destination |-> NONE, id |-> NONE,
          body |-> FALSE, receipt |-> FALSE]

createConnectFrame(username, password) ==
  [Plain EXCEPT !.cmd = "CONNECT", !.versionAndHost = TRUE,
                !.login = username, !.passcode = password]

createSendFrame(destination) ==
  [Plain EXCEPT !.cmd = "SEND", !.destination = destination, !.body = TRUE]

createSubscribeFrame(destination, id) ==
  [Plain EXCEPT !.cmd = "SUBSCRIBE", !.destination = destination, !.id = id,
                !.receipt = TRUE]

createUnsubscribeFrame(id) == [Plain EXCEPT !.cmd = "UNSUBSCRIBE", !.id = id]

createDisconnectFrame == [Plain EXCEPT !.cmd = "DISCONNECT", !.receipt = TRUE]
=============================================================================
