-------------------------- MODULE MCThreadPerClient --------------------------
(***************************************************************************)
(* Small instances of ThreadPerClient: which frames the clients of a run   *)
(* send.  Every client of a run sends its frames in any order, each any    *)
(* number of times, up to MaxFrames of them.                               *)
(***************************************************************************)
EXTENDS BroadcastInvariant, StompProtocol

CONSTANTS c1, c2, c3, u1, u2, p1, p2, t1, t2, s1, s2, s3

WithReceipt(f) == [f EXCEPT !.receipt = TRUE]

(* Clients that log in and out.                                            *)
SessionFrames ==
  [c \in Conn |-> {createConnectFrame(u, p) : u \in User, p \in Pass} \cup {createDisconnectFrame}]

(* The same, every CONNECT or DISCONNECT a handler refuses or throws on,   *)
(* and a topic: c1 reports to it, and leaves a topic that it may not be    *)
(* in; c2 is a subscriber.                                                 *)
LoginFrames ==
  [c \in Conn |->
     (SessionFrames[c] \ {createConnectFrame(u2, p2)})
       \cup {[createConnectFrame(u1, p1) EXCEPT !.versionAndHost = FALSE],
             createConnectFrame(NONE, p1),
             createConnectFrame(u1, NONE),
             [createDisconnectFrame EXCEPT !.receipt = FALSE]}
       \cup IF c = c1 THEN {createSubscribeFrame(t1, s1), createSendFrame(t1),
                            createUnsubscribeFrame(s1)}
                      ELSE {createSubscribeFrame(t1, s2), Plain}]

(* Two clients on two topics.  c1 uses both; c2 stays with t1, and sends   *)
(* the frames the handlers refuse.                                         *)
TopicFrames ==
  [c \in Conn |->
     IF c = c1
       THEN {createSubscribeFrame(t1, s1), createSubscribeFrame(t2, s2), createUnsubscribeFrame(s1),
             WithReceipt(createUnsubscribeFrame(s2)), createSendFrame(t1), createDisconnectFrame}
       ELSE {createSubscribeFrame(t1, s3), WithReceipt(createUnsubscribeFrame(s3)),
             WithReceipt(createSendFrame(t1)), createSubscribeFrame(NONE, s3),
             createSubscribeFrame(t1, NONE), createUnsubscribeFrame(NONE), createSendFrame(NONE),
             [createSendFrame(t1) EXCEPT !.body = FALSE], Plain}]

(* Three clients on one topic, all with an id of their own: c1 reports,    *)
(* c2 logs out, c3 leaves the topic and comes back.                        *)
BroadcastFrames ==
  [c \in Conn |->
     CASE c = c1 -> {createSubscribeFrame(t1, s1), WithReceipt(createSendFrame(t1))}
       [] c = c2 -> {createSubscribeFrame(t1, s2), createDisconnectFrame}
       [] OTHER  -> {createSubscribeFrame(t1, s3), createUnsubscribeFrame(s3)}]

TwoEach == [c \in Conn |-> 2]
ThreeEach == [c \in Conn |-> 3]
TwoForC2 == [c \in Conn |-> IF c = c2 THEN 2 ELSE 3]
=============================================================================
