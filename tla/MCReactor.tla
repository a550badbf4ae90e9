------------------------------ MODULE MCReactor ------------------------------
(***************************************************************************)
(* Small instances of Reactor: which requests the clients of a run send.   *)
(***************************************************************************)
EXTENDS ReactorInvariant

CONSTANTS c1, c2

(* c1 broadcasts on the topic; c2 joins it, is refused, logs out.          *)
TwoClients ==
  [c \in Conn |-> IF c = c1 THEN {"SUBSCRIBE", "SEND"}
                   ELSE {"SUBSCRIBE", "DISCONNECT", "BAD"}]

AnyFrames == [c \in Conn |-> Request]

BadFrames == [c \in Conn |-> {"BAD"}]

OneEach == [c \in Conn |-> 1]
TwoAndOne == [c \in Conn |-> IF c = c1 THEN 2 ELSE 1]
TwoEach == [c \in Conn |-> 2]
=============================================================================
