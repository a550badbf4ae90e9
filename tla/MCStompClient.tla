---------------------------- MODULE MCStompClient ----------------------------
(***************************************************************************)
(* Small instances of StompClient: what the user types.                    *)
(***************************************************************************)
EXTENDS StompClientInvariant

CONSTANTS h1, h2, u1, p1, t1

Commands(names) ==
  {[name |-> n, channel |-> IF n \in {"login", "logout", "exit"} THEN NONE ELSE t1] :
     n \in names}

(* The user logs in; then joins, logs in again or logs out at once; then   *)
(* does anything; then something that depends on what is left of it.       *)
FourLines ==
  <<Commands({"login"}),
    Commands({"join", "login"}),
    Commands({"login", "leave", "report", "summary", "logout", "exit"}),
    Commands({"login", "leave", "logout"})>>
=============================================================================
