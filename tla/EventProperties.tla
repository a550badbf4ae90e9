--------------------------- MODULE EventProperties ---------------------------
(***************************************************************************)
(* What is left of an event that goes through the text of a frame, and for *)
(* which events nothing else is.                                           *)
(***************************************************************************)
EXTENDS StompFrameEncoderDecoder

IsEvent(e) ==
  /\ {e.eventOwnerUser, e.channel_name, e.city, e.name, e.description} \subseteq Text
  /\ e.date_time \in DateTime
  /\ IsFiniteSet(DOMAIN e.general_information)
  /\ \A key \in DOMAIN e.general_information :
       key \in Text /\ e.general_information[key] \in Text

Lacks(text, token) == \A i \in DOMAIN text : text[i] # token

(* Of a value its first line is left, without leading spaces, and nothing  *)
(* if there is a colon in it (one at the end is dropped).                  *)
FirstLine(text) ==
  SubSeq(text, 1, Min({i \in DOMAIN text : text[i] = NewLine} \cup {Len(text) + 1}) - 1)

Kept(text) ==
  LET line   == FirstLine(text)
      colons == {i \in DOMAIN line : line[i] = Colon}
  IN  CASE colons = {}          -> WithoutSpaces(line)
        [] colons = {Len(line)} -> WithoutSpaces(SubSeq(line, 1, Len(line) - 1))
        [] OTHER                -> <<>>

AsReceived(e) ==
  [eventOwnerUser |-> e.eventOwnerUser, channel_name |-> Kept(e.channel_name),
   city |-> Kept(e.city), name |-> Kept(e.name), date_time |-> e.date_time,
   description |-> Kept(e.description),
   general_information |-> [k \in DOMAIN e.general_information |-> Kept(e.general_information[k])]]

(* The body of the message that the report of e becomes.                   *)
BodyOf(e) == MessageBody(e.eventOwnerUser, e.channel_name, serializedEvent(e) \o <<NewLine>>)

(* A value has no colon after its first line: no line of it is taken for a *)
(* field of its own.                                                       *)
KeepsToItself(value) ==
  \A i, j \in DOMAIN value : i < j /\ value[i] = NewLine => value[j] # Colon

PlainName(name) ==
  Lacks(name, Colon) /\ Lacks(name, NewLine) /\ (name # <<>> => name[1] # Space)

PlainEvent(e) ==
  /\ PlainName(e.eventOwnerUser)
  /\ Lacks(e.channel_name, NewLine)
  /\ KeepsToItself(e.name) /\ KeepsToItself(e.description) /\ KeepsToItself(e.city)
  /\ \A key \in DOMAIN e.general_information :
       /\ Lacks(key, Colon) /\ Lacks(key, NewLine)
       /\ KeepsToItself(e.general_information[key])

(* The receivers of e stop at it, or have it as AsReceived says.           *)
ReadsBack(e) ==
  /\ Lacks(e.channel_name, NewLine)
  /\ Throws(BodyOf(e)) \/ EventOf(BodyOf(e)) = AsReceived(e)

(* What ToString makes of these numbers are words of their own.            *)
AreWords(numbers) ==
  /\ \A n \in numbers : ToString(n) \in Word \ {Colon, Space, NewLine}
  /\ \A m, n \in numbers : ToString(m) = ToString(n) => m = n
=============================================================================
