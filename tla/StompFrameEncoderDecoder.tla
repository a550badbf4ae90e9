---------------------- MODULE StompFrameEncoderDecoder ----------------------
(***************************************************************************)
(* StompFrame and its codec on the server, and what the client does of     *)
(* either: frames as texts (see Event), without the '\0' that ends them.   *)
(***************************************************************************)
EXTENDS Event

ASSUME HeaderAssumption == {"SEND", "MESSAGE", "destination", "message-id"} \subseteq Word

(* "\n\n" begins at these places.                                          *)
BlankLines(text) ==
  {i \in 1..(Len(text) - 1) : text[i] = NewLine /\ text[i + 1] = NewLine}

HeaderPart(text) ==
  IF BlankLines(text) = {} THEN text ELSE SubSeq(text, 1, Min(BlankLines(text)) - 1)

(* What follows the first blank line: of a raw frame in decode, of msg in  *)
(* the communication thread.                                               *)
BodyPart(text) ==
  IF BlankLines(text) = {} THEN <<>> ELSE SubSeq(text, Min(BlankLines(text)) + 2, Len(text))

(* The headers are the lines with a colon, each split at its first one.    *)
HeaderValue(line) == SubSeq(line, Len(KeyOf(line)) + 2, Len(line))

decode(rawFrame) ==
  LET lines   == split_str(HeaderPart(rawFrame), NewLine)
      headers == WithColon(Tail(lines))
  IN  [command |-> lines[1],
       headers |-> [key \in {KeyOf(headers[i]) : i \in DOMAIN headers} |->
                      HeaderValue(headers[Max(With(headers, key))])],
       body    |-> BodyPart(rawFrame)]

(* StompFrame.toString.                                                    *)
toString(frame) ==
  frame.command \o <<NewLine>>
    \o (LET keys == SetToSeq(DOMAIN frame.headers)
        IN  FlattenSeq([i \in DOMAIN keys |->
              keys[i] \o <<Colon>> \o frame.headers[keys[i]] \o <<NewLine>>]))
    \o <<NewLine>> \o frame.body

(* createSendFrame of the client.                                          *)
SendFrameText(destination, message) ==
  <<"SEND", NewLine, "destination", Colon>> \o destination \o <<NewLine, NewLine>>
    \o message \o <<NewLine>>

(* sendMessageFrame of the server.                                         *)
MessageBody(username, topic, detailedMessage) ==
  Field(UserKey, username) \o Field(ChannelKey, topic) \o detailedMessage

MessageFrame(username, topic, id, detailedMessage) ==
  [command |-> <<"MESSAGE">>,
   headers |-> [key \in {<<"destination">>, <<"message-id">>} |->
                  IF key = <<"destination">> THEN topic ELSE to_string(id)],
   body    |-> MessageBody(username, topic, detailedMessage)]
=============================================================================
