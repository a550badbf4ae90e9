-------------------------------- MODULE Event --------------------------------
(***************************************************************************)
(* Event (client): what a report says, how it is written into a frame and  *)
(* how it is read out of one.  A text is a sequence of tokens: words, and  *)
(* the characters that the conversions look for.  A word has at least two  *)
(* characters.                                                             *)
(***************************************************************************)
EXTENDS Integers, Sequences, SequencesExt, FiniteSetsExt, TLC

CONSTANTS
  Word,       \* the tokens of a text
  DateTime,   \* values of date_time, as seconds
  NONE        \* not there, or not of the type that is asked for

Colon == ":"
Space == " "
NewLine == "\n"

Text == Seq(Word)

(* The keys of a report.                                                   *)
UserKey == <<"user">>
ChannelKey == <<"channel name">>
NameKey == <<"event name">>
DescriptionKey == <<"description">>
CityKey == <<"city">>
DateTimeKey == <<"date time">>
InformationKey == <<"general information">>

ASSUME EventAssumption ==
  /\ DateTime \subseteq Int
  /\ {Colon, Space, NewLine} \subseteq Word
  /\ {UserKey, ChannelKey, NameKey, DescriptionKey, CityKey, DateTimeKey, InformationKey}
       \subseteq Text

(* getline(stream, token, delimiter), called until the stream is at its    *)
(* end: the parts that are complete, and the characters since.             *)
Parts(text, delimiter) ==
  LET parts[n \in 0..Len(text)] ==
        IF n = 0
          THEN [complete |-> <<>>, rest |-> <<>>]
          ELSE LET before == parts[n - 1]
               IN  IF text[n] = delimiter
                     THEN [complete |-> Append(before.complete, before.rest), rest |-> <<>>]
                     ELSE [complete |-> before.complete, rest |-> Append(before.rest, text[n])]
  IN  parts[Len(text)]

(* split_str, and the lines of a body: what follows the last delimiter     *)
(* counts only if it is not empty.                                         *)
split_str(text, delimiter) ==
  LET parts == Parts(text, delimiter)
  IN  IF parts.rest = <<>> THEN parts.complete ELSE Append(parts.complete, parts.rest)

(* The lines that have a colon.                                            *)
WithColon(lines) ==
  LET kept[n \in 0..Len(lines)] ==
        IF n = 0 THEN <<>>
        ELSE IF Contains(lines[n], Colon) THEN Append(kept[n - 1], lines[n])
                                          ELSE kept[n - 1]
  IN  kept[Len(lines)]

(* val.erase(0, val.find_first_not_of(" "))                                *)
WithoutSpaces(text) ==
  SubSeq(text, Min({i \in DOMAIN text : text[i] # Space} \cup {Len(text) + 1}), Len(text))

(* A text has this value as int ...                                        *)
to_string(n) == <<ToString(n)>>

IsNumber(text) == \E n \in DateTime : text = to_string(n)

(* ... which stoi returns.                                                 *)
stoi(text) == CHOOSE n \in DateTime : text = to_string(n)
-----------------------------------------------------------------------------
(* parseEventsFile, on what json::parse returns: a file has a channel and  *)
(* events whose fields may be missing or of another type, NONE.  A value   *)
(* of general_information that is not a string is its dump.  One bad field *)
(* and there is no event at all.                                           *)
Complete(e) == NONE \notin {e.event_name, e.city, e.date_time, e.description}

Parses(file) ==
  /\ file # NONE
  /\ file.channel_name # NONE
  /\ \A i \in DOMAIN file.events : Complete(file.events[i])

parseEventsFile(file) ==
  [i \in DOMAIN file.events |->
     LET e == file.events[i]
     IN  [eventOwnerUser |-> <<>>, channel_name |-> file.channel_name,
          city |-> e.city, name |-> e.event_name, date_time |-> e.date_time,
          description |-> e.description, general_information |-> e.general_information]]

(* report: the text of an event.                                           *)
Field(key, value) == key \o <<Colon, Space>> \o value \o <<NewLine>>

Detail(key, value) == Field(<<Space, Space>> \o key, value)

serializedEvent(e) ==
  Field(NameKey, e.name) \o Field(DescriptionKey, e.description)
    \o Field(CityKey, e.city) \o Field(DateTimeKey, to_string(e.date_time))
    \o (InformationKey \o <<Colon, NewLine>>)
    \o LET keys == SetToSeq(DOMAIN e.general_information)
       IN  FlattenSeq([i \in DOMAIN keys |-> Detail(keys[i], e.general_information[keys[i]])])
-----------------------------------------------------------------------------
(* The constructor of Event: a line without a colon is skipped, a later    *)
(* line overrides an earlier one with its key, and the lines below         *)
(* "general information" are details.                                      *)
KeyOf(line) == SubSeq(line, 1, Min({i \in DOMAIN line : line[i] = Colon}) - 1)

ValueOf(line) ==
  LET lineArgs == split_str(line, Colon)
  IN  IF Len(lineArgs) = 2 THEN WithoutSpaces(lineArgs[2]) ELSE <<>>

With(lines, key) == {i \in DOMAIN lines : KeyOf(lines[i]) = key}

LastValue(lines, places) == IF places = {} THEN <<>> ELSE ValueOf(lines[Max(places)])

Details(lines) ==
  LET heading == With(lines, InformationKey)
  IN  {i \in DOMAIN lines \ heading : \E j \in heading : j < i}

(* key.substr(2): in what report writes, two spaces.  A key that loses two *)
(* other characters is another key, and stands for itself.                 *)
DetailKey(line) ==
  LET key == KeyOf(line)
  IN  IF IsPrefix(<<Space, Space>>, key) THEN SubSeq(key, 3, Len(key)) ELSE key

(* stoi and substr throw.                                                  *)
Throws(frame_body) ==
  LET lines == WithColon(split_str(frame_body, NewLine))
  IN  \/ \E i \in With(lines, DateTimeKey) : ~IsNumber(ValueOf(lines[i]))
      \/ \E i \in Details(lines) : KeyOf(lines[i]) \in {<<>>, <<Space>>}

EventOf(frame_body) ==
  LET lines     == WithColon(split_str(frame_body, NewLine))
      Value(key) == LastValue(lines, With(lines, key))
  IN  [eventOwnerUser |-> Value(UserKey),
       channel_name |-> Value(ChannelKey),
       city |-> Value(CityKey),
       name |-> Value(NameKey),
       date_time |-> IF With(lines, DateTimeKey) = {} THEN 0
                                                       ELSE stoi(Value(DateTimeKey)),
       description |-> Value(DescriptionKey),
       general_information |->
         [key \in {DetailKey(lines[i]) : i \in Details(lines)} |->
            LastValue(lines, {i \in Details(lines) : DetailKey(lines[i]) = key})]]
=============================================================================
