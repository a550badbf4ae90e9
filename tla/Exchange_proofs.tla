---------------------------- MODULE Exchange_proofs ---------------------------
(***************************************************************************)
(* Why the summaries are faithful: where each report is between the client *)
(* that sends it and the clients that it is for, on every step.            *)
(***************************************************************************)
EXTENDS ExchangeInvariant, Codec_proofs

(* What is due, event by event.                                            *)
IsDue(f, events, channels, name) ==
  /\ f[0] = <<>>
  /\ \A n \in 1..Len(events) :
       f[n] = IF events[n].channel_name \in channels /\ Kept(events[n].channel_name) = name
                THEN Append(f[n - 1], AsReceived(events[n]))
                ELSE f[n - 1]
  /\ \A n \in 0..Len(events) :
       f[n] \in Seq({AsReceived(events[i]) : i \in 1..Len(events)})

(* Due is such a function: its recursion ends.                             *)
LEMMA DueRun ==
  ASSUME NEW events, Len(events) \in Nat, NEW channels, NEW name
  PROVE  IsDue(Due(events, channels, name), events, channels, name)
<1> DEFINE N == Len(events)
           S == Seq({AsReceived(events[i]) : i \in 1..N})
           due(n) == events[n].channel_name \in channels /\ Kept(events[n].channel_name) = name
           next(s, n) == IF due(n) THEN Append(s, AsReceived(events[n])) ELSE s
           step == [n \in 1..N |-> [s \in S |-> next(s, n)]]
           Step(f) == [n \in 0..N |-> IF n = 0 THEN <<>> ELSE next(f[n - 1], n)]
           f == CHOOSE x : x = Step(x)
<1>1. N \in Nat
  OBVIOUS
<1>2. <<>> \in S
  OBVIOUS
<1>3. ASSUME NEW n \in 1..N, NEW s \in S PROVE next(s, n) \in S
  <2>1. AsReceived(events[n]) \in {AsReceived(events[i]) : i \in 1..N}
    OBVIOUS
  <2>2. PICK T : T = {AsReceived(events[i]) : i \in 1..N}
    OBVIOUS
  <2>3. s \in Seq(T) /\ AsReceived(events[n]) \in T
    BY <2>1, <2>2
  <2>4. Append(s, AsReceived(events[n])) \in Seq(T)
    BY <2>3, AppendProperties
  <2> HIDE DEF due
  <2> QED BY <2>2, <2>4
<1> HIDE DEF S, next
<1>4. step \in Steps(N, S)
  <2>1. \A n \in 1..N : [s \in S |-> next(s, n)] \in [S -> S]
    BY <1>3
  <2> QED BY <2>1 DEF Steps
<1>5. PICK g : IsRun(g, <<>>, step, N, S)
  <2> HIDE DEF step, N
  <2> QED BY <1>1, <1>2, <1>4, Recursion
<1>6. g \in [0..N -> S] /\ g[0] = <<>>
  BY <1>5 DEF IsRun
<1>7. ASSUME NEW n \in 1..N PROVE g[n] = next(g[n - 1], n)
  <2>1. n - 1 \in 0..N
    BY <1>1
  <2>2. g[n - 1] \in S
    BY <1>6, <2>1
  <2>3. step[n][g[n - 1]] = next(g[n - 1], n)
    BY <2>2
  <2> QED BY <1>5, <2>3 DEF IsRun
<1>8. g = Step(g)
  <2>1. \A n \in 0..N : g[n] = Step(g)[n]
    <3> SUFFICES ASSUME NEW n \in 0..N PROVE g[n] = IF n = 0 THEN <<>> ELSE next(g[n - 1], n)
      OBVIOUS
    <3>1. CASE n = 0
      BY <1>6, <3>1
    <3>2. CASE n # 0
      <4>1. n \in 1..N
        BY <3>2
      <4> QED BY <1>7, <3>2, <4>1
    <3> QED BY <3>1, <3>2
  <2>2. g = [n \in 0..N |-> g[n]]
    BY <1>6
  <2>3. Step(g) = [n \in 0..N |-> Step(g)[n]]
    OBVIOUS
  <2> HIDE DEF Step
  <2> QED BY <2>1, <2>2, <2>3
<1>9. f = Step(f)
  <2> HIDE DEF Step
  <2> QED BY <1>8
<1>10. Due(events, channels, name) = f
  BY DEF Due, next
<1> HIDE DEF f
<1>11. f[0] = <<>>
  <2>1. f[0] = Step(f)[0]
    <3> HIDE DEF Step
    <3> QED BY <1>9
  <2>2. 0 \in 0..N
    BY <1>1
  <2> QED BY <2>1, <2>2
<1>12. ASSUME NEW n \in 1..N PROVE f[n] = next(f[n - 1], n)
  <2>1. f[n] = Step(f)[n]
    <3> HIDE DEF Step
    <3> QED BY <1>9
  <2>2. n \in 0..N /\ n # 0
    OBVIOUS
  <2> QED BY <2>1, <2>2
<1>13. GoOnAlike(f, g, 0, N)
  <2>1. \A n \in (0 + 1)..N : n \in 1..N
    OBVIOUS
  <2>2. ASSUME NEW n \in (0 + 1)..N, f[n - 1] = g[n - 1] PROVE f[n] = g[n]
    BY <1>7, <1>12, <2>1, <2>2
  <2> QED BY <2>2 DEF GoOnAlike
<1>14. Agree(f, g, 0, N)
  <2>1. 0 \in 0..N /\ f[0] = g[0]
    BY <1>1, <1>6, <1>11
  <2> HIDE DEF N
  <2> QED BY <1>1, <1>13, <2>1, Agreement
<1>15. \A n \in 0..N : f[n] \in S
  BY <1>6, <1>14 DEF Agree
<1>16. IsDue(f, events, channels, name)
  BY <1>11, <1>12, <1>15 DEF IsDue, next, S
<1> QED BY <1>10, <1>16
-----------------------------------------------------------------------------
(* What is not due adds nothing.                                           *)
NoneDue(events, channels, name, m, n) ==
  \A i \in (m + 1)..n :
    ~(events[i].channel_name \in channels /\ Kept(events[i].channel_name) = name)

(* So the events that are due stay the same.                               *)
LEMMA DueSkips ==
  ASSUME NEW f, NEW events, NEW channels, NEW name, IsDue(f, events, channels, name),
         NEW n \in Nat, n <= Len(events), Len(events) \in Nat, NEW m \in 0..n,
         NoneDue(events, channels, name, m, n)
  PROVE  f[n] = f[m]
<1> DEFINE g == [i \in 0..n |-> f[m]]
<1>1. GoOnAlike(f, g, m, n)
  <2> SUFFICES ASSUME NEW i \in (m + 1)..n, f[i - 1] = g[i - 1] PROVE f[i] = g[i]
    BY DEF GoOnAlike
  <2>1. i \in 1..Len(events) /\ i \in 0..n /\ i - 1 \in 0..n
    OBVIOUS
  <2>2. f[i] = f[i - 1]
    BY <2>1 DEF IsDue, NoneDue
  <2> QED BY <2>1, <2>2
<1>2. f[m] = g[m]
  OBVIOUS
<1>3. g[n] = f[m]
  OBVIOUS
<1> HIDE DEF g
<1>4. Agree(f, g, m, n)
  BY <1>1, <1>2, Agreement
<1>5. n \in m..n
  OBVIOUS
<1> QED BY <1>3, <1>4, <1>5 DEF Agree

(* More events change nothing of what was due before.                      *)
Continues(more, events) ==
  /\ Len(events) \in Nat /\ Len(more) \in Nat /\ Len(events) <= Len(more)
  /\ \A i \in 1..Len(events) : more[i] = events[i]

(* The events that are due among the first n are the same.                 *)
LEMMA DueContinues ==
  ASSUME NEW f, NEW g, NEW events, NEW more, NEW channels, NEW name,
         IsDue(f, events, channels, name), IsDue(g, more, channels, name),
         Continues(more, events), NEW n \in 0..Len(events)
  PROVE  f[n] = g[n]
<1>1. Len(events) \in Nat /\ 0 \in 0..Len(events)
  BY DEF Continues
<1>2. GoOnAlike(f, g, 0, Len(events))
  <2> SUFFICES ASSUME NEW i \in (0 + 1)..Len(events), f[i - 1] = g[i - 1] PROVE f[i] = g[i]
    BY DEF GoOnAlike
  <2>1. i \in 1..Len(events) /\ i \in 1..Len(more) /\ more[i] = events[i]
    BY <1>1 DEF Continues
  <2>2. f[i] = IF events[i].channel_name \in channels /\ Kept(events[i].channel_name) = name
                 THEN Append(f[i - 1], AsReceived(events[i])) ELSE f[i - 1]
    BY <2>1 DEF IsDue
  <2>3. g[i] = IF more[i].channel_name \in channels /\ Kept(more[i].channel_name) = name
                 THEN Append(g[i - 1], AsReceived(more[i])) ELSE g[i - 1]
    BY <2>1 DEF IsDue
  <2> QED BY <2>1, <2>2, <2>3
<1>3. f[0] = g[0]
  BY DEF IsDue
<1>4. Agree(f, g, 0, Len(events))
  BY <1>1, <1>2, <1>3, Agreement
<1> QED BY <1>4 DEF Agree

(* A prefix, element by element.                                           *)
IsBegin(s, t) == Len(s) <= Len(t) /\ \A i \in 1..Len(s) : t[i] = s[i]

(* It is a prefix.                                                         *)
LEMMA PrefixIs ==
  ASSUME NEW T, NEW s \in Seq(T), NEW t \in Seq(T), IsBegin(s, t)
  PROVE  IsPrefix(s, t)
<1>1. PICK n \in Nat : n = Len(s)
  OBVIOUS
<1>2. n <= Len(t) /\ Len(t) \in Nat
  BY <1>1 DEF IsBegin
<1>3. PICK a, b : a = SubSeq(s, 1, n) /\ b = SubSeq(t, 1, n)
  OBVIOUS
<1>4. IsPart(T, s, 1, n, a)
  <2>1. 1 \in 1..(Len(s) + 1) /\ n \in (1 - 1)..Len(s)
    BY <1>1
  <2> QED BY <1>3, <2>1, PartAt
<1>5. IsPart(T, t, 1, n, b)
  <2>1. 1 \in 1..(Len(t) + 1) /\ n \in (1 - 1)..Len(t)
    BY <1>2
  <2> QED BY <1>3, <2>1, PartAt
<1>6. n - 1 + 1 = n /\ \A i \in 1..n : 1 + i - 1 = i
  OBVIOUS
<1>7. a \in Seq(T) /\ Len(a) = n /\ \A i \in 1..n : a[i] = s[i]
  BY <1>4, <1>6 DEF IsPart
<1>8. b \in Seq(T) /\ Len(b) = n /\ \A i \in 1..n : b[i] = t[i]
  BY <1>5, <1>6 DEF IsPart
<1>9. \A i \in 1..n : a[i] = b[i]
  BY <1>1, <1>7, <1>8 DEF IsBegin
<1>10. a = b
  BY <1>7, <1>8, <1>9, SeqEqual
<1> QED BY <1>1, <1>2, <1>3, <1>10 DEF IsPrefix

(* What was due stays at the beginning.                                    *)
LEMMA DueGrows ==
  ASSUME NEW f, NEW events, NEW channels, NEW name, IsDue(f, events, channels, name),
         Len(events) \in Nat, NEW n \in 0..Len(events), NEW m \in 0..n
  PROVE  IsBegin(f[m], f[n])
<1> DEFINE T == {AsReceived(events[i]) : i \in 1..Len(events)}
           A == {k \in Nat : m + k <= Len(events) => IsBegin(f[m], f[m + k])}
<1>1. \A k \in 0..Len(events) : f[k] \in Seq(T)
  BY DEF IsDue
<1>2. m \in 0..Len(events) /\ m \in Nat
  OBVIOUS
<1> HIDE DEF T
<1>3. 0 \in A
  <2>1. f[m] \in Seq(T) /\ m + 0 = m
    BY <1>1, <1>2
  <2> QED BY <2>1 DEF IsBegin
<1>4. ASSUME NEW k \in A PROVE k + 1 \in A
  <2> SUFFICES ASSUME m + (k + 1) <= Len(events) PROVE IsBegin(f[m], f[m + (k + 1)])
    OBVIOUS
  <2>1. /\ m + (k + 1) \in 1..Len(events) /\ m + k \in 0..Len(events)
        /\ m + (k + 1) - 1 = m + k /\ m + k <= Len(events)
    BY <1>2
  <2>2. IsBegin(f[m], f[m + k])
    BY <2>1
  <2>3. PICK s, t, r : s = f[m] /\ t = f[m + k] /\ r = f[m + (k + 1)]
    OBVIOUS
  <2>4. s \in Seq(T) /\ t \in Seq(T) /\ IsBegin(s, t)
    BY <1>1, <1>2, <2>1, <2>2, <2>3
  <2>5. PICK j : j = m + (k + 1)
    OBVIOUS
  <2>6. j \in 1..Len(events) /\ j - 1 = m + k
    BY <2>1, <2>5
  <2>7. PICK x : x = AsReceived(events[j])
    OBVIOUS
  <2>8. x \in T
    BY <2>6, <2>7 DEF T
  <2>9. f[j] = IF events[j].channel_name \in channels /\ Kept(events[j].channel_name) = name
                 THEN Append(f[j - 1], AsReceived(events[j])) ELSE f[j - 1]
    BY <2>6 DEF IsDue
  <2>10. r = t \/ r = Append(t, x)
    BY <2>3, <2>5, <2>6, <2>7, <2>9
  <2>11. CASE r = Append(t, x)
    <3>1. IsAppended(T, t, x, r)
      BY <2>4, <2>8, <2>11, AppendAt
    <3>2. Len(s) \in Nat /\ Len(t) \in Nat
      BY <2>4
    <3> QED BY <2>3, <2>4, <3>1, <3>2 DEF IsBegin, IsAppended
  <2> QED BY <2>3, <2>4, <2>10, <2>11
<1>5. A = Nat
  <2> HIDE DEF A
  <2>1. A \in SUBSET Nat
    BY DEF A
  <2> QED BY <1>3, <1>4, <2>1, SetInduction
<1>6. n - m \in Nat /\ m + (n - m) = n /\ n <= Len(events)
  BY <1>2
<1>7. n - m \in A
  BY <1>5, <1>6
<1> QED BY <1>6, <1>7

(* The events of ExpectedOf.                                               *)
LEMMA ExpectedIs ==
  ASSUME NEW d, NEW u, NEW name, Len(reported[u]) \in Nat
  PROVE  IsDue(ExpectedOf(d, u, name), reported[u], Joined[u] \cap Joined[d], name)
BY DueRun DEF ExpectedOf
-----------------------------------------------------------------------------
(* What an event is written as.                                            *)
LEMMA FieldText ==
  ASSUME NEW key \in Text, NEW value \in Text
  PROVE  Field(key, value) \in Text
<1>1. <<Colon, Space>> \in Text /\ <<NewLine>> \in Text
  BY Delimiters DEF Text
<1>2. key \o <<Colon, Space>> \in Text
  BY <1>1, ConcatText
<1>3. (key \o <<Colon, Space>>) \o value \in Text
  BY <1>2, ConcatText
<1>4. ((key \o <<Colon, Space>>) \o value) \o <<NewLine>> \in Text
  BY <1>1, <1>3, ConcatText
<1> QED BY <1>4 DEF Field

(* A number is written as one word.                                        *)
LEMMA NumberText ==
  ASSUME NumbersAreWords, NEW n \in Nat \cup DateTime
  PROVE  to_string(n) \in Text /\ Lacks(to_string(n), NewLine)
<1>1. ToString(n) \in Word \ {Colon, Space, NewLine}
  BY DEF NumbersAreWords, AreWords
<1>2. PICK w : w = ToString(n)
  OBVIOUS
<1>3. <<w>> \in Seq(Word) /\ \A i \in DOMAIN <<w>> : <<w>>[i] = w
  BY <1>1, <1>2
<1> QED BY <1>1, <1>2, <1>3 DEF to_string, Text, Lacks

(* The details are texts.                                                  *)
LEMMA DetailsText ==
  ASSUME NEW e, IsEvent(e), NEW keys, keys = SetToSeq(DOMAIN e.general_information)
  PROVE  [i \in DOMAIN keys |-> Detail(keys[i], e.general_information[keys[i]])] \in Seq(Text)
<1>1. IsListing(keys, DOMAIN e.general_information)
  BY SetIsListed DEF IsEvent
<1>2. PICK n \in Nat : n = Cardinality(DOMAIN e.general_information)
  BY <1>1 DEF IsListing
<1>3. keys \in [1..n -> DOMAIN e.general_information]
  BY <1>1, <1>2 DEF IsListing
<1>4. ASSUME NEW i \in 1..n PROVE Detail(keys[i], e.general_information[keys[i]]) \in Text
  <2>1. keys[i] \in Text /\ e.general_information[keys[i]] \in Text
    BY <1>3 DEF IsEvent
  <2>2. <<Space, Space>> \in Text
    BY Delimiters DEF Text
  <2>3. <<Space, Space>> \o keys[i] \in Text
    BY <2>1, <2>2, ConcatText
  <2> QED BY <2>1, <2>3, FieldText DEF Detail
<1>5. \A m \in Nat : \A s \in [1..m -> Text] : s \in Seq(Text)
  OBVIOUS
<1>6. DOMAIN keys = 1..n
  BY <1>3
<1>7. PICK s : s = [i \in DOMAIN keys |-> Detail(keys[i], e.general_information[keys[i]])]
  OBVIOUS
<1>8. s \in [1..n -> Text]
  BY <1>4, <1>6, <1>7
<1> QED BY <1>5, <1>7, <1>8

(* An event is written as a text.                                          *)
LEMMA EventText ==
  ASSUME NumbersAreWords, NEW e, IsEvent(e)
  PROVE  serializedEvent(e) \in Text /\ serializedEvent(e) \o <<NewLine>> \in Text
<1>1. /\ e.name \in Text /\ e.description \in Text /\ e.city \in Text
      /\ to_string(e.date_time) \in Text
  BY NumberText DEF IsEvent
<1>2. /\ NameKey \in Text /\ DescriptionKey \in Text /\ CityKey \in Text
      /\ DateTimeKey \in Text /\ InformationKey \in Text
  BY KeysAreKeys DEF IsKey
<1>3. <<Colon, NewLine>> \in Text /\ <<NewLine>> \in Text
  BY Delimiters DEF Text
<1>4. PICK a, b, c, d, h : /\ a = Field(NameKey, e.name)
                           /\ b = Field(DescriptionKey, e.description)
                           /\ c = Field(CityKey, e.city)
                           /\ d = Field(DateTimeKey, to_string(e.date_time))
                           /\ h = InformationKey \o <<Colon, NewLine>>
  OBVIOUS
<1>5. a \in Text /\ b \in Text /\ c \in Text /\ d \in Text /\ h \in Text
  BY <1>1, <1>2, <1>3, <1>4, FieldText, ConcatText
<1>6. PICK keys : keys = SetToSeq(DOMAIN e.general_information)
  OBVIOUS
<1>7. PICK l : l = FlattenSeq([i \in DOMAIN keys |-> Detail(keys[i], e.general_information[keys[i]])])
  OBVIOUS
<1>8. l \in Text
  BY <1>6, <1>7, DetailsText, FlattenText
<1>9. serializedEvent(e) = ((((a \o b) \o c) \o d) \o h) \o l
  BY <1>4, <1>6, <1>7 DEF serializedEvent
<1>10. (a \o b) \in Text
  BY <1>5, ConcatText
<1>11. ((a \o b) \o c) \in Text
  BY <1>5, <1>10, ConcatText
<1>12. (((a \o b) \o c) \o d) \in Text
  BY <1>5, <1>11, ConcatText
<1>13. ((((a \o b) \o c) \o d) \o h) \in Text
  BY <1>5, <1>12, ConcatText
<1>14. serializedEvent(e) \in Text
  BY <1>8, <1>9, <1>13, ConcatText
<1> QED BY <1>3, <1>14, ConcatText

(* The frame of a report is a text that the server takes apart again.      *)
LEMMA FrameIsRead ==
  ASSUME NumbersAreWords, NEW e, IsEvent(e), ReadsBack(e)
  PROVE  /\ FrameOf(e) \in Text
         /\ decode(FrameOf(e)).headers[<<"destination">>] = e.channel_name
         /\ decode(FrameOf(e)).body = serializedEvent(e) \o <<NewLine>>
<1>1. e.channel_name \in Text /\ Lacks(e.channel_name, NewLine)
  BY DEF IsEvent, ReadsBack
<1>2. PICK c, m : c = e.channel_name /\ m = serializedEvent(e)
  OBVIOUS
<1>3. c \in Text /\ m \in Text /\ m \o <<NewLine>> \in Text
  BY <1>1, <1>2, EventText
<1>4. <<"SEND", NewLine, "destination", Colon>> \in Text /\ <<NewLine, NewLine>> \in Text
      /\ <<NewLine>> \in Text
  BY Delimiters, HeaderAssumption DEF Text
<1>5. <<"SEND", NewLine, "destination", Colon>> \o c \in Text
  BY <1>3, <1>4, ConcatText
<1>6. (<<"SEND", NewLine, "destination", Colon>> \o c) \o <<NewLine, NewLine>> \in Text
  BY <1>4, <1>5, ConcatText
<1>7. ((<<"SEND", NewLine, "destination", Colon>> \o c) \o <<NewLine, NewLine>>) \o m \in Text
  BY <1>3, <1>6, ConcatText
<1>8. SendFrameText(c, m) \in Text
  BY <1>4, <1>7, ConcatText DEF SendFrameText
<1>9. FrameOf(e) = SendFrameText(c, m)
  BY <1>2 DEF FrameOf
<1> QED BY <1>1, <1>2, <1>3, <1>8, <1>9, ReportArrivesWhole

(* So is the message that it becomes, by its receivers.                    *)
LEMMA FrameText ==
  ASSUME NEW frame, frame.command \in Text, frame.body \in Text,
         IsFiniteSet(DOMAIN frame.headers),
         \A key \in DOMAIN frame.headers : key \in Text /\ frame.headers[key] \in Text
  PROVE  toString(frame) \in Text
<1>1. PICK keys : keys = SetToSeq(DOMAIN frame.headers)
  OBVIOUS
<1>2. IsListing(keys, DOMAIN frame.headers)
  BY <1>1, SetIsListed
<1>3. PICK n \in Nat : n = Cardinality(DOMAIN frame.headers)
  BY <1>2 DEF IsListing
<1>4. keys \in [1..n -> DOMAIN frame.headers]
  BY <1>2, <1>3 DEF IsListing
<1>5. <<Colon>> \in Text /\ <<NewLine>> \in Text
  BY Delimiters DEF Text
<1>6. ASSUME NEW i \in 1..n
      PROVE  keys[i] \o <<Colon>> \o frame.headers[keys[i]] \o <<NewLine>> \in Text
  <2>1. keys[i] \in Text /\ frame.headers[keys[i]] \in Text
    BY <1>4
  <2>2. keys[i] \o <<Colon>> \in Text
    BY <1>5, <2>1, ConcatText
  <2>3. (keys[i] \o <<Colon>>) \o frame.headers[keys[i]] \in Text
    BY <2>1, <2>2, ConcatText
  <2> QED BY <1>5, <2>3, ConcatText
<1>7. PICK s : s = [i \in DOMAIN keys |->
                      keys[i] \o <<Colon>> \o frame.headers[keys[i]] \o <<NewLine>>]
  OBVIOUS
<1>8. DOMAIN keys = 1..n
  BY <1>4
<1>9. s \in [1..n -> Text]
  BY <1>6, <1>7, <1>8
<1>10. \A m \in Nat : \A t \in [1..m -> Text] : t \in Seq(Text)
  OBVIOUS
<1>11. s \in Seq(Text)
  BY <1>9, <1>10
<1>12. FlattenSeq(s) \in Text
  BY <1>11, FlattenText
<1>13. frame.command \o <<NewLine>> \in Text
  BY <1>5, ConcatText
<1>14. (frame.command \o <<NewLine>>) \o FlattenSeq(s) \in Text
  BY <1>12, <1>13, ConcatText
<1>15. ((frame.command \o <<NewLine>>) \o FlattenSeq(s)) \o <<NewLine>> \in Text
  BY <1>5, <1>14, ConcatText
<1>16. (((frame.command \o <<NewLine>>) \o FlattenSeq(s)) \o <<NewLine>>) \o frame.body \in Text
  BY <1>15, ConcatText
<1> QED BY <1>1, <1>7, <1>16 DEF toString

MessageText(e, k) ==
  toString(MessageFrame(e.eventOwnerUser, e.channel_name, k, serializedEvent(e) \o <<NewLine>>))

(* The body of a message is that of the report that it was made of.        *)
LEMMA MessageIsRead ==
  ASSUME NumbersAreWords, NEW e, IsEvent(e), ReadsBack(e), NEW k \in Nat
  PROVE  MessageText(e, k) \in Text /\ BodyPart(MessageText(e, k)) = BodyOf(e)
<1>1. PICK u, c, m : u = e.eventOwnerUser /\ c = e.channel_name /\ m = serializedEvent(e) \o <<NewLine>>
  OBVIOUS
<1>2. u \in Text /\ c \in Text /\ m \in Text /\ Lacks(c, NewLine)
  BY <1>1, EventText DEF IsEvent, ReadsBack
<1>3. to_string(k) \in Text /\ Lacks(to_string(k), NewLine)
  BY NumberText
<1>4. BodyPart(toString(MessageFrame(u, c, k, m))) = MessageBody(u, c, m)
  BY <1>2, <1>3, MessageArrivesWhole
<1>5. PICK frame : frame = MessageFrame(u, c, k, m)
  OBVIOUS
<1>6. /\ frame.command = <<"MESSAGE">> /\ frame.body = MessageBody(u, c, m)
      /\ DOMAIN frame.headers = {<<"destination">>, <<"message-id">>}
      /\ \A key \in DOMAIN frame.headers : frame.headers[key] \in {c, to_string(k)}
  BY <1>5 DEF MessageFrame
<1>7. /\ <<"MESSAGE">> \in Text /\ <<"destination">> \in Text /\ <<"message-id">> \in Text
  BY HeaderAssumption DEF Text
<1>8. UserKey \in Text /\ ChannelKey \in Text
  BY KeysAreKeys DEF IsKey
<1>9. Field(UserKey, u) \in Text /\ Field(ChannelKey, c) \in Text
  BY <1>2, <1>8, FieldText
<1>10. Field(UserKey, u) \o Field(ChannelKey, c) \in Text
  BY <1>9, ConcatText
<1>11. MessageBody(u, c, m) \in Text
  BY <1>2, <1>10, ConcatText DEF MessageBody
<1>12. IsFiniteSet(DOMAIN frame.headers)
  <2>1. IsFiniteSet({<<"destination">>} \cup {<<"message-id">>})
    BY FS_Singleton, FS_AddElement
  <2>2. DOMAIN frame.headers = {<<"destination">>} \cup {<<"message-id">>}
    BY <1>6
  <2> QED BY <2>1, <2>2
<1>13. toString(frame) \in Text
  BY <1>2, <1>3, <1>6, <1>7, <1>11, <1>12, FrameText
<1> QED BY <1>1, <1>4, <1>5, <1>13 DEF MessageText, BodyOf

(* The events of a file are events once they have an owner.                *)
ReportOf(file, u, i) == [parseEventsFile(file)[i] EXCEPT !.eventOwnerUser = u]

(* And the frame of the event is made of the same fields.                  *)
LEMMA ReportIsEvent ==
  ASSUME NEW u \in User, NEW file \in File, Parses(file), NEW i \in DOMAIN file.events
  PROVE  /\ IsEvent(ReportOf(file, u, i))
         /\ ReportOf(file, u, i).eventOwnerUser = u
         /\ SendFrameText(parseEventsFile(file)[i].channel_name,
                          serializedEvent(parseEventsFile(file)[i]))
              = FrameOf(ReportOf(file, u, i))
<1>1. /\ file.channel_name \in Text /\ Complete(file.events[i]) /\ IsFileEvent(file.events[i])
      /\ u \in Text
  BY ExchangeAssumption DEF Parses
<1>2. PICK e, r : e = file.events[i] /\ r = ReportOf(file, u, i)
  OBVIOUS
<1>3. parseEventsFile(file)[i] =
        [eventOwnerUser |-> <<>>, channel_name |-> file.channel_name,
         city |-> e.city, name |-> e.event_name, date_time |-> e.date_time,
         description |-> e.description, general_information |-> e.general_information]
  BY <1>2 DEF parseEventsFile
<1>4. r = [eventOwnerUser |-> u, channel_name |-> file.channel_name,
           city |-> e.city, name |-> e.event_name, date_time |-> e.date_time,
           description |-> e.description, general_information |-> e.general_information]
  BY <1>2, <1>3 DEF ReportOf
<1>5. /\ e.event_name \in Text /\ e.city \in Text /\ e.description \in Text
      /\ e.date_time \in DateTime
  BY <1>1, <1>2 DEF IsFileEvent, Complete
<1>6. IsEvent(r)
  BY <1>1, <1>2, <1>4, <1>5 DEF IsEvent, IsFileEvent
<1>7. r.eventOwnerUser = u
  BY <1>4
<1>8. PICK p : p = parseEventsFile(file)[i]
  OBVIOUS
<1>9. /\ p.channel_name = r.channel_name /\ p.name = r.name /\ p.city = r.city
       /\ p.description = r.description /\ p.date_time = r.date_time
       /\ p.general_information = r.general_information
  BY <1>3, <1>4, <1>8
<1>10. serializedEvent(p) = serializedEvent(r)
  BY <1>9 DEF serializedEvent
<1>11. SendFrameText(p.channel_name, serializedEvent(p)) = FrameOf(r)
  BY <1>9, <1>10 DEF FrameOf
<1> QED BY <1>2, <1>6, <1>7, <1>8, <1>11

(* Plain files read back.                                                  *)
PlainFiles ==
  \A u \in User, file \in File : Parses(file) =>
    \A i \in DOMAIN file.events :
      PlainEvent([parseEventsFile(file)[i] EXCEPT !.eventOwnerUser = u])

(* Files of plain events read back.                                        *)
THEOREM PlainFilesReadBack ==
  ASSUME AreWords(DateTime), PlainFiles
  PROVE  FilesReadBack
<1> SUFFICES ASSUME NEW u \in User, NEW file \in File, Parses(file), NEW i \in DOMAIN file.events
             PROVE  ReadsBack(ReportOf(file, u, i))
  BY DEF FilesReadBack, ReportOf
<1>1. PICK e : e = ReportOf(file, u, i)
  OBVIOUS
<1>2. IsEvent(e)
  BY <1>1, ReportIsEvent
<1>3. PlainEvent(e)
  BY <1>1 DEF PlainFiles, ReportOf
<1>4. EventOf(BodyOf(e)) = AsReceived(e)
  BY <1>2, <1>3, PlainEventArrives
<1>5. Lacks(e.channel_name, NewLine)
  BY <1>3 DEF PlainEvent
<1> QED BY <1>1, <1>4, <1>5 DEF ReadsBack
-----------------------------------------------------------------------------
(* How far the reports of u have come.                                     *)
LEMMA Sizes ==
  ASSUME ExchangeInv, NEW u \in User
  PROVE  /\ Len(reported[u]) \in Nat /\ DOMAIN reported[u] = 1..Len(reported[u])
         /\ Len(sent[u]) \in Nat /\ DOMAIN sent[u] = 1..Len(sent[u])
         /\ Written(u) \in Nat /\ messageId[u] = Written(u) + 1
         /\ Served(u) \in Nat /\ Written(u) <= Served(u)
         /\ Served(u) + Len(sent[u]) = Len(reported[u])
         /\ Written(u) <= Len(reported[u])
<1>1. Len(reported[u]) \in Nat /\ DOMAIN reported[u] = 1..Len(reported[u])
  <2>1. PICK s, T : s = reported[u] /\ T = Range(reported[u])
    OBVIOUS
  <2>2. s \in Seq(T)
    BY <2>1 DEF ExchangeInv, ReportsReadBack
  <2>3. Len(s) \in Nat /\ DOMAIN s = 1..Len(s)
    BY <2>2
  <2> QED BY <2>1, <2>3
<1>2. Len(sent[u]) \in Nat /\ DOMAIN sent[u] = 1..Len(sent[u])
  <2>1. sent[u] \in Seq(Text)
    BY DEF ExchangeInv, TypeOK
  <2> QED BY <2>1
<1>3. Written(u) \in Nat /\ messageId[u] = Written(u) + 1
  <2>1. messageId[u] \in Nat \ {0}
    BY DEF ExchangeInv, TypeOK
  <2> QED BY <2>1 DEF Written
<1>4. Len(sent[u]) <= Len(reported[u])
  BY DEF ExchangeInv, SentAsReported
<1>5. Served(u) \in Nat /\ Served(u) + Len(sent[u]) = Len(reported[u])
  BY <1>1, <1>2, <1>4 DEF Served
<1>6. Written(u) <= Served(u)
  BY <1>3, <1>5 DEF ExchangeInv, ServedInTurn
<1> QED BY <1>1, <1>2, <1>3, <1>5, <1>6

(* Nothing that is said of the first reports changes when more follow.     *)
Stays(d, u) ==
  /\ \A k \in 1..Len(reported[u]) :
       /\ reported'[u][k] = reported[u][k]
       /\ Fits(d, u, k)' = Fits(d, u, k)
       /\ MessageOf(u, k)' = MessageOf(u, k)
  /\ \A name : \A n \in 0..Len(reported[u]) :
       ExpectedOf(d, u, name)'[n] = ExpectedOf(d, u, name)[n]

(* A report adds to what is reported and changes nothing of it.            *)
LEMMA ReportsStay ==
  ASSUME NEW u, Continues(reported'[u], reported[u]), NEW d
  PROVE  Stays(d, u)
<1>1. ASSUME NEW k \in 1..Len(reported[u]) PROVE reported'[u][k] = reported[u][k]
  BY DEF Continues
<1>2. ASSUME NEW k \in 1..Len(reported[u]) PROVE Fits(d, u, k)' = Fits(d, u, k)
  BY <1>1 DEF Fits
<1>3. ASSUME NEW k \in 1..Len(reported[u]) PROVE MessageOf(u, k)' = MessageOf(u, k)
  BY <1>1 DEF MessageOf
<1>4. ASSUME NEW name, NEW n \in 0..Len(reported[u])
      PROVE  ExpectedOf(d, u, name)'[n] = ExpectedOf(d, u, name)[n]
  <2>1. Len(reported[u]) \in Nat /\ Len(reported'[u]) \in Nat
    BY DEF Continues
  <2>2. PICK f, g, channels : /\ channels = Joined[u] \cap Joined[d]
                              /\ f = Due(reported[u], channels, name)
                              /\ g = Due(reported'[u], channels, name)
    OBVIOUS
  <2>3. IsDue(f, reported[u], channels, name)
    BY <2>1, <2>2, DueRun
  <2>4. IsDue(g, reported'[u], channels, name)
    BY <2>1, <2>2, DueRun
  <2>5. f[n] = g[n]
    BY <2>3, <2>4, DueContinues
  <2> QED BY <2>2, <2>5 DEF ExpectedOf
<1> QED BY <1>1, <1>2, <1>3, <1>4 DEF Stays

(* Nor does a step that reports nothing.                                   *)
LEMMA NoReportStays ==
  ASSUME ExchangeInv, reported' = reported, NEW u \in User, NEW d
  PROVE  Stays(d, u)
<1>1. Len(reported[u]) \in Nat
  BY Sizes
<1>2. Continues(reported'[u], reported[u])
  BY <1>1 DEF Continues
<1> QED BY <1>2, ReportsStay

(* An event arrives as an event.                                           *)
LEMMA ReceivedIsEvent ==
  ASSUME NEW e, IsEvent(e)
  PROVE  IsEvent(AsReceived(e))
<1>1. PICK r : r = AsReceived(e)
  OBVIOUS
<1>2. /\ r.eventOwnerUser = e.eventOwnerUser /\ r.channel_name = Kept(e.channel_name)
      /\ r.city = Kept(e.city) /\ r.name = Kept(e.name) /\ r.date_time = e.date_time
      /\ r.description = Kept(e.description)
      /\ DOMAIN r.general_information = DOMAIN e.general_information
      /\ \A k \in DOMAIN e.general_information :
           r.general_information[k] = Kept(e.general_information[k])
  BY <1>1 DEF AsReceived
<1>3. /\ Kept(e.channel_name) \in Text /\ Kept(e.city) \in Text /\ Kept(e.name) \in Text
      /\ Kept(e.description) \in Text
      /\ \A k \in DOMAIN e.general_information : Kept(e.general_information[k]) \in Text
  BY KeptType DEF IsEvent
<1>4. IsEvent(r)
  BY <1>2, <1>3 DEF IsEvent
<1> QED BY <1>1, <1>4

(* Nothing is reported, sent or read at first.                             *)
LEMMA ExchangeInit ==
  ASSUME Init
  PROVE  ExchangeInv
<1>1. ASSUME NEW u \in User
      PROVE  /\ reported[u] = <<>> /\ sent[u] = <<>> /\ inbox[u] = <<>> /\ eventsMap[u] = <<>>
             /\ session[u] = TRUE /\ messageId[u] = 1 /\ broadcast[u] = [text |-> <<>>, to |-> {}]
             /\ \A d \in User : read[d][u] = 0
  BY DEF Init
<1>2. Len(<<>>) = 0 /\ DOMAIN <<>> = {} /\ \A S : <<>> \in Seq(S)
  OBVIOUS
<1>3. TypeOK
  <2>1. /\ isLoggedIn \in [User -> BOOLEAN] /\ shouldTerminate \in [User -> BOOLEAN]
        /\ session \in [User -> BOOLEAN] /\ reports \in 0..MaxReports
        /\ DOMAIN reported = User /\ DOMAIN eventsMap = User
        /\ messageId \in [User -> Nat \ {0}]
    BY ExchangeAssumption DEF Init
  <2>2. sent \in [User -> Seq(Text)] /\ inbox \in [User -> Seq(Message)]
    BY <1>2 DEF Init
  <2>3. broadcast \in [User -> [text : Text, to : SUBSET User]]
    <3>1. [text |-> <<>>, to |-> {}] \in [text : Text, to : SUBSET User]
      BY EmptyText
    <3> QED BY <3>1 DEF Init
  <2>4. read \in [User -> [User -> Nat]]
    BY DEF Init
  <2>5. \A u \in User : DOMAIN reported[u] = {} /\ DOMAIN eventsMap[u] = {}
    BY <1>1, <1>2
  <2> QED BY <2>1, <2>2, <2>3, <2>4, <2>5 DEF TypeOK
<1>4. ReportsReadBack
  BY <1>1, <1>2 DEF ReportsReadBack
<1>5. ASSUME NEW u \in User
       PROVE  /\ Len(reported[u]) = 0 /\ Len(sent[u]) = 0 /\ DOMAIN sent[u] = {}
              /\ broadcast[u].to = {}
  <2>1. Len(reported[u]) = 0
    BY <1>1, <1>2
  <2>2. Len(sent[u]) = 0 /\ DOMAIN sent[u] = {}
    BY <1>1, <1>2
  <2>3. broadcast[u].to = {}
    <3>1. PICK t, d : t = <<>> /\ d = {}
      OBVIOUS
    <3>2. broadcast[u] = [text |-> t, to |-> d]
      BY <1>1, <3>1
    <3>3. broadcast[u].to = d
      BY <3>2
    <3> QED BY <3>1, <3>3
  <2> QED BY <2>1, <2>2, <2>3
<1>6. SentAsReported
  BY <1>5 DEF SentAsReported
<1>7. ASSUME NEW u \in User PROVE Written(u) = 0 /\ Served(u) = 0
  <2>1. Written(u) = 1 - 1
    BY <1>1 DEF Written
  <2>2. Served(u) = 0 - 0
    BY <1>5 DEF Served
  <2> QED BY <2>1, <2>2
<1>8. ServedInTurn
  <2>1. \A u \in User : 1..Written(u) = {}
    BY <1>7
  <2> QED BY <1>1, <1>7, <2>1 DEF ServedInTurn
<1>9. BroadcastIsLast
  BY <1>5 DEF BroadcastIsLast
<1>10. InboxInOrder
  BY <1>1, <1>2 DEF InboxInOrder
<1>11. NoneSkipped
  <2>1. \A d, u \in User : read[d][u] = 0 /\ Written(u) = 0
    BY <1>1, <1>7
  <2>2. \A d, u \in User : (read[d][u] + 1)..Written(u) = {}
    BY <2>1
  <2> QED BY <2>1, <2>2 DEF NoneSkipped
<1>12. EventsAsRead
  <2>1. ASSUME NEW d \in User PROVE DOMAIN eventsMap[d] = {}
    BY <1>1, <1>2
  <2>2. ASSUME NEW d \in User, NEW u \in User, NEW name \in Name
        PROVE  EventsOf(d, name, u) = ExpectedOf(d, u, name)[read[d][u]]
    <3>1. EventsOf(d, name, u) = <<>>
      BY <2>1 DEF EventsOf
    <3>2. Len(reported[u]) \in Nat
      BY <1>1, <1>2
    <3>3. ExpectedOf(d, u, name)[0] = <<>>
      BY <3>2, ExpectedIs DEF IsDue
    <3> QED BY <1>1, <3>1, <3>3
  <2> QED BY <2>1, <2>2 DEF EventsAsRead
<1> QED BY <1>3, <1>4, <1>6, <1>8, <1>9, <1>10, <1>11, <1>12 DEF ExchangeInv
-----------------------------------------------------------------------------
(* A sequence is one of its own elements.                                  *)
LEMMA OwnRange ==
  ASSUME NEW T, NEW s \in Seq(T)
  PROVE  s \in Seq(Range(s))
<1>1. Len(s) \in Nat /\ s = [i \in 1..Len(s) |-> s[i]] /\ DOMAIN s = 1..Len(s)
  OBVIOUS
<1>2. PICK n \in Nat : n = Len(s)
  BY <1>1
<1>3. PICK R : R = Range(s)
  OBVIOUS
<1>4. \A i \in 1..n : s[i] \in R
  BY <1>1, <1>2, <1>3 DEF Range
<1>5. s \in [1..n -> R]
  BY <1>1, <1>2, <1>4
<1>6. \A m \in Nat : \A t \in [1..m -> R] : t \in Seq(R)
  OBVIOUS
<1> QED BY <1>3, <1>5, <1>6

(* The frames of a report and its events, one for one.                     *)
Adds(u, m, frames, events) ==
  /\ sent' = [sent EXCEPT ![u] = @ \o frames]
  /\ reported' = [reported EXCEPT ![u] = @ \o events]
  /\ frames \in Seq(Text) /\ Len(frames) = m
  /\ events \in Seq(Range(events)) /\ Len(events) = m
  /\ \A i \in 1..m : /\ frames[i] = FrameOf(events[i])
                     /\ IsEvent(events[i]) /\ ReadsBack(events[i])
                     /\ events[i].eventOwnerUser = u

(* A report adds as many frames as events.                                 *)
LEMMA ReportAdds ==
  ASSUME NumbersAreWords, FilesReadBack, NEW u \in User, NEW file \in File,
         Parses(file), Report(u, file)
  PROVE  \E m \in Nat : \E frames, events : Adds(u, m, frames, events)
<1>1. file.events \in Seq(Range(file.events))
  BY ExchangeAssumption DEF Parses
<1>2. PICK m \in Nat : m = Len(file.events)
  BY <1>1
<1>3. DOMAIN file.events = 1..m
  BY <1>1, <1>2
<1>4. PICK p : p = parseEventsFile(file)
  OBVIOUS
<1>5. DOMAIN p = 1..m
  BY <1>3, <1>4 DEF parseEventsFile
<1>6. PICK frames : frames = [i \in DOMAIN p |-> SendFrameText(p[i].channel_name, serializedEvent(p[i]))]
  OBVIOUS
<1>7. PICK events : events = [i \in DOMAIN p |-> [p[i] EXCEPT !.eventOwnerUser = u]]
  OBVIOUS
<1>8. /\ sent' = [sent EXCEPT ![u] = @ \o frames]
      /\ reported' = [reported EXCEPT ![u] = @ \o events]
  BY <1>4, <1>6, <1>7 DEF Report
<1>9. ASSUME NEW i \in 1..m
      PROVE  /\ events[i] = ReportOf(file, u, i)
             /\ frames[i] = FrameOf(events[i])
             /\ IsEvent(events[i]) /\ ReadsBack(events[i])
             /\ events[i].eventOwnerUser = u
             /\ frames[i] \in Text
  <2>1. events[i] = ReportOf(file, u, i)
    BY <1>4, <1>5, <1>7 DEF ReportOf
  <2>2. frames[i] = SendFrameText(p[i].channel_name, serializedEvent(p[i]))
    BY <1>5, <1>6
  <2>3. i \in DOMAIN file.events
    BY <1>3
  <2>4. /\ IsEvent(events[i]) /\ events[i].eventOwnerUser = u
        /\ frames[i] = FrameOf(events[i])
    BY <1>4, <2>1, <2>2, <2>3, ReportIsEvent
  <2>5. ReadsBack(events[i])
    BY <2>1, <2>3 DEF FilesReadBack, ReportOf
  <2> QED BY <2>1, <2>4, <2>5, FrameIsRead
<1>10. \A n \in Nat : \A T : \A s \in [1..n -> T] : s \in Seq(T) /\ Len(s) = n
  OBVIOUS
<1>11. frames \in [1..m -> Text]
  BY <1>5, <1>6, <1>9
<1>12. frames \in Seq(Text) /\ Len(frames) = m
  BY <1>10, <1>11
<1>13. PICK T : T = {events[i] : i \in 1..m}
  OBVIOUS
<1>14. events \in [1..m -> T]
  BY <1>5, <1>7, <1>13
<1>15. events \in Seq(T) /\ Len(events) = m
  BY <1>10, <1>14
<1>16. events \in Seq(Range(events))
  BY <1>15, OwnRange
<1>17. Adds(u, m, frames, events)
  BY <1>8, <1>9, <1>12, <1>15, <1>16 DEF Adds
<1> QED BY <1>17

(* What was added is behind what was there.                                *)
LEMMA AddedBehind ==
  ASSUME ExchangeInv, NEW u \in User, NEW m \in Nat, NEW frames, NEW events,
         Adds(u, m, frames, events)
  PROVE  /\ IsJoined(Text, sent[u], frames, sent'[u])
         /\ \E T : IsJoined(T, reported[u], events, reported'[u])
         /\ \A v \in User \ {u} : sent'[v] = sent[v] /\ reported'[v] = reported[v]
         /\ DOMAIN sent' = User /\ DOMAIN reported' = User
<1>1. DOMAIN sent = User /\ DOMAIN reported = User /\ sent[u] \in Seq(Text)
  BY DEF ExchangeInv, TypeOK
<1>2. sent'[u] = sent[u] \o frames /\ reported'[u] = reported[u] \o events
  BY <1>1 DEF Adds
<1>3. /\ \A v \in User \ {u} : sent'[v] = sent[v] /\ reported'[v] = reported[v]
      /\ DOMAIN sent' = User /\ DOMAIN reported' = User
  BY <1>1 DEF Adds
<1>4. IsJoined(Text, sent[u], frames, sent'[u])
  <2>1. frames \in Seq(Text)
    BY DEF Adds
  <2> QED BY <1>1, <1>2, <2>1, JoinAt
<1>5. PICK A, B, T : A = Range(reported[u]) /\ B = Range(events) /\ T = A \cup B
  OBVIOUS
<1>6. reported[u] \in Seq(A) /\ events \in Seq(B)
  BY <1>5 DEF ExchangeInv, ReportsReadBack, Adds
<1>7. \A S : \A s \in Seq(S) : \A R : S \subseteq R => s \in Seq(R)
  OBVIOUS
<1>8. reported[u] \in Seq(T) /\ events \in Seq(T)
  BY <1>5, <1>6, <1>7
<1>9. IsJoined(T, reported[u], events, reported'[u])
  BY <1>2, <1>8, JoinAt
<1> QED BY <1>3, <1>4, <1>9

(* So the two sequences stay in step.                                      *)
LEMMA InStep ==
  ASSUME ExchangeInv, NEW u \in User, NEW m \in Nat, NEW frames, NEW events,
         Adds(u, m, frames, events)
  PROVE  /\ Len(reported'[u]) = Len(reported[u]) + m /\ Len(sent'[u]) = Len(sent[u]) + m
         /\ reported'[u] \in Seq(Range(reported'[u]))
         /\ \A k \in 1..Len(reported[u]) : reported'[u][k] = reported[u][k]
         /\ \A i \in 1..m : /\ reported'[u][Len(reported[u]) + i] = events[i]
                            /\ sent'[u][Len(sent[u]) + i] = frames[i]
         /\ \A i \in 1..Len(sent[u]) : sent'[u][i] = sent[u][i]
         /\ sent'[u] \in Seq(Text)
         /\ \A v \in User : Continues(reported'[v], reported[v])
<1>1. PICK T : IsJoined(T, reported[u], events, reported'[u])
  BY AddedBehind
<1>2. IsJoined(Text, sent[u], frames, sent'[u])
  BY AddedBehind
<1>3. Len(events) = m /\ Len(frames) = m
  BY DEF Adds
<1>4. reported'[u] \in Seq(Range(reported'[u]))
  BY <1>1, OwnRange DEF IsJoined
<1>5. /\ Len(reported'[u]) = Len(reported[u]) + m
      /\ \A k \in 1..Len(reported[u]) : reported'[u][k] = reported[u][k]
      /\ \A i \in 1..m : reported'[u][Len(reported[u]) + i] = events[i]
  BY <1>1, <1>3 DEF IsJoined
<1>6. /\ Len(sent'[u]) = Len(sent[u]) + m /\ sent'[u] \in Seq(Text)
      /\ \A k \in 1..Len(sent[u]) : sent'[u][k] = sent[u][k]
      /\ \A i \in 1..m : sent'[u][Len(sent[u]) + i] = frames[i]
  BY <1>2, <1>3 DEF IsJoined
<1>7. Len(reported[u]) \in Nat
  BY Sizes
<1>8. Continues(reported'[u], reported[u])
  BY <1>5, <1>7 DEF Continues
<1>9. ASSUME NEW v \in User \ {u} PROVE Continues(reported'[v], reported[v])
  <2>1. reported'[v] = reported[v]
    BY AddedBehind
  <2>2. Len(reported[v]) \in Nat
    BY Sizes
  <2> QED BY <2>1, <2>2 DEF Continues
<1> QED BY <1>4, <1>5, <1>6, <1>8, <1>9
-----------------------------------------------------------------------------
(* What the messages say of the reports stays as reports are added.        *)
LEMMA MessagesStay ==
  ASSUME ExchangeInv, \A v \in User : Continues(reported'[v], reported[v]),
         \A v \in User : Served(v)' = Served(v),
         UNCHANGED <<messageId, session, broadcast, inbox, read, shouldTerminate, eventsMap>>
  PROVE  ServedInTurn' /\ BroadcastIsLast' /\ InboxInOrder' /\ NoneSkipped' /\ EventsAsRead'
<1>1. \A u, d \in User : Stays(d, u)
  BY ReportsStay
<1>2. ASSUME NEW u \in User
      PROVE  /\ Written(u)' = Written(u) /\ Written(u) \in Nat /\ Written(u) <= Len(reported[u])
             /\ Len(reported[u]) \in Nat
  BY Sizes DEF Written
<1>3. ASSUME NEW d \in User, NEW u \in User, NEW k PROVE InInbox(d, u, k)' = InInbox(d, u, k)
  BY DEF InInbox
<1>4. ASSUME NEW u \in User, NEW k \in 1..Written(u)
      PROVE  /\ k \in 1..Len(reported[u]) /\ reported'[u][k] = reported[u][k]
             /\ MessageOf(u, k)' = MessageOf(u, k)
             /\ \A d \in User : Fits(d, u, k)' = Fits(d, u, k)
  <2>1. k \in 1..Len(reported[u])
    BY <1>2
  <2> QED BY <1>1, <2>1 DEF Stays
<1>5. ServedInTurn'
  <2> SUFFICES ASSUME NEW u \in User
               PROVE  /\ \A k \in 1..Written(u)' : reported'[u][k].channel_name \in Joined[u]
                      /\ IF session'[u] THEN Written(u)' = Served(u)'
                         ELSE Written(u)' = Served(u)' - 1 /\ broadcast'[u].to = {}
    BY DEF ServedInTurn
  <2>1. \A k \in 1..Written(u)' : reported'[u][k].channel_name \in Joined[u]
    BY <1>2, <1>4 DEF ExchangeInv, ServedInTurn
  <2>2. IF session'[u] THEN Written(u)' = Served(u)'
        ELSE Written(u)' = Served(u)' - 1 /\ broadcast'[u].to = {}
    BY <1>2 DEF ExchangeInv, ServedInTurn
  <2> QED BY <2>1, <2>2
<1>6. ASSUME NEW d \in User, NEW u \in User, NEW k \in 1..Written(u), NEW text,
             OnItsWay(d, u, k, text)
      PROVE  OnItsWay(d, u, k, text)'
  <2>1. k <= Written(u)' /\ Fits(d, u, k)' /\ text = MessageOf(u, k)'
    BY <1>2, <1>4, <1>6 DEF OnItsWay
  <2> QED BY <1>6, <2>1 DEF OnItsWay
<1>7. BroadcastIsLast'
  <2> SUFFICES ASSUME NEW u \in User, NEW d \in broadcast[u].to
               PROVE  (/\ Written(u) > 0 /\ OnItsWay(d, u, Written(u), broadcast[u].text)
                       /\ ~InInbox(d, u, Written(u)))'
    BY DEF BroadcastIsLast
  <2>1. d \in User
    BY DEF ExchangeInv, TypeOK
  <2>2. PICK n, text : n = Written(u) /\ text = broadcast[u].text
    OBVIOUS
  <2>3. n > 0 /\ OnItsWay(d, u, n, text) /\ ~InInbox(d, u, n)
    BY <2>2 DEF ExchangeInv, BroadcastIsLast
  <2>4. n \in 1..Written(u)
    BY <1>2, <2>2, <2>3
  <2>5. OnItsWay(d, u, n, text)' /\ ~InInbox(d, u, n)'
    BY <1>3, <1>6, <2>1, <2>3, <2>4
  <2>6. Written(u)' = n /\ broadcast'[u].text = text
    BY <1>2, <2>2
  <2> QED BY <2>3, <2>5, <2>6 DEF OnItsWay, Fits, MessageOf, InInbox
<1>8. InboxInOrder'
  <2> SUFFICES ASSUME NEW d \in User
               PROVE  (/\ \A i \in DOMAIN inbox[d] :
                            OnItsWay(d, inbox[d][i].from, inbox[d][i].id, inbox[d][i].text)
                       /\ \A i, j \in DOMAIN inbox[d] :
                            i < j /\ inbox[d][i].from = inbox[d][j].from
                            => inbox[d][i].id < inbox[d][j].id)'
    BY DEF InboxInOrder
  <2>1. ASSUME NEW i \in DOMAIN inbox[d]
        PROVE  OnItsWay(d, inbox[d][i].from, inbox[d][i].id, inbox[d][i].text)'
    <3>1. PICK u, k, text : u = inbox[d][i].from /\ k = inbox[d][i].id /\ text = inbox[d][i].text
      OBVIOUS
    <3>2. u \in User /\ k \in Nat \ {0}
      <4>1. inbox[d] \in Seq(Message)
        BY DEF ExchangeInv, TypeOK
      <4>2. inbox[d][i] \in Message
        BY <4>1
      <4> QED BY <3>1, <4>2 DEF Message
    <3>3. OnItsWay(d, u, k, text)
      BY <3>1 DEF ExchangeInv, InboxInOrder
    <3>4. k \in 1..Written(u)
      BY <1>2, <3>2, <3>3 DEF OnItsWay
    <3>5. OnItsWay(d, u, k, text)'
      BY <1>6, <3>2, <3>3, <3>4
    <3>6. inbox'[d][i].from = u /\ inbox'[d][i].id = k /\ inbox'[d][i].text = text
      BY <3>1
    <3> QED BY <3>5, <3>6 DEF OnItsWay, Fits, MessageOf, Written
  <2>2. \A i, j \in DOMAIN inbox'[d] :
          i < j /\ inbox'[d][i].from = inbox'[d][j].from => inbox'[d][i].id < inbox'[d][j].id
    BY DEF ExchangeInv, InboxInOrder
  <2> QED BY <2>1, <2>2
<1>9. NoneSkipped'
  <2> SUFFICES ASSUME NEW d \in User, NEW u \in User
               PROVE  /\ read'[d][u] <= Written(u)'
                      /\ ~shouldTerminate'[d] =>
                           \A k \in (read'[d][u] + 1)..Written(u)' :
                             Fits(d, u, k)' /\ ~InInbox(d, u, k)' =>
                               /\ session'[d] => k = Written(u)' /\ d \in broadcast'[u].to
                               /\ \A n \in (k + 1)..Written(u)' : ~InInbox(d, u, n)'
    BY DEF NoneSkipped
  <2>1. read[d][u] \in Nat
    BY DEF ExchangeInv, TypeOK
  <2>2. read'[d][u] <= Written(u)'
    BY <1>2 DEF ExchangeInv, NoneSkipped
  <2>3. ASSUME ~shouldTerminate[d], NEW k \in (read[d][u] + 1)..Written(u),
               Fits(d, u, k)', ~InInbox(d, u, k)'
        PROVE  /\ session[d] => k = Written(u) /\ d \in broadcast[u].to
               /\ \A n \in (k + 1)..Written(u) : ~InInbox(d, u, n)'
    <3>1. k \in 1..Written(u)
      BY <2>1
    <3>2. Fits(d, u, k) /\ ~InInbox(d, u, k)
      BY <1>3, <1>4, <2>3, <3>1
    <3>3. /\ session[d] => k = Written(u) /\ d \in broadcast[u].to
          /\ \A n \in (k + 1)..Written(u) : ~InInbox(d, u, n)
      BY <2>3, <3>2 DEF ExchangeInv, NoneSkipped
    <3> QED BY <1>3, <3>3
  <2> QED BY <1>2, <2>2, <2>3
<1>10. EventsAsRead'
  <2> SUFFICES ASSUME NEW d \in User
               PROVE  /\ \A key \in DOMAIN eventsMap'[d] : key \in Name \X User
                      /\ \A u \in User, name \in Name :
                           EventsOf(d, name, u)' = ExpectedOf(d, u, name)'[read'[d][u]]
    BY DEF EventsAsRead, Name
  <2>1. \A key \in DOMAIN eventsMap'[d] : key \in Name \X User
    BY DEF ExchangeInv, EventsAsRead
  <2>2. ASSUME NEW u \in User, NEW name \in Name
        PROVE  EventsOf(d, name, u)' = ExpectedOf(d, u, name)'[read'[d][u]]
    <3>1. read[d][u] \in Nat /\ read[d][u] <= Written(u)
      BY DEF ExchangeInv, TypeOK, NoneSkipped
    <3>2. read[d][u] \in 0..Len(reported[u])
      BY <1>2, <3>1
    <3>3. ExpectedOf(d, u, name)'[read[d][u]] = ExpectedOf(d, u, name)[read[d][u]]
      BY <1>1, <3>2 DEF Stays
    <3>4. EventsOf(d, name, u)' = EventsOf(d, name, u)
      BY DEF EventsOf
    <3> QED BY <3>3, <3>4 DEF ExchangeInv, EventsAsRead
  <2> QED BY <2>1, <2>2
<1> QED BY <1>5, <1>7, <1>9, <1>10, <1>8
-----------------------------------------------------------------------------
(* Report: the new events are behind those that are served, so nothing     *)
(* that is on its way changes.                                             *)
LEMMA ReportKeeps ==
  ASSUME NumbersAreWords, FilesReadBack, ExchangeInv,
         NEW u \in User, NEW file \in File, Report(u, file)
  PROVE  ExchangeInv'
<1>1. /\ UNCHANGED <<messageId, session, broadcast, inbox, read, shouldTerminate, eventsMap>>
      /\ UNCHANGED isLoggedIn
      /\ reports' \in 0..MaxReports
  <2>1. UNCHANGED <<messageId, session, broadcast, inbox, read, shouldTerminate, eventsMap>>
        /\ UNCHANGED isLoggedIn
    BY DEF Report, clientVars, serverVars
  <2>2. reports' = reports + 1 /\ reports < MaxReports /\ reports \in 0..MaxReports
    BY DEF Report, ExchangeInv, TypeOK
  <2>3. reports' \in 0..MaxReports
    BY <2>2, ExchangeAssumption
  <2> QED BY <2>1, <2>3
<1>2. CASE ~Parses(file)
  <2>1. UNCHANGED <<sent, reported>>
    BY <1>2 DEF Report
  <2>2. TypeOK'
    BY <1>1, <2>1 DEF ExchangeInv, TypeOK
  <2>3. ReportsReadBack'
    BY <2>1 DEF ExchangeInv, ReportsReadBack
  <2>4. SentAsReported'
    BY <2>1 DEF ExchangeInv, SentAsReported, Served
  <2>5. ASSUME NEW v \in User PROVE Continues(reported'[v], reported[v]) /\ Served(v)' = Served(v)
    <3>1. Len(reported[v]) \in Nat
      BY Sizes
    <3>2. Continues(reported'[v], reported[v])
      BY <2>1, <3>1 DEF Continues
    <3>3. Served(v)' = Served(v)
      BY <2>1 DEF Served
    <3> QED BY <3>2, <3>3
  <2>6. ServedInTurn' /\ BroadcastIsLast' /\ InboxInOrder' /\ NoneSkipped' /\ EventsAsRead'
    BY <1>1, <2>5, MessagesStay
  <2> QED BY <2>2, <2>3, <2>4, <2>6 DEF ExchangeInv
<1>3. CASE Parses(file)
  <2>1. PICK m \in Nat : \E frames, events : Adds(u, m, frames, events)
    BY <1>3, ReportAdds
  <2>2. PICK frames, events : Adds(u, m, frames, events)
    BY <2>1
  <2>3. /\ Len(reported'[u]) = Len(reported[u]) + m /\ Len(sent'[u]) = Len(sent[u]) + m
        /\ reported'[u] \in Seq(Range(reported'[u]))
        /\ \A k \in 1..Len(reported[u]) : reported'[u][k] = reported[u][k]
        /\ \A i \in 1..m : /\ reported'[u][Len(reported[u]) + i] = events[i]
                           /\ sent'[u][Len(sent[u]) + i] = frames[i]
        /\ \A i \in 1..Len(sent[u]) : sent'[u][i] = sent[u][i]
        /\ sent'[u] \in Seq(Text)
        /\ \A v \in User : Continues(reported'[v], reported[v])
    BY <2>2, InStep
  <2>4. /\ \A v \in User \ {u} : sent'[v] = sent[v] /\ reported'[v] = reported[v]
        /\ DOMAIN sent' = User /\ DOMAIN reported' = User
    BY <2>2, AddedBehind
  <2>5. /\ Len(reported[u]) \in Nat /\ Len(sent[u]) \in Nat /\ Served(u) \in Nat
        /\ Served(u) + Len(sent[u]) = Len(reported[u])
        /\ DOMAIN reported[u] = 1..Len(reported[u]) /\ DOMAIN sent[u] = 1..Len(sent[u])
    BY Sizes
  <2>6. Served(u)' = Served(u)
    <3>1. PICK a \in Nat, b \in Nat : a = Len(reported[u]) /\ b = Len(sent[u])
      BY <2>5
    <3>2. Len(reported'[u]) = a + m /\ Len(sent'[u]) = b + m
      BY <2>3, <3>1
    <3>3. Served(u)' = (a + m) - (b + m)
      BY <3>2 DEF Served
    <3>4. Served(u) = a - b
      BY <3>1 DEF Served
    <3> QED BY <3>3, <3>4
  <2>7. ASSUME NEW v \in User PROVE Served(v)' = Served(v)
    BY <2>4, <2>6 DEF Served
  <2>8. ServedInTurn' /\ BroadcastIsLast' /\ InboxInOrder' /\ NoneSkipped' /\ EventsAsRead'
    BY <1>1, <2>3, <2>7, MessagesStay
  <2>9. /\ \A i \in 1..m : /\ frames[i] = FrameOf(events[i])
                           /\ IsEvent(events[i]) /\ ReadsBack(events[i])
                           /\ events[i].eventOwnerUser = u
    BY <2>2 DEF Adds
  <2>10. ASSUME NEW k \in DOMAIN reported'[u]
        PROVE  /\ IsEvent(reported'[u][k]) /\ ReadsBack(reported'[u][k])
               /\ reported'[u][k].eventOwnerUser = u
    <3>1. k \in 1..(Len(reported[u]) + m)
      <4>1. PICK s, T : s = reported'[u] /\ T = Range(s)
        OBVIOUS
      <4>2. s \in Seq(T)
        BY <2>3, <4>1
      <4>3. DOMAIN s = 1..Len(s)
        BY <4>2
      <4> QED BY <2>3, <4>1, <4>3
    <3>2. CASE k \in 1..Len(reported[u])
      <4>1. /\ IsEvent(reported[u][k]) /\ ReadsBack(reported[u][k])
            /\ reported[u][k].eventOwnerUser = u
        BY <2>5, <3>2 DEF ExchangeInv, ReportsReadBack
      <4> QED BY <2>3, <3>2, <4>1
    <3>3. CASE k \notin 1..Len(reported[u])
      <4>1. PICK n \in Nat : n = Len(reported[u])
        BY <2>5
      <4>2. k \in 1..(n + m) /\ k \notin 1..n
        BY <3>1, <3>3, <4>1
      <4>3. PICK i : i = k - n
        OBVIOUS
      <4>4. i \in 1..m /\ k = n + i
        BY <4>2, <4>3
      <4>5. i \in 1..m /\ k = Len(reported[u]) + i
        BY <4>1, <4>4
      <4>6. reported'[u][k] = events[i]
        BY <2>3, <4>5
      <4> QED BY <2>9, <4>5, <4>6
    <3> QED BY <3>2, <3>3
  <2>11. ReportsReadBack'
    <3> SUFFICES ASSUME NEW v \in User
                 PROVE  (/\ reported[v] \in Seq(Range(reported[v]))
                         /\ \A k \in DOMAIN reported[v] :
                              /\ IsEvent(reported[v][k]) /\ ReadsBack(reported[v][k])
                              /\ reported[v][k].eventOwnerUser = v)'
      BY DEF ReportsReadBack
    <3>1. CASE v = u
      BY <2>3, <2>10, <3>1
    <3>2. CASE v # u
      BY <2>4, <3>2 DEF ExchangeInv, ReportsReadBack
    <3> QED BY <3>1, <3>2
  <2>12. SentAsReported'
    <3> SUFFICES ASSUME NEW v \in User
                 PROVE  (/\ Len(sent[v]) <= Len(reported[v])
                         /\ \A i \in DOMAIN sent[v] : sent[v][i] = FrameOf(reported[v][Served(v) + i]))'
      BY DEF SentAsReported
    <3>1. CASE v = u
      <4>1. Len(sent'[u]) <= Len(reported'[u])
        BY <2>3, <2>5
      <4>2. ASSUME NEW i \in DOMAIN sent'[u]
            PROVE  sent'[u][i] = FrameOf(reported'[u][Served(u) + i])
        <5>1. i \in 1..(Len(sent[u]) + m)
          <6>1. DOMAIN sent'[u] = 1..Len(sent'[u])
            BY <2>3
          <6> QED BY <2>3, <6>1
        <5>2. CASE i \in 1..Len(sent[u])
          <6>1. sent[u][i] = FrameOf(reported[u][Served(u) + i])
            BY <2>5, <5>2 DEF ExchangeInv, SentAsReported
          <6>2. Served(u) + i \in 1..Len(reported[u])
            BY <2>5, <5>2
          <6> QED BY <2>3, <5>2, <6>1, <6>2
        <5>3. CASE i \notin 1..Len(sent[u])
          <6>1. PICK j : j = i - Len(sent[u])
            OBVIOUS
          <6>2. /\ j \in 1..m /\ i = Len(sent[u]) + j
                /\ Served(u) + i = Len(reported[u]) + j
            BY <2>5, <5>1, <5>3, <6>1
          <6>3. sent'[u][i] = frames[j] /\ reported'[u][Served(u) + i] = events[j]
            BY <2>3, <6>2
          <6> QED BY <2>9, <6>2, <6>3
        <5> QED BY <5>2, <5>3
      <4> QED BY <2>6, <3>1, <4>1, <4>2
    <3>2. CASE v # u
      <4>1. sent'[v] = sent[v] /\ reported'[v] = reported[v] /\ Served(v)' = Served(v)
        BY <2>4, <2>7, <3>2
      <4> QED BY <4>1 DEF ExchangeInv, SentAsReported
    <3> QED BY <3>1, <3>2
  <2>13. TypeOK'
    <3>1. sent' \in [User -> Seq(Text)]
      <4>1. \A v \in User : sent'[v] \in Seq(Text)
        BY <2>3, <2>4 DEF ExchangeInv, TypeOK
      <4>2. sent' = [v \in User |-> sent'[v]]
        <5>1. sent \in [User -> Seq(Text)]
          BY DEF ExchangeInv, TypeOK
        <5> QED BY <2>2, <5>1 DEF Adds
      <4> QED BY <4>1, <4>2
    <3>2. \A v \in User : \A i \in DOMAIN reported'[v] : IsEvent(reported'[v][i])
      BY <2>11 DEF ReportsReadBack
    <3> QED BY <1>1, <2>4, <3>1, <3>2 DEF ExchangeInv, TypeOK
  <2> QED BY <2>8, <2>11, <2>12, <2>13 DEF ExchangeInv
<1> QED BY <1>2, <1>3

(* A communication thread ends, or nothing happens: no message moves.      *)
LEMMA LoseKeeps ==
  ASSUME ExchangeInv, (\E d \in User : Lose(d)) \/ UNCHANGED vars
  PROVE  ExchangeInv'
<1>1. /\ UNCHANGED <<messageId, session, broadcast, inbox, read, shouldTerminate, eventsMap>>
      /\ UNCHANGED <<sent, reported, reports>>
  BY DEF Lose, serverVars, vars, clientVars
<1>2. isLoggedIn' \in [User -> BOOLEAN]
  BY DEF Lose, ExchangeInv, TypeOK, vars, clientVars
<1>3. TypeOK'
  BY <1>1, <1>2 DEF ExchangeInv, TypeOK
<1>4. ReportsReadBack'
  BY <1>1 DEF ExchangeInv, ReportsReadBack
<1>5. SentAsReported'
  BY <1>1 DEF ExchangeInv, SentAsReported, Served
<1>6. ASSUME NEW v \in User PROVE Continues(reported'[v], reported[v]) /\ Served(v)' = Served(v)
  <2>1. Len(reported[v]) \in Nat
    BY Sizes
  <2>2. Continues(reported'[v], reported[v])
    BY <1>1, <2>1 DEF Continues
  <2>3. Served(v)' = Served(v)
    BY <1>1 DEF Served
  <2> QED BY <2>2, <2>3
<1>7. ServedInTurn' /\ BroadcastIsLast' /\ InboxInOrder' /\ NoneSkipped' /\ EventsAsRead'
  BY <1>1, <1>6, MessagesStay
<1> QED BY <1>3, <1>4, <1>5, <1>7 DEF ExchangeInv
-----------------------------------------------------------------------------
(* What the server reads is the next report.                               *)
LEMMA ServedFrame ==
  ASSUME NumbersAreWords, ExchangeInv, NEW u \in User, Serve(u), NEW k, k = Written(u) + 1
  PROVE  /\ k \in 1..Len(reported[u]) /\ Served(u) = Written(u) /\ messageId[u] = k
         /\ decode(Head(sent[u])).headers[<<"destination">>] = reported[u][k].channel_name
         /\ IsEvent(reported[u][k])
         /\ toString(MessageFrame(u, reported[u][k].channel_name, messageId[u],
                                  decode(Head(sent[u])).body)) = MessageOf(u, k)
         /\ MessageOf(u, k) \in Text
         /\ Len(sent[u]) > 0
         /\ session[u] /\ broadcast[u].to = {}
<1>1. /\ Len(reported[u]) \in Nat /\ DOMAIN reported[u] = 1..Len(reported[u])
      /\ Len(sent[u]) \in Nat /\ DOMAIN sent[u] = 1..Len(sent[u])
      /\ Written(u) \in Nat /\ Served(u) \in Nat /\ messageId[u] = Written(u) + 1
      /\ Served(u) + Len(sent[u]) = Len(reported[u])
  BY Sizes
<1>2. session[u] /\ sent[u] # <<>> /\ broadcast[u].to = {}
  BY DEF Serve
<1>3. Len(sent[u]) > 0
  <2>1. PICK s : s = sent[u]
    OBVIOUS
  <2>2. s \in Seq(Text) /\ s # <<>>
    BY <1>2, <2>1 DEF ExchangeInv, TypeOK
  <2>3. Len(s) > 0
    BY <2>2
  <2> QED BY <2>1, <2>3
<1>4. Served(u) = Written(u)
  BY <1>2 DEF ExchangeInv, ServedInTurn
<1>5. k \in 1..Len(reported[u]) /\ Served(u) + 1 = k /\ 1 \in DOMAIN sent[u]
  BY <1>1, <1>3, <1>4
<1>6. PICK e : e = reported[u][k]
  OBVIOUS
<1>7. IsEvent(e) /\ ReadsBack(e) /\ e.eventOwnerUser = u
  BY <1>1, <1>5, <1>6 DEF ExchangeInv, ReportsReadBack
<1>8. Head(sent[u]) = FrameOf(e)
  <2>1. sent[u][1] = FrameOf(reported[u][Served(u) + 1])
    BY <1>5 DEF ExchangeInv, SentAsReported
  <2>2. Head(sent[u]) = sent[u][1]
    OBVIOUS
  <2> QED BY <1>5, <1>6, <2>1, <2>2
<1>9. decode(Head(sent[u])).headers[<<"destination">>] = e.channel_name
      /\ decode(Head(sent[u])).body = serializedEvent(e) \o <<NewLine>>
  BY <1>7, <1>8, FrameIsRead
<1>10. messageId[u] = k /\ k \in Nat
  BY <1>1
<1>11. MessageOf(u, k) = MessageText(e, k)
  BY <1>6, <1>7 DEF MessageOf, MessageText
<1>12. toString(MessageFrame(u, e.channel_name, messageId[u], decode(Head(sent[u])).body))
         = MessageText(e, k)
  BY <1>7, <1>9, <1>10 DEF MessageText
<1>13. MessageText(e, k) \in Text
  BY <1>7, <1>10, MessageIsRead
<1> QED BY <1>2, <1>3, <1>4, <1>5, <1>6, <1>7, <1>9, <1>10, <1>11, <1>12, <1>13

(* One frame less to be read.                                              *)
LEMMA TailSent ==
  ASSUME ExchangeInv, NEW u \in User, Len(sent[u]) > 0, sent' = [sent EXCEPT ![u] = Tail(@)],
         reported' = reported
  PROVE  /\ sent' \in [User -> Seq(Text)]
         /\ SentAsReported'
         /\ Served(u)' = Served(u) + 1
         /\ \A v \in User \ {u} : Served(v)' = Served(v)
<1>1. /\ Len(reported[u]) \in Nat /\ Len(sent[u]) \in Nat /\ Served(u) \in Nat
      /\ Served(u) + Len(sent[u]) = Len(reported[u])
      /\ DOMAIN sent[u] = 1..Len(sent[u])
  BY Sizes
<1>2. sent \in [User -> Seq(Text)] /\ sent[u] \in Seq(Text)
  BY DEF ExchangeInv, TypeOK
<1>3. PICK s, t : s = sent[u] /\ t = sent'[u]
  OBVIOUS
<1>4. s \in Seq(Text) /\ Len(s) > 0 /\ t = Tail(s)
  BY <1>2, <1>3
<1>5. t \in Seq(Text) /\ Len(t) = Len(s) - 1 /\ \A i \in 1..Len(t) : t[i] = s[i + 1]
  BY <1>4
<1>6. DOMAIN t = 1..Len(t)
  BY <1>5
<1>7. \A v \in User \ {u} : sent'[v] = sent[v]
  BY <1>2
<1>8. sent' \in [User -> Seq(Text)]
  BY <1>2, <1>3, <1>5
<1>9. Served(u)' = Served(u) + 1
  <2>1. PICK m, n \in Nat : m = Len(sent[u]) /\ n = Len(reported[u])
    BY <1>1
  <2>2. Served(u) = n - m
    BY <2>1 DEF Served
  <2>3. Len(sent'[u]) = m - 1
    BY <1>3, <1>5, <2>1
  <2>4. Served(u)' = n - (m - 1)
    BY <2>1, <2>3 DEF Served
  <2> QED BY <2>1, <2>2, <2>4
<1>10. ASSUME NEW v \in User \ {u} PROVE Served(v)' = Served(v)
  BY <1>7 DEF Served
<1>11. SentAsReported'
  <2> SUFFICES ASSUME NEW v \in User
               PROVE  (/\ Len(sent[v]) <= Len(reported[v])
                       /\ \A i \in DOMAIN sent[v] : sent[v][i] = FrameOf(reported[v][Served(v) + i]))'
    BY DEF SentAsReported
  <2>1. CASE v = u
    <3>1. Len(sent'[u]) <= Len(reported'[u])
      BY <1>1, <1>3, <1>5
    <3>2. ASSUME NEW i \in DOMAIN sent'[u] PROVE sent'[u][i] = FrameOf(reported[u][Served(u)' + i])
      <4>1. i \in 1..Len(t) /\ i + 1 \in 1..Len(s)
        BY <1>1, <1>3, <1>5, <1>6
      <4>2. t[i] = s[i + 1]
        BY <1>5, <4>1
      <4>3. i + 1 \in DOMAIN sent[u]
        BY <1>1, <1>3, <4>1
      <4>4. sent[u][i + 1] = FrameOf(reported[u][Served(u) + (i + 1)])
        BY <4>3 DEF ExchangeInv, SentAsReported
      <4>5. Served(u) + (i + 1) = Served(u)' + i
        BY <1>1, <1>9, <4>1
      <4> QED BY <1>3, <4>2, <4>4, <4>5
    <3> QED BY <2>1, <3>1, <3>2
  <2>2. CASE v # u
    <3>1. sent'[v] = sent[v] /\ Served(v)' = Served(v)
      BY <1>7, <1>10, <2>2
    <3> QED BY <3>1 DEF ExchangeInv, SentAsReported
  <2> QED BY <2>1, <2>2
<1> QED BY <1>8, <1>9, <1>10, <1>11
-----------------------------------------------------------------------------
(* What Serve does, in terms of the reports.                               *)
Accepts(u, k) ==
  /\ reported[u][k].channel_name \in Joined[u]
  /\ broadcast' = [broadcast EXCEPT ![u] =
       [text |-> MessageOf(u, k), to |-> Subscribers(reported[u][k].channel_name)]]
  /\ messageId' = [messageId EXCEPT ![u] = @ + 1]
  /\ session' = session

Refuses(u) ==
  /\ session' = [session EXCEPT ![u] = FALSE]
  /\ broadcast' = broadcast /\ messageId' = messageId

(* Serve does the one or the other.                                        *)
LEMMA ServeDoes ==
  ASSUME NumbersAreWords, ExchangeInv, NEW u \in User, Serve(u), NEW k, k = Written(u) + 1
  PROVE  /\ Accepts(u, k) \/ Refuses(u)
         /\ sent' = [sent EXCEPT ![u] = Tail(@)]
         /\ UNCHANGED <<isLoggedIn, shouldTerminate, eventsMap, read, inbox, reported, reports>>
<1>1. PICK frame, topic : /\ frame = decode(Head(sent[u]))
                          /\ topic = frame.headers[<<"destination">>]
  OBVIOUS
<1>2. /\ topic = reported[u][k].channel_name
      /\ toString(MessageFrame(u, topic, messageId[u], frame.body)) = MessageOf(u, k)
  BY <1>1, ServedFrame
<1>3. CASE topic \in Joined[u]
  <2>1. /\ broadcast' = [broadcast EXCEPT ![u] =
             [text |-> toString(MessageFrame(u, topic, messageId[u], frame.body)),
              to   |-> Subscribers(topic)]]
        /\ messageId' = [messageId EXCEPT ![u] = @ + 1]
        /\ session' = session
    BY <1>1, <1>3 DEF Serve
  <2> QED BY <1>2, <1>3, <2>1 DEF Accepts, Serve, clientVars
<1>4. CASE topic \notin Joined[u]
  <2>1. session' = [session EXCEPT ![u] = FALSE] /\ broadcast' = broadcast /\ messageId' = messageId
    BY <1>1, <1>4 DEF Serve
  <2> QED BY <2>1 DEF Refuses, Serve, clientVars
<1>5. /\ sent' = [sent EXCEPT ![u] = Tail(@)]
      /\ UNCHANGED <<isLoggedIn, shouldTerminate, eventsMap, read, inbox, reported, reports>>
  BY DEF Serve, clientVars
<1> QED BY <1>3, <1>4, <1>5

(* Nothing is in an inbox before it has an id.                             *)
LEMMA InboxWritten ==
  ASSUME ExchangeInv, NEW d \in User, NEW u \in User, NEW k, InInbox(d, u, k)
  PROVE  k \in 1..Written(u) /\ read[d][u] < k /\ Fits(d, u, k)
<1>1. PICK i \in DOMAIN inbox[d] : inbox[d][i].from = u /\ inbox[d][i].id = k
  BY DEF InInbox
<1>2. OnItsWay(d, u, k, inbox[d][i].text)
  BY <1>1 DEF ExchangeInv, InboxInOrder
<1>3. inbox[d][i] \in Message
  <2>1. inbox[d] \in Seq(Message)
    BY DEF ExchangeInv, TypeOK
  <2> QED BY <2>1
<1>4. k \in Nat \ {0}
  BY <1>1, <1>3 DEF Message
<1>5. Written(u) \in Nat
  BY Sizes
<1> QED BY <1>2, <1>4, <1>5 DEF OnItsWay

(* A report that is still on its way when the author has written more.     *)
LEMMA StillOnItsWay ==
  ASSUME ExchangeInv, reported' = reported, read' = read, NEW d \in User, NEW u \in User,
         Written(u)' >= Written(u), Written(u)' \in Nat, NEW k \in 1..Written(u), NEW text,
         OnItsWay(d, u, k, text)
  PROVE  OnItsWay(d, u, k, text)'
<1>1. Written(u) \in Nat /\ Written(u) <= Len(reported[u]) /\ Len(reported[u]) \in Nat
  BY Sizes
<1>2. k \in 1..Len(reported[u]) /\ k <= Written(u)'
  BY <1>1
<1>3. Stays(d, u)
  BY NoReportStays
<1>4. Fits(d, u, k)' /\ text = MessageOf(u, k)'
  BY <1>2, <1>3 DEF Stays, OnItsWay
<1> QED BY <1>2, <1>4 DEF OnItsWay

(* An inbox that nobody touches stays in order.                            *)
LEMMA InboxStays ==
  ASSUME ExchangeInv, reported' = reported, read' = read, inbox' = inbox,
         \A u \in User : Written(u)' >= Written(u) /\ Written(u)' \in Nat
  PROVE  InboxInOrder'
<1> SUFFICES ASSUME NEW d \in User
             PROVE  (/\ \A i \in DOMAIN inbox[d] :
                          OnItsWay(d, inbox[d][i].from, inbox[d][i].id, inbox[d][i].text)
                     /\ \A i, j \in DOMAIN inbox[d] :
                          i < j /\ inbox[d][i].from = inbox[d][j].from
                          => inbox[d][i].id < inbox[d][j].id)'
  BY DEF InboxInOrder
<1>1. ASSUME NEW i \in DOMAIN inbox[d]
      PROVE  OnItsWay(d, inbox[d][i].from, inbox[d][i].id, inbox[d][i].text)'
  <2>1. PICK u, k, text : u = inbox[d][i].from /\ k = inbox[d][i].id /\ text = inbox[d][i].text
    OBVIOUS
  <2>2. u \in User
    <3>1. inbox[d] \in Seq(Message)
      BY DEF ExchangeInv, TypeOK
    <3>2. inbox[d][i] \in Message
      BY <3>1
    <3> QED BY <2>1, <3>2 DEF Message
  <2>3. OnItsWay(d, u, k, text)
    BY <2>1 DEF ExchangeInv, InboxInOrder
  <2>4. k \in 1..Written(u)
    <3>1. InInbox(d, u, k)
      BY <2>1 DEF InInbox
    <3> QED BY <2>2, <3>1, InboxWritten
  <2>5. OnItsWay(d, u, k, text)'
    BY <2>2, <2>3, <2>4, StillOnItsWay
  <2>6. inbox'[d][i].from = u /\ inbox'[d][i].id = k /\ inbox'[d][i].text = text
    BY <2>1
  <2> QED BY <2>5, <2>6 DEF OnItsWay, Fits, MessageOf, Written
<1>2. \A i, j \in DOMAIN inbox'[d] :
        i < j /\ inbox'[d][i].from = inbox'[d][j].from => inbox'[d][i].id < inbox'[d][j].id
  BY DEF ExchangeInv, InboxInOrder
<1> QED BY <1>1, <1>2

(* What a client holds is what it has read of what there was.              *)
LEMMA EventsStay ==
  ASSUME ExchangeInv, reported' = reported, read' = read, eventsMap' = eventsMap
  PROVE  EventsAsRead'
<1> SUFFICES ASSUME NEW d \in User
             PROVE  (/\ \A key \in DOMAIN eventsMap[d] : key \in Name \X User
                     /\ \A u \in User, name \in Name :
                          EventsOf(d, name, u) = ExpectedOf(d, u, name)[read[d][u]])'
  BY DEF EventsAsRead
<1>1. \A key \in DOMAIN eventsMap'[d] : key \in Name \X User
  BY DEF ExchangeInv, EventsAsRead
<1>2. ASSUME NEW u \in User, NEW name \in Name
      PROVE  EventsOf(d, name, u)' = ExpectedOf(d, u, name)'[read'[d][u]]
  <2>1. EventsOf(d, name, u) = ExpectedOf(d, u, name)[read[d][u]]
    BY DEF ExchangeInv, EventsAsRead
  <2> QED BY <2>1 DEF EventsOf, ExpectedOf
<1> QED BY <1>1, <1>2
-----------------------------------------------------------------------------
(* Serve, accepted: the report that gets a message-id is the next one, and *)
(* is sent to everyone who is to have it.                                  *)
LEMMA ServeAcceptsKeeps ==
  ASSUME NumbersAreWords, ExchangeInv, NEW u \in User, Serve(u), NEW k, k = Written(u) + 1,
         Accepts(u, k)
  PROVE  ExchangeInv'
<1>1. /\ sent' = [sent EXCEPT ![u] = Tail(@)]
      /\ isLoggedIn' = isLoggedIn /\ shouldTerminate' = shouldTerminate /\ eventsMap' = eventsMap
      /\ read' = read /\ inbox' = inbox /\ reported' = reported /\ reports' = reports
  BY ServeDoes
<1>2. PICK topic : topic = reported[u][k].channel_name
  OBVIOUS
<1>3. /\ k \in 1..Len(reported[u]) /\ Served(u) = Written(u)
      /\ MessageOf(u, k) \in Text /\ Len(sent[u]) > 0 /\ session[u] /\ broadcast[u].to = {}
  BY ServedFrame
<1>4. /\ topic \in Joined[u] /\ session' = session
      /\ broadcast' = [broadcast EXCEPT ![u] = [text |-> MessageOf(u, k), to |-> Subscribers(topic)]]
      /\ messageId' = [messageId EXCEPT ![u] = @ + 1]
  BY <1>2 DEF Accepts
<1>5. /\ broadcast \in [User -> [text : Text, to : SUBSET User]]
      /\ messageId \in [User -> Nat \ {0}]
  BY DEF ExchangeInv, TypeOK
<1>6. /\ broadcast'[u].text = MessageOf(u, k) /\ broadcast'[u].to = Subscribers(topic)
      /\ \A v \in User \ {u} : broadcast'[v] = broadcast[v]
  BY <1>4, <1>5
<1>7. /\ Written(u) \in Nat /\ Written(u)' = k /\ k \in Nat /\ Written(u) = k - 1
      /\ \A v \in User \ {u} : Written(v)' = Written(v)
  <2>1. Written(u) \in Nat /\ messageId[u] = Written(u) + 1
    BY Sizes
  <2>2. messageId'[u] = messageId[u] + 1 /\ \A v \in User \ {u} : messageId'[v] = messageId[v]
    BY <1>4, <1>5
  <2> QED BY <2>1, <2>2 DEF Written
<1>8. ASSUME NEW v \in User PROVE Written(v)' >= Written(v) /\ Written(v)' \in Nat
  <2>1. Written(v) \in Nat
    BY Sizes
  <2> QED BY <1>7, <2>1
<1>9. /\ sent' \in [User -> Seq(Text)] /\ SentAsReported' /\ Served(u)' = Served(u) + 1
      /\ \A v \in User \ {u} : Served(v)' = Served(v)
  BY <1>1, <1>3, TailSent
<1>10. ASSUME NEW d \in User, NEW v \in User, NEW n PROVE InInbox(d, v, n)' = InInbox(d, v, n)
  BY <1>1 DEF InInbox
<1>11. TypeOK'
  <2>1. Subscribers(topic) \in SUBSET User
    BY DEF Subscribers
  <2>2. [text |-> MessageOf(u, k), to |-> Subscribers(topic)] \in [text : Text, to : SUBSET User]
    BY <1>3, <2>1
  <2>3. broadcast' \in [User -> [text : Text, to : SUBSET User]]
    BY <1>4, <1>5, <2>2
  <2>4. messageId' \in [User -> Nat \ {0}]
    BY <1>4, <1>5
  <2> QED BY <1>1, <1>4, <1>9, <2>3, <2>4 DEF ExchangeInv, TypeOK
<1>12. ReportsReadBack'
  BY <1>1 DEF ExchangeInv, ReportsReadBack
<1>13. ServedInTurn'
  <2> SUFFICES ASSUME NEW v \in User
               PROVE  /\ \A n \in 1..Written(v)' : reported'[v][n].channel_name \in Joined[v]
                      /\ IF session'[v] THEN Written(v)' = Served(v)'
                         ELSE Written(v)' = Served(v)' - 1 /\ broadcast'[v].to = {}
    BY DEF ServedInTurn
  <2>1. CASE v = u
    <3>1. \A n \in 1..Written(u) : reported[u][n].channel_name \in Joined[u]
      BY DEF ExchangeInv, ServedInTurn
    <3>2. \A n \in 1..k : n = k \/ n \in 1..Written(u)
      BY <1>7
    <3>3. \A n \in 1..Written(u)' : reported'[u][n].channel_name \in Joined[u]
      BY <1>1, <1>2, <1>4, <1>7, <3>1, <3>2
    <3>4. session'[u] /\ Written(u)' = Served(u)'
      BY <1>3, <1>4, <1>7, <1>9
    <3> QED BY <2>1, <3>3, <3>4
  <2>2. CASE v # u
    <3>1. /\ Written(v)' = Written(v) /\ Served(v)' = Served(v) /\ broadcast'[v] = broadcast[v]
      BY <1>6, <1>7, <1>9, <2>2
    <3> QED BY <1>1, <1>4, <3>1 DEF ExchangeInv, ServedInTurn
  <2> QED BY <2>1, <2>2
<1>14. BroadcastIsLast'
  <2> SUFFICES ASSUME NEW v \in User, NEW d \in broadcast'[v].to
               PROVE  (/\ Written(v) > 0 /\ OnItsWay(d, v, Written(v), broadcast[v].text)
                       /\ ~InInbox(d, v, Written(v)))'
    BY DEF BroadcastIsLast
  <2>1. CASE v = u
    <3>1. d \in User /\ topic \in Joined[d]
      BY <1>6, <2>1 DEF Subscribers
    <3>2. read[d][u] <= Written(u) /\ read[d][u] \in Nat
      BY <3>1 DEF ExchangeInv, NoneSkipped, TypeOK
    <3>3. Fits(d, u, k)'
      BY <1>1, <1>2, <1>4, <3>1 DEF Fits
    <3>4. MessageOf(u, k)' = MessageOf(u, k)
      BY <1>1 DEF MessageOf
    <3>5. k > 0 /\ read'[d][u] < k
      BY <1>1, <1>7, <3>2
    <3>6. ~InInbox(d, u, k)'
      <4>1. k \notin 1..Written(u)
        BY <1>7
      <4> QED BY <1>10, <3>1, <4>1, InboxWritten
    <3>7. PICK text : text = MessageOf(u, k)
      OBVIOUS
    <3>8. OnItsWay(d, u, k, text)'
      <4>1. k <= Written(u)'
        BY <1>7
      <4>2. text = MessageOf(u, k)'
        BY <3>4, <3>7
      <4> QED BY <3>3, <3>5, <4>1, <4>2 DEF OnItsWay
    <3>9. broadcast'[u].text = text /\ Written(u)' = k
      BY <1>6, <1>7, <3>7
    <3> QED BY <2>1, <3>5, <3>6, <3>8, <3>9 DEF OnItsWay, Fits, MessageOf, InInbox
  <2>2. CASE v # u
    <3>1. /\ Written(v)' = Written(v) /\ broadcast'[v] = broadcast[v] /\ d \in broadcast[v].to
          /\ Written(v) \in Nat
      BY <1>6, <1>7, <2>2, Sizes
    <3>2. d \in User
      BY <1>5, <3>1
    <3>3. PICK n, text : n = Written(v) /\ text = broadcast[v].text
      OBVIOUS
    <3>4. n > 0 /\ OnItsWay(d, v, n, text) /\ ~InInbox(d, v, n)
      BY <3>1, <3>3 DEF ExchangeInv, BroadcastIsLast
    <3>5. OnItsWay(d, v, n, text)'
      BY <1>1, <1>8, <3>1, <3>2, <3>3, <3>4, StillOnItsWay
    <3>6. ~InInbox(d, v, n)'
      BY <1>10, <3>2, <3>4
    <3>7. Written(v)' = n /\ broadcast'[v].text = text
      BY <3>1, <3>3
    <3> QED BY <3>4, <3>5, <3>6, <3>7 DEF OnItsWay, Fits, MessageOf, InInbox
  <2> QED BY <2>1, <2>2
<1>15. InboxInOrder'
  BY <1>1, <1>8, InboxStays
<1>16. NoneSkipped'
  <2> SUFFICES ASSUME NEW d \in User, NEW v \in User
               PROVE  (/\ read[d][v] <= Written(v)
                       /\ ~shouldTerminate[d] =>
                            \A n \in (read[d][v] + 1)..Written(v) :
                              Fits(d, v, n) /\ ~InInbox(d, v, n) =>
                                /\ session[d] => n = Written(v) /\ d \in broadcast[v].to
                                /\ \A m \in (n + 1)..Written(v) : ~InInbox(d, v, m))'
    BY DEF NoneSkipped
  <2>1. read[d][v] \in Nat /\ read[d][v] <= Written(v) /\ Written(v) \in Nat
    BY Sizes DEF ExchangeInv, NoneSkipped, TypeOK
  <2>2. read'[d][v] <= Written(v)'
    BY <1>1, <1>8, <2>1
  <2>3. ASSUME NEW n PROVE Fits(d, v, n)' = Fits(d, v, n)
    BY <1>1 DEF Fits
  <2>4. CASE v = u
    <3>1. ASSUME ~shouldTerminate[d], NEW n \in (read[d][u] + 1)..k, Fits(d, u, n), ~InInbox(d, u, n)
          PROVE  /\ session[d] => n = k /\ d \in broadcast'[u].to
                 /\ \A m \in (n + 1)..k : ~InInbox(d, u, m)
      <4>1. CASE n = k
        <5>1. topic \in Joined[d]
          BY <1>2, <3>1, <4>1 DEF Fits
        <5>2. session[d] => d \in broadcast'[u].to
          BY <1>6, <5>1 DEF Subscribers
        <5>3. (n + 1)..k = {}
          BY <1>7, <4>1
        <5> QED BY <4>1, <5>2, <5>3
      <4>2. CASE n # k
        <5>1. n \in (read[d][u] + 1)..Written(u)
          BY <1>7, <2>1, <2>4, <3>1, <4>2
        <5>2. /\ session[d] => n = Written(u) /\ d \in broadcast[u].to
              /\ \A m \in (n + 1)..Written(u) : ~InInbox(d, u, m)
          BY <3>1, <5>1 DEF ExchangeInv, NoneSkipped
        <5>3. ~session[d]
          BY <1>3, <5>2
        <5>4. ASSUME NEW m \in (n + 1)..k PROVE ~InInbox(d, u, m)
          <6>1. CASE m = k
            <7>1. k \notin 1..Written(u)
              BY <1>7
            <7> QED BY <6>1, <7>1, InboxWritten
          <6>2. CASE m # k
            <7>1. m \in (n + 1)..Written(u)
              BY <1>7, <5>1, <6>2
            <7> QED BY <5>2, <7>1
          <6> QED BY <6>1, <6>2
        <5> QED BY <5>3, <5>4
      <4> QED BY <4>1, <4>2
    <3> QED BY <1>1, <1>4, <1>7, <1>10, <2>2, <2>3, <2>4, <3>1
  <2>5. CASE v # u
    <3>1. Written(v)' = Written(v) /\ broadcast'[v] = broadcast[v]
      BY <1>6, <1>7, <2>5
    <3> QED BY <1>1, <1>4, <1>10, <2>3, <3>1 DEF ExchangeInv, NoneSkipped
  <2> QED BY <2>4, <2>5
<1>17. EventsAsRead'
  BY <1>1, EventsStay
<1> QED BY <1>9, <1>11, <1>12, <1>13, <1>14, <1>15, <1>16, <1>17 DEF ExchangeInv

(* Serve, refused: the session ends before the report has a message-id.    *)
LEMMA ServeRefusesKeeps ==
  ASSUME NumbersAreWords, ExchangeInv, NEW u \in User, Serve(u), Refuses(u)
  PROVE  ExchangeInv'
<1>1. /\ sent' = [sent EXCEPT ![u] = Tail(@)]
      /\ isLoggedIn' = isLoggedIn /\ shouldTerminate' = shouldTerminate /\ eventsMap' = eventsMap
      /\ read' = read /\ inbox' = inbox /\ reported' = reported /\ reports' = reports
  BY ServeDoes
<1>2. /\ session' = [session EXCEPT ![u] = FALSE] /\ broadcast' = broadcast /\ messageId' = messageId
  BY DEF Refuses
<1>3. /\ Served(u) = Written(u) /\ Len(sent[u]) > 0 /\ broadcast[u].to = {}
  BY ServedFrame
<1>4. ASSUME NEW v \in User PROVE Written(v)' = Written(v) /\ Written(v) \in Nat
  BY <1>2, Sizes DEF Written
<1>5. /\ sent' \in [User -> Seq(Text)] /\ SentAsReported' /\ Served(u)' = Served(u) + 1
      /\ \A v \in User \ {u} : Served(v)' = Served(v)
  BY <1>1, <1>3, TailSent
<1>6. session \in [User -> BOOLEAN]
  BY DEF ExchangeInv, TypeOK
<1>7. TypeOK'
  <2>1. session' \in [User -> BOOLEAN]
    BY <1>2, <1>6
  <2> QED BY <1>1, <1>2, <1>5, <2>1 DEF ExchangeInv, TypeOK
<1>8. ReportsReadBack'
  BY <1>1 DEF ExchangeInv, ReportsReadBack
<1>9. ServedInTurn'
  <2> SUFFICES ASSUME NEW v \in User
               PROVE  /\ \A n \in 1..Written(v)' : reported'[v][n].channel_name \in Joined[v]
                      /\ IF session'[v] THEN Written(v)' = Served(v)'
                         ELSE Written(v)' = Served(v)' - 1 /\ broadcast'[v].to = {}
    BY DEF ServedInTurn
  <2>1. \A n \in 1..Written(v)' : reported'[v][n].channel_name \in Joined[v]
    BY <1>1, <1>4 DEF ExchangeInv, ServedInTurn
  <2>2. CASE v = u
    <3>1. ~session'[u]
      BY <1>2, <1>6
    <3>2. Written(u)' = Served(u)' - 1 /\ broadcast'[u].to = {}
      BY <1>2, <1>3, <1>4, <1>5
    <3> QED BY <2>1, <2>2, <3>1, <3>2
  <2>3. CASE v # u
    <3>1. session'[v] = session[v] /\ Served(v)' = Served(v)
      BY <1>2, <1>5, <1>6, <2>3
    <3>2. IF session[v] THEN Written(v) = Served(v)
          ELSE Written(v) = Served(v) - 1 /\ broadcast[v].to = {}
      BY DEF ExchangeInv, ServedInTurn
    <3> QED BY <1>2, <1>4, <2>1, <3>1, <3>2
  <2> QED BY <2>2, <2>3
<1>10. ASSUME NEW d \in User, NEW v \in User, NEW n
       PROVE  InInbox(d, v, n)' = InInbox(d, v, n) /\ Fits(d, v, n)' = Fits(d, v, n)
  BY <1>1 DEF InInbox, Fits
<1>11. BroadcastIsLast'
  BY <1>1, <1>2 DEF ExchangeInv, BroadcastIsLast, Written, OnItsWay, InInbox, Fits, MessageOf
<1>12. InboxInOrder'
  <2>1. \A v \in User : Written(v)' >= Written(v) /\ Written(v)' \in Nat
    BY <1>4
  <2> QED BY <1>1, <2>1, InboxStays
<1>13. NoneSkipped'
  <2> SUFFICES ASSUME NEW d \in User, NEW v \in User
               PROVE  (/\ read[d][v] <= Written(v)
                       /\ ~shouldTerminate[d] =>
                            \A n \in (read[d][v] + 1)..Written(v) :
                              Fits(d, v, n) /\ ~InInbox(d, v, n) =>
                                /\ session[d] => n = Written(v) /\ d \in broadcast[v].to
                                /\ \A m \in (n + 1)..Written(v) : ~InInbox(d, v, m))'
    BY DEF NoneSkipped
  <2>1. session'[d] => session[d]
    BY <1>2, <1>6
  <2> QED BY <1>1, <1>2, <1>4, <1>10, <2>1 DEF ExchangeInv, NoneSkipped
<1>14. EventsAsRead'
  BY <1>1, EventsStay
<1> QED BY <1>5, <1>7, <1>8, <1>9, <1>11, <1>12, <1>13, <1>14 DEF ExchangeInv

(* Serve: one of the two.                                                  *)
LEMMA ServeKeeps ==
  ASSUME NumbersAreWords, ExchangeInv, NEW u \in User, Serve(u)
  PROVE  ExchangeInv'
<1>1. PICK k : k = Written(u) + 1
  OBVIOUS
<1>2. Accepts(u, k) \/ Refuses(u)
  BY <1>1, ServeDoes
<1> QED BY <1>1, <1>2, ServeAcceptsKeeps, ServeRefusesKeeps
-----------------------------------------------------------------------------
(* What Deliver does to the inboxes.                                       *)
LEMMA Delivered ==
  ASSUME ExchangeInv, NEW u \in User, NEW d \in User, Deliver(u, d), NEW k, k = Written(u)
  PROVE  /\ k > 0 /\ k \in Nat /\ OnItsWay(d, u, k, broadcast[u].text) /\ ~InInbox(d, u, k)
         /\ \A v \in User \ {d} : inbox'[v] = inbox[v]
         /\ session[d] => IsAppended(Message, inbox[d],
                            [from |-> u, id |-> k, text |-> broadcast[u].text], inbox'[d])
         /\ ~session[d] => inbox'[d] = inbox[d]
         /\ inbox' \in [User -> Seq(Message)]
<1>1. inbox \in [User -> Seq(Message)] /\ broadcast \in [User -> [text : Text, to : SUBSET User]]
  BY DEF ExchangeInv, TypeOK
<1>2. k > 0 /\ OnItsWay(d, u, k, broadcast[u].text) /\ ~InInbox(d, u, k)
  BY DEF ExchangeInv, BroadcastIsLast, Deliver
<1>3. k \in Nat /\ messageId[u] - 1 = k
  BY Sizes DEF Written
<1>4. PICK m : m = [from |-> u, id |-> k, text |-> broadcast[u].text]
  OBVIOUS
<1>5. m \in Message
  BY <1>1, <1>2, <1>3, <1>4 DEF Message
<1>6. inbox' = [inbox EXCEPT ![d] = IF session[d] THEN Append(@, m) ELSE @]
  BY <1>3, <1>4 DEF Deliver
<1>7. /\ \A v \in User \ {d} : inbox'[v] = inbox[v]
      /\ session[d] => inbox'[d] = Append(inbox[d], m)
      /\ ~session[d] => inbox'[d] = inbox[d]
      /\ DOMAIN inbox' = User /\ inbox' = [v \in User |-> inbox'[v]]
  BY <1>1, <1>6
<1>8. session[d] => IsAppended(Message, inbox[d], m, inbox'[d])
  <2>1. PICK s : s = inbox[d]
    OBVIOUS
  <2>2. s \in Seq(Message)
    BY <1>1, <2>1
  <2>3. IsAppended(Message, s, m, Append(s, m))
    BY <1>5, <2>2, AppendAt
  <2> QED BY <1>7, <2>1, <2>3
<1>9. \A v \in User : inbox'[v] \in Seq(Message)
  BY <1>1, <1>7, <1>8 DEF IsAppended
<1>10. inbox' \in [User -> Seq(Message)]
  BY <1>7, <1>9
<1> QED BY <1>2, <1>3, <1>4, <1>7, <1>8, <1>10

(* So d has one message more, and its inbox is in order.                   *)
LEMMA InboxAfter ==
  ASSUME ExchangeInv, NEW u \in User, NEW d \in User, Deliver(u, d), NEW k, k = Written(u)
  PROVE  /\ \A v, w \in User : \A n : w # d \/ v # u => InInbox(w, v, n)' = InInbox(w, v, n)
         /\ \A n : session[d] => InInbox(d, u, n)' = (InInbox(d, u, n) \/ n = k)
         /\ \A n : ~session[d] => InInbox(d, u, n)' = InInbox(d, u, n)
<1>1. /\ \A w \in User \ {d} : inbox'[w] = inbox[w]
      /\ ~session[d] => inbox'[d] = inbox[d]
  BY Delivered
<1>2. ASSUME NEW w \in User, w # d \/ ~session[d], NEW v \in User, NEW n
      PROVE  InInbox(w, v, n)' = InInbox(w, v, n)
  BY <1>1, <1>2 DEF InInbox
<1>3. ASSUME session[d], NEW v \in User, NEW n
      PROVE  InInbox(d, v, n)' = (InInbox(d, v, n) \/ (v = u /\ n = k))
  <2>1. PICK m, s, t : /\ m = [from |-> u, id |-> k, text |-> broadcast[u].text]
                       /\ s = inbox[d] /\ t = inbox'[d]
    OBVIOUS
  <2>2. IsAppended(Message, s, m, t)
    BY <1>3, <2>1, Delivered
  <2>3. s \in Seq(Message)
    BY <2>1 DEF ExchangeInv, TypeOK
  <2>4. /\ Len(s) \in Nat /\ DOMAIN s = 1..Len(s) /\ DOMAIN t = 1..(Len(s) + 1)
        /\ \A i \in 1..Len(s) : t[i] = s[i]
        /\ t[Len(s) + 1] = m
    BY <2>2, <2>3 DEF IsAppended
  <2>5. m.from = u /\ m.id = k
    BY <2>1
  <2>6. \A i : i \in 1..(Len(s) + 1) <=> i \in 1..Len(s) \/ i = Len(s) + 1
    BY <2>4
  <2>7. (\E i \in DOMAIN t : t[i].from = v /\ t[i].id = n)
          <=> (\E i \in DOMAIN s : s[i].from = v /\ s[i].id = n) \/ (v = u /\ n = k)
    BY <2>4, <2>5, <2>6
  <2> QED BY <2>1, <2>7 DEF InInbox
<1>4. ASSUME NEW v \in User, NEW w \in User, NEW n, w # d \/ v # u
      PROVE  InInbox(w, v, n)' = InInbox(w, v, n)
  <2>1. CASE w # d \/ ~session[d]
    BY <1>2, <2>1
  <2>2. CASE w = d /\ session[d]
    <3>1. InInbox(d, v, n)' = (InInbox(d, v, n) \/ (v = u /\ n = k))
      BY <1>3, <2>2
    <3>2. v # u
      BY <1>4, <2>2
    <3>3. (InInbox(d, v, n) \/ (v = u /\ n = k)) = InInbox(d, v, n)
      BY <3>2 DEF InInbox
    <3> QED BY <2>2, <3>1, <3>3
  <2> QED BY <2>1, <2>2
<1>5. ASSUME NEW n, session[d] PROVE InInbox(d, u, n)' = (InInbox(d, u, n) \/ n = k)
  <2>1. InInbox(d, u, n)' = (InInbox(d, u, n) \/ (u = u /\ n = k))
    BY <1>3, <1>5
  <2> QED BY <2>1
<1>6. ASSUME NEW n, ~session[d] PROVE InInbox(d, u, n)' = InInbox(d, u, n)
  BY <1>2, <1>6
<1> QED BY <1>4, <1>5, <1>6

(* Deliver: the message is behind the others of its user.                  *)
LEMMA DeliverInbox ==
  ASSUME ExchangeInv, NEW u \in User, NEW d \in User, Deliver(u, d), NEW k, k = Written(u)
  PROVE  InboxInOrder'
<1>1. read' = read /\ reported' = reported /\ messageId' = messageId
  BY DEF Deliver, clientVars
<1>2. /\ k > 0 /\ k \in Nat /\ OnItsWay(d, u, k, broadcast[u].text) /\ ~InInbox(d, u, k)
      /\ \A v \in User \ {d} : inbox'[v] = inbox[v]
      /\ session[d] => IsAppended(Message, inbox[d],
                         [from |-> u, id |-> k, text |-> broadcast[u].text], inbox'[d])
      /\ ~session[d] => inbox'[d] = inbox[d]
  BY Delivered
<1>3. ASSUME NEW w, NEW v, NEW n, NEW text PROVE OnItsWay(w, v, n, text)' = OnItsWay(w, v, n, text)
  BY <1>1 DEF OnItsWay, Fits, MessageOf, Written
<1> SUFFICES ASSUME NEW w \in User
             PROVE  (/\ \A i \in DOMAIN inbox[w] :
                          OnItsWay(w, inbox[w][i].from, inbox[w][i].id, inbox[w][i].text)
                     /\ \A i, j \in DOMAIN inbox[w] :
                          i < j /\ inbox[w][i].from = inbox[w][j].from
                          => inbox[w][i].id < inbox[w][j].id)'
  BY DEF InboxInOrder
<1>4. /\ \A i \in DOMAIN inbox[w] :
           OnItsWay(w, inbox[w][i].from, inbox[w][i].id, inbox[w][i].text)
      /\ \A i, j \in DOMAIN inbox[w] :
           i < j /\ inbox[w][i].from = inbox[w][j].from => inbox[w][i].id < inbox[w][j].id
  BY DEF ExchangeInv, InboxInOrder
<1>5. CASE w # d \/ ~session[d]
  <2>1. inbox'[w] = inbox[w]
    BY <1>2, <1>5
  <2>2. \A i, j \in DOMAIN inbox'[w] :
          i < j /\ inbox'[w][i].from = inbox'[w][j].from => inbox'[w][i].id < inbox'[w][j].id
    BY <1>4, <2>1
  <2>3. \A i \in DOMAIN inbox'[w] :
          OnItsWay(w, inbox[w][i].from, inbox[w][i].id, inbox[w][i].text)'
    <3> SUFFICES ASSUME NEW i \in DOMAIN inbox'[w]
                 PROVE  OnItsWay(w, inbox[w][i].from, inbox[w][i].id, inbox[w][i].text)'
      OBVIOUS
    <3>1. PICK v, n, text : v = inbox[w][i].from /\ n = inbox[w][i].id /\ text = inbox[w][i].text
      OBVIOUS
    <3>2. OnItsWay(w, v, n, text)'
      BY <1>3, <1>4, <2>1, <3>1
    <3>3. v = inbox'[w][i].from /\ n = inbox'[w][i].id /\ text = inbox'[w][i].text
      BY <2>1, <3>1
    <3> QED BY <3>2, <3>3 DEF OnItsWay, Fits, MessageOf, Written
  <2> QED BY <2>2, <2>3
<1>6. CASE w = d /\ session[d]
  <2>1. PICK m, s, t : /\ m = [from |-> u, id |-> k, text |-> broadcast[u].text]
                       /\ s = inbox[d] /\ t = inbox'[d]
    OBVIOUS
  <2>2. IsAppended(Message, s, m, t)
    BY <1>2, <1>6, <2>1
  <2>3. s \in Seq(Message)
    BY <2>1 DEF ExchangeInv, TypeOK
  <2>4. /\ Len(s) \in Nat /\ DOMAIN s = 1..Len(s) /\ DOMAIN t = 1..(Len(s) + 1)
        /\ \A i \in 1..Len(s) : t[i] = s[i]
        /\ t[Len(s) + 1] = m
    BY <2>2, <2>3 DEF IsAppended
  <2>5. m.from = u /\ m.id = k /\ m.text = broadcast[u].text
    BY <2>1
  <2>6. \A i : i \in 1..(Len(s) + 1) => i \in 1..Len(s) \/ i = Len(s) + 1
    BY <2>4
  <2>7. ASSUME NEW i \in DOMAIN t PROVE OnItsWay(d, t[i].from, t[i].id, t[i].text)
    <3>1. CASE i \in 1..Len(s)
      <4>1. t[i] = s[i] /\ i \in DOMAIN inbox[w] /\ inbox[w][i] = s[i]
        BY <1>6, <2>1, <2>4, <3>1
      <4> QED BY <1>4, <1>6, <4>1
    <3>2. CASE i = Len(s) + 1
      BY <1>2, <2>4, <2>5, <3>2
    <3> QED BY <2>4, <2>6, <3>1, <3>2
  <2>8. ASSUME NEW i \in DOMAIN t
        PROVE  OnItsWay(d, inbox[d][i].from, inbox[d][i].id, inbox[d][i].text)'
    <3>1. PICK v, n, text : v = t[i].from /\ n = t[i].id /\ text = t[i].text
      OBVIOUS
    <3>2. OnItsWay(d, v, n, text)'
      BY <1>3, <2>7, <3>1
    <3>3. v = inbox'[d][i].from /\ n = inbox'[d][i].id /\ text = inbox'[d][i].text
      BY <2>1, <3>1
    <3> QED BY <3>2, <3>3 DEF OnItsWay, Fits, MessageOf, Written
  <2>9. ASSUME NEW i \in 1..Len(s), s[i].from = u PROVE s[i].id < k
    <3>1. PICK n : n = s[i].id
      OBVIOUS
    <3>2. InInbox(d, u, n)
      BY <2>1, <2>4, <2>9, <3>1 DEF InInbox
    <3>3. n \in 1..k
      BY <3>2, InboxWritten
    <3>4. n # k
      BY <1>2, <3>2
    <3> QED BY <1>2, <3>1, <3>3, <3>4
  <2>10. ASSUME NEW i \in DOMAIN t, NEW j \in DOMAIN t, i < j, t[i].from = t[j].from
         PROVE  t[i].id < t[j].id
    <3>1. i \in 1..Len(s) /\ t[i] = s[i]
      <4>1. i \in 1..(Len(s) + 1) /\ j \in 1..(Len(s) + 1) /\ Len(s) \in Nat
        BY <2>4
      <4>2. i \in 1..Len(s)
        BY <2>10, <4>1
      <4> QED BY <2>4, <4>2
    <3>2. CASE j = Len(s) + 1
      BY <2>4, <2>5, <2>9, <2>10, <3>1, <3>2
    <3>3. CASE j \in 1..Len(s)
      <4>1. t[j] = s[j] /\ i \in DOMAIN inbox[w] /\ j \in DOMAIN inbox[w] /\ inbox[w] = s
        BY <1>6, <2>1, <2>4, <3>1, <3>3
      <4> QED BY <1>4, <2>10, <3>1, <4>1
    <3> QED BY <2>4, <2>6, <3>2, <3>3
  <2>11. \A i \in DOMAIN inbox'[d] :
           OnItsWay(d, inbox[d][i].from, inbox[d][i].id, inbox[d][i].text)'
    BY <2>1, <2>8
  <2>12. \A i, j \in DOMAIN inbox'[d] :
           i < j /\ inbox'[d][i].from = inbox'[d][j].from => inbox'[d][i].id < inbox'[d][j].id
    BY <2>1, <2>10
  <2> QED BY <1>6, <2>11, <2>12
<1> QED BY <1>5, <1>6
-----------------------------------------------------------------------------
(* Deliver: the message leaves the broadcast and is in the inbox, unless   *)
(* the session has ended.                                                  *)
LEMMA DeliverKeeps ==
  ASSUME ExchangeInv, NEW u \in User, NEW d \in User, Deliver(u, d)
  PROVE  ExchangeInv'
<1>1. /\ isLoggedIn' = isLoggedIn /\ shouldTerminate' = shouldTerminate /\ eventsMap' = eventsMap
      /\ read' = read /\ sent' = sent /\ session' = session /\ messageId' = messageId
      /\ reported' = reported /\ reports' = reports
      /\ broadcast' = [broadcast EXCEPT ![u].to = @ \ {d}]
  BY DEF Deliver, clientVars
<1>2. broadcast \in [User -> [text : Text, to : SUBSET User]]
  BY DEF ExchangeInv, TypeOK
<1>3. /\ broadcast'[u].to = broadcast[u].to \ {d} /\ broadcast'[u].text = broadcast[u].text
      /\ \A v \in User \ {u} : broadcast'[v] = broadcast[v]
      /\ broadcast' \in [User -> [text : Text, to : SUBSET User]]
  <2>1. broadcast' = [broadcast EXCEPT ![u] = [broadcast[u] EXCEPT !.to = @ \ {d}]]
    BY <1>1
  <2>2. broadcast[u] \in [text : Text, to : SUBSET User]
    BY <1>2
  <2>3. PICK b : b = [broadcast[u] EXCEPT !.to = @ \ {d}]
    OBVIOUS
  <2>4. b \in [text : Text, to : SUBSET User]
        /\ b.to = broadcast[u].to \ {d} /\ b.text = broadcast[u].text
    BY <2>2, <2>3
  <2>5. broadcast' = [broadcast EXCEPT ![u] = b]
    BY <2>1, <2>3
  <2> QED BY <1>2, <2>4, <2>5
<1>4. ASSUME NEW v \in User
      PROVE  /\ broadcast'[v].to \subseteq broadcast[v].to /\ broadcast'[v].text = broadcast[v].text
             /\ Written(v)' = Written(v) /\ Served(v)' = Served(v)
  BY <1>1, <1>3 DEF Written, Served
<1>5. PICK k : k = Written(u)
  OBVIOUS
<1>6. /\ k \in Nat /\ ~InInbox(d, u, k) /\ inbox' \in [User -> Seq(Message)]
  BY <1>5, Delivered
<1>7. /\ \A v, w \in User : \A n : w # d \/ v # u => InInbox(w, v, n)' = InInbox(w, v, n)
      /\ \A n : session[d] => InInbox(d, u, n)' = (InInbox(d, u, n) \/ n = k)
      /\ \A n : ~session[d] => InInbox(d, u, n)' = InInbox(d, u, n)
  BY <1>5, InboxAfter
<1>8. ASSUME NEW w, NEW v, NEW n
      PROVE  Fits(w, v, n)' = Fits(w, v, n) /\ MessageOf(v, n)' = MessageOf(v, n)
  BY <1>1 DEF Fits, MessageOf
<1>9. TypeOK'
  BY <1>1, <1>3, <1>6 DEF ExchangeInv, TypeOK
<1>10. ReportsReadBack'
  BY <1>1 DEF ExchangeInv, ReportsReadBack
<1>11. SentAsReported'
  BY <1>1 DEF ExchangeInv, SentAsReported, Served
<1>12. ServedInTurn'
  <2> SUFFICES ASSUME NEW v \in User
               PROVE  /\ \A n \in 1..Written(v)' : reported'[v][n].channel_name \in Joined[v]
                      /\ IF session'[v] THEN Written(v)' = Served(v)'
                         ELSE Written(v)' = Served(v)' - 1 /\ broadcast'[v].to = {}
    BY DEF ServedInTurn
  <2>1. /\ \A n \in 1..Written(v) : reported[v][n].channel_name \in Joined[v]
        /\ IF session[v] THEN Written(v) = Served(v)
           ELSE Written(v) = Served(v) - 1 /\ broadcast[v].to = {}
    BY DEF ExchangeInv, ServedInTurn
  <2>2. broadcast[v].to = {} => broadcast'[v].to = {}
    BY <1>4
  <2> QED BY <1>1, <1>4, <2>1, <2>2
<1>13. BroadcastIsLast'
  <2> SUFFICES ASSUME NEW v \in User, NEW w \in broadcast'[v].to
               PROVE  (/\ Written(v) > 0 /\ OnItsWay(w, v, Written(v), broadcast[v].text)
                       /\ ~InInbox(w, v, Written(v)))'
    BY DEF BroadcastIsLast
  <2>1. w \in broadcast[v].to /\ w \in User
    BY <1>2, <1>4
  <2>2. PICK n, text : n = Written(v) /\ text = broadcast[v].text
    OBVIOUS
  <2>3. n > 0 /\ OnItsWay(w, v, n, text) /\ ~InInbox(w, v, n)
    BY <2>1, <2>2 DEF ExchangeInv, BroadcastIsLast
  <2>4. Written(v)' = n /\ broadcast'[v].text = text
    BY <1>4, <2>2
  <2>5. w # d \/ v # u
    BY <1>3
  <2>6. ~InInbox(w, v, n)'
    BY <1>7, <2>1, <2>3, <2>5
  <2>7. OnItsWay(w, v, n, text)'
    BY <1>1, <1>4, <1>8, <2>3 DEF OnItsWay
  <2> QED BY <2>3, <2>4, <2>6, <2>7 DEF OnItsWay, Fits, MessageOf, InInbox
<1>14. InboxInOrder'
  BY <1>5, DeliverInbox
<1>15. NoneSkipped'
  <2> SUFFICES ASSUME NEW w \in User, NEW v \in User
               PROVE  (/\ read[w][v] <= Written(v)
                       /\ ~shouldTerminate[w] =>
                            \A n \in (read[w][v] + 1)..Written(v) :
                              Fits(w, v, n) /\ ~InInbox(w, v, n) =>
                                /\ session[w] => n = Written(v) /\ w \in broadcast[v].to
                                /\ \A m \in (n + 1)..Written(v) : ~InInbox(w, v, m))'
    BY DEF NoneSkipped
  <2>1. read'[w][v] <= Written(v)'
    BY <1>1, <1>4 DEF ExchangeInv, NoneSkipped
  <2>2. ASSUME ~shouldTerminate[w], NEW n \in (read[w][v] + 1)..Written(v),
               Fits(w, v, n), ~InInbox(w, v, n)
        PROVE  /\ session[w] => n = Written(v) /\ w \in broadcast[v].to
               /\ \A m \in (n + 1)..Written(v) : ~InInbox(w, v, m)
    BY <2>2 DEF ExchangeInv, NoneSkipped
  <2>3. ASSUME ~shouldTerminate[w], NEW n \in (read[w][v] + 1)..Written(v),
               Fits(w, v, n), ~InInbox(w, v, n)'
        PROVE  /\ session[w] => n = Written(v) /\ w \in broadcast'[v].to
               /\ \A m \in (n + 1)..Written(v) : ~InInbox(w, v, m)'
    <3>1. CASE w = d /\ v = u /\ session[d]
      <4>1. ~InInbox(d, u, n) /\ n # k
        BY <1>7, <2>3, <3>1
      <4>2. n = k
        BY <1>5, <2>2, <2>3, <3>1, <4>1
      <4> QED BY <4>1, <4>2
    <3>2. CASE w = d /\ v = u /\ ~session[d]
      <4>1. ~InInbox(d, u, n)
        BY <1>7, <2>3, <3>2
      <4>2. \A m \in (n + 1)..Written(v) : ~InInbox(w, v, m)
        BY <2>2, <2>3, <3>2, <4>1
      <4>3. \A m \in (n + 1)..Written(v) : ~InInbox(w, v, m)'
        BY <1>7, <3>2, <4>2
      <4> QED BY <3>2, <4>3
    <3>3. CASE w # d \/ v # u
      <4>1. ~InInbox(w, v, n)
        BY <1>7, <2>3, <3>3
      <4>2. /\ session[w] => n = Written(v) /\ w \in broadcast[v].to
            /\ \A m \in (n + 1)..Written(v) : ~InInbox(w, v, m)
        BY <2>2, <2>3, <4>1
      <4>3. \A m \in (n + 1)..Written(v) : ~InInbox(w, v, m)'
        BY <1>7, <3>3, <4>2
      <4>4. w \in broadcast[v].to => w \in broadcast'[v].to
        BY <1>3, <3>3
      <4> QED BY <4>2, <4>3, <4>4
    <3> QED BY <3>1, <3>2, <3>3
  <2> QED BY <1>1, <1>4, <1>8, <2>1, <2>3
<1>16. EventsAsRead'
  BY <1>1, EventsStay
<1> QED BY <1>9, <1>10, <1>11, <1>12, <1>13, <1>14, <1>15, <1>16 DEF ExchangeInv
-----------------------------------------------------------------------------
(* What a client reads is the oldest report that it has not read.          *)
IsNext(d, u, k) ==
  /\ u \in User /\ k \in 1..Written(u) /\ read[d][u] < k /\ Fits(d, u, k) /\ InInbox(d, u, k)
  /\ Head(inbox[d]).from = u /\ Head(inbox[d]).id = k
  /\ BodyPart(Head(inbox[d]).text) = BodyOf(reported[u][k])
  /\ \A n : InInbox(d, u, n) => n >= k

(* The first message of an inbox is.                                       *)
LEMMA HeadIsNext ==
  ASSUME NumbersAreWords, ExchangeInv, NEW d \in User, inbox[d] # <<>>
  PROVE  \E u, k : IsNext(d, u, k)
<1>1. PICK s, m : s = inbox[d] /\ m = Head(s)
  OBVIOUS
<1>2. s \in Seq(Message) /\ s # <<>>
  BY <1>1 DEF ExchangeInv, TypeOK
<1>3. m = s[1] /\ 1 \in DOMAIN s /\ Len(s) \in Nat /\ DOMAIN s = 1..Len(s) /\ m \in Message
  BY <1>1, <1>2
<1>4. PICK u, k, text : u = m.from /\ k = m.id /\ text = m.text
  OBVIOUS
<1>5. u \in User /\ k \in Nat \ {0}
  BY <1>3, <1>4 DEF Message
<1>6. OnItsWay(d, u, k, text)
  BY <1>1, <1>3, <1>4 DEF ExchangeInv, InboxInOrder
<1>7. InInbox(d, u, k)
  BY <1>1, <1>3, <1>4 DEF InInbox
<1>8. k \in 1..Written(u) /\ read[d][u] < k /\ Fits(d, u, k)
  BY <1>5, <1>7, InboxWritten
<1>9. /\ Written(u) \in Nat /\ Written(u) <= Len(reported[u]) /\ Len(reported[u]) \in Nat
      /\ DOMAIN reported[u] = 1..Len(reported[u])
  BY <1>5, Sizes
<1>10. k \in DOMAIN reported[u]
  BY <1>8, <1>9
<1>11. PICK e : e = reported[u][k]
  OBVIOUS
<1>12. IsEvent(e) /\ ReadsBack(e) /\ e.eventOwnerUser = u
  BY <1>5, <1>10, <1>11 DEF ExchangeInv, ReportsReadBack
<1>13. text = MessageText(e, k)
  BY <1>6, <1>11, <1>12 DEF OnItsWay, MessageOf, MessageText
<1>14. BodyPart(text) = BodyOf(e)
  BY <1>5, <1>12, <1>13, MessageIsRead
<1>15. ASSUME NEW n, InInbox(d, u, n) PROVE n >= k
  <2>1. PICK i \in DOMAIN s : s[i].from = u /\ s[i].id = n
    BY <1>1, <1>15 DEF InInbox
  <2>2. n \in 1..Written(u)
    BY <1>5, <1>15, InboxWritten
  <2>3. CASE i = 1
    BY <1>3, <1>4, <1>8, <2>1, <2>3
  <2>4. CASE i # 1
    <3>1. 1 < i
      BY <1>3, <2>4
    <3>2. s[1].id < s[i].id
      BY <1>1, <1>3, <1>4, <2>1, <3>1 DEF ExchangeInv, InboxInOrder
    <3> QED BY <1>3, <1>4, <1>8, <2>1, <2>2, <3>2
  <2> QED BY <2>3, <2>4
<1>16. IsNext(d, u, k)
  BY <1>1, <1>4, <1>5, <1>7, <1>8, <1>11, <1>14, <1>15 DEF IsNext
<1> QED BY <1>16

(* The inbox without its first message.                                    *)
OthersStay(d, u, k) ==
  \A w, v \in User : \A n : w # d \/ v # u \/ n # k => InInbox(w, v, n)' = InInbox(w, v, n)

(* Without it nothing else leaves.                                         *)
LEMMA TailInbox ==
  ASSUME NumbersAreWords, ExchangeInv, NEW d \in User, inbox[d] # <<>>,
         inbox' = [inbox EXCEPT ![d] = Tail(@)], NEW u, NEW k, IsNext(d, u, k)
  PROVE  /\ inbox' \in [User -> Seq(Message)]
         /\ \A w \in User \ {d} : inbox'[w] = inbox[w]
         /\ \A i \in DOMAIN inbox'[d] : i + 1 \in DOMAIN inbox[d] /\ inbox'[d][i] = inbox[d][i + 1]
                                        /\ i \in Nat
         /\ \A w, v \in User : \A n : InInbox(w, v, n)' => InInbox(w, v, n)
         /\ OthersStay(d, u, k)
         /\ ~InInbox(d, u, k)'
<1>1. inbox \in [User -> Seq(Message)]
  BY DEF ExchangeInv, TypeOK
<1>2. PICK s, t : s = inbox[d] /\ t = inbox'[d]
  OBVIOUS
<1>3. s \in Seq(Message) /\ s # <<>> /\ t = Tail(s)
  BY <1>1, <1>2
<1>4. /\ t \in Seq(Message) /\ Len(t) = Len(s) - 1 /\ \A i \in 1..Len(t) : t[i] = s[i + 1]
      /\ Len(s) \in Nat /\ Len(s) > 0 /\ Head(s) = s[1] /\ DOMAIN s = 1..Len(s) /\ DOMAIN t = 1..Len(t)
  BY <1>3
<1>5. \A w \in User \ {d} : inbox'[w] = inbox[w]
  BY <1>1
<1>6. inbox' \in [User -> Seq(Message)]
  BY <1>1, <1>2, <1>4
<1>7. ASSUME NEW i \in DOMAIN t PROVE i + 1 \in DOMAIN s /\ t[i] = s[i + 1] /\ i \in Nat /\ i + 1 > 1
  <2>1. i \in 1..Len(t)
    BY <1>4
  <2> QED BY <1>4, <2>1
<1>8. s[1].from = u /\ s[1].id = k
  BY <1>2, <1>4 DEF IsNext
<1>9. ASSUME NEW w \in User, NEW v \in User, NEW n, InInbox(w, v, n)' PROVE InInbox(w, v, n)
  <2>1. CASE w # d
    BY <1>5, <1>9, <2>1 DEF InInbox
  <2>2. CASE w = d
    <3>1. PICK i \in DOMAIN t : t[i].from = v /\ t[i].id = n
      BY <1>2, <1>9, <2>2 DEF InInbox
    <3>2. i + 1 \in DOMAIN s /\ s[i + 1].from = v /\ s[i + 1].id = n
      BY <1>7, <3>1
    <3> QED BY <1>2, <2>2, <3>2 DEF InInbox
  <2> QED BY <2>1, <2>2
<1>10. ASSUME NEW w \in User, NEW v \in User, NEW n, w # d \/ v # u \/ n # k, InInbox(w, v, n)
       PROVE  InInbox(w, v, n)'
  <2>1. CASE w # d
    BY <1>5, <1>10, <2>1 DEF InInbox
  <2>2. CASE w = d
    <3>1. PICK i \in DOMAIN s : s[i].from = v /\ s[i].id = n
      BY <1>2, <1>10, <2>2 DEF InInbox
    <3>2. i # 1
      BY <1>8, <1>10, <2>2, <3>1
    <3>3. PICK j : j = i - 1
      OBVIOUS
    <3>4. j \in 1..Len(t) /\ j + 1 = i
      BY <1>4, <3>2, <3>3
    <3>5. j \in DOMAIN t /\ t[j] = s[i]
      BY <1>4, <3>4
    <3> QED BY <1>2, <2>2, <3>1, <3>5 DEF InInbox
  <2> QED BY <2>1, <2>2
<1>11. ASSUME InInbox(d, u, k)' PROVE FALSE
  <2>1. PICK i \in DOMAIN t : t[i].from = u /\ t[i].id = k
    BY <1>2, <1>11 DEF InInbox
  <2>2. i + 1 \in DOMAIN s /\ s[i + 1].from = u /\ s[i + 1].id = k /\ 1 < i + 1 /\ 1 \in DOMAIN s
    BY <1>4, <1>7, <2>1
  <2>3. s[1].id < s[i + 1].id
    BY <1>2, <1>8, <2>2 DEF ExchangeInv, InboxInOrder
  <2>4. k \in Nat
    <3>1. k \in 1..Written(u)
      BY DEF IsNext
    <3> QED BY <3>1
  <2> QED BY <1>8, <2>2, <2>3, <2>4
<1>12. OthersStay(d, u, k)
  <2> SUFFICES ASSUME NEW w \in User, NEW v \in User, NEW n, w # d \/ v # u \/ n # k
               PROVE  InInbox(w, v, n)' = InInbox(w, v, n)
    BY DEF OthersStay
  <2>1. InInbox(w, v, n)' <=> InInbox(w, v, n)
    BY <1>9, <1>10
  <2> QED BY <2>1 DEF InInbox
<1> QED BY <1>2, <1>5, <1>6, <1>7, <1>9, <1>11, <1>12
-----------------------------------------------------------------------------
(* The rest is still on its way once that report is read.                  *)
Reads(d, u, k) == read' = read \/ read' = [read EXCEPT ![d][u] = k]

(* Nothing else is read.                                                   *)
LEMMA ReadAt ==
  ASSUME ExchangeInv, NEW d \in User, NEW u \in User, NEW k \in Nat, Reads(d, u, k)
  PROVE  /\ read' \in [User -> [User -> Nat]]
         /\ \A w, v \in User : w # d \/ v # u => read'[w][v] = read[w][v]
         /\ read'[d][u] \in {read[d][u], k}
<1>1. read \in [User -> [User -> Nat]]
  BY DEF ExchangeInv, TypeOK
<1>2. CASE read' = read
  BY <1>1, <1>2
<1>3. CASE read' = [read EXCEPT ![d][u] = k]
  <2>1. PICK r : r = [read[d] EXCEPT ![u] = k]
    OBVIOUS
  <2>2. read' = [read EXCEPT ![d] = r]
    BY <1>3, <2>1
  <2>3. r \in [User -> Nat] /\ r[u] = k /\ \A v \in User \ {u} : r[v] = read[d][v]
    BY <1>1, <2>1
  <2>4. read'[d] = r /\ \A w \in User \ {d} : read'[w] = read[w]
    BY <1>1, <2>2
  <2>5. read' \in [User -> [User -> Nat]]
    BY <1>1, <2>2, <2>3
  <2>6. ASSUME NEW w \in User, NEW v \in User, w # d \/ v # u PROVE read'[w][v] = read[w][v]
    BY <2>3, <2>4, <2>6
  <2> QED BY <2>3, <2>4, <2>5, <2>6
<1> QED BY <1>2, <1>3 DEF Reads

(* Receive: the messages that are left are later ones.                     *)
LEMMA ReceiveInbox ==
  ASSUME NumbersAreWords, ExchangeInv, NEW d \in User, inbox[d] # <<>>,
         inbox' = [inbox EXCEPT ![d] = Tail(@)], NEW u, NEW k, IsNext(d, u, k),
         Reads(d, u, k), reported' = reported, messageId' = messageId
  PROVE  InboxInOrder'
<1>1. /\ \A w \in User \ {d} : inbox'[w] = inbox[w]
      /\ \A i \in DOMAIN inbox'[d] : i + 1 \in DOMAIN inbox[d] /\ inbox'[d][i] = inbox[d][i + 1]
                                     /\ i \in Nat
      /\ ~InInbox(d, u, k)'
      /\ inbox' \in [User -> Seq(Message)]
  BY TailInbox
<1>2. u \in User /\ k \in 1..Written(u) /\ Written(u) \in Nat
  BY Sizes DEF IsNext
<1>3. k \in Nat
  BY <1>2
<1>4. /\ read' \in [User -> [User -> Nat]]
      /\ \A w, v \in User : w # d \/ v # u => read'[w][v] = read[w][v]
      /\ read'[d][u] \in {read[d][u], k}
  BY <1>2, <1>3, ReadAt
<1>5. ASSUME NEW w \in User, NEW v \in User, NEW n, NEW text, OnItsWay(w, v, n, text), n \in Nat,
             w # d \/ v # u \/ n > k
      PROVE  OnItsWay(w, v, n, text)'
  <2>1. n <= Written(v)' /\ Fits(w, v, n)' /\ text = MessageOf(v, n)'
    BY <1>5 DEF OnItsWay, Fits, MessageOf, Written
  <2>2. read[w][v] < n
    BY <1>5 DEF OnItsWay
  <2>3. read'[w][v] < n
    <3>1. CASE w # d \/ v # u
      BY <1>4, <2>2, <3>1
    <3>2. CASE w = d /\ v = u
      BY <1>3, <1>4, <1>5, <2>2, <3>2
    <3> QED BY <3>1, <3>2
  <2> QED BY <2>1, <2>3 DEF OnItsWay
<1> SUFFICES ASSUME NEW w \in User
             PROVE  (/\ \A i \in DOMAIN inbox[w] :
                          OnItsWay(w, inbox[w][i].from, inbox[w][i].id, inbox[w][i].text)
                     /\ \A i, j \in DOMAIN inbox[w] :
                          i < j /\ inbox[w][i].from = inbox[w][j].from
                          => inbox[w][i].id < inbox[w][j].id)'
  BY DEF InboxInOrder
<1>6. /\ \A i \in DOMAIN inbox[w] :
           OnItsWay(w, inbox[w][i].from, inbox[w][i].id, inbox[w][i].text)
      /\ \A i, j \in DOMAIN inbox[w] :
           i < j /\ inbox[w][i].from = inbox[w][j].from => inbox[w][i].id < inbox[w][j].id
  BY DEF ExchangeInv, InboxInOrder
<1>7. ASSUME NEW i \in DOMAIN inbox'[w]
      PROVE  OnItsWay(w, inbox[w][i].from, inbox[w][i].id, inbox[w][i].text)'
  <2>1. PICK v, n, text : v = inbox'[w][i].from /\ n = inbox'[w][i].id /\ text = inbox'[w][i].text
    OBVIOUS
  <2>2. v \in User /\ n \in Nat
    <3>1. inbox'[w] \in Seq(Message)
      BY <1>1
    <3>2. inbox'[w][i] \in Message
      BY <3>1
    <3> QED BY <2>1, <3>2 DEF Message
  <2>3. OnItsWay(w, v, n, text)
    <3>1. CASE w # d
      <4>1. inbox'[w] = inbox[w]
        BY <1>1, <3>1
      <4> QED BY <1>6, <2>1, <4>1
    <3>2. CASE w = d
      <4>1. i + 1 \in DOMAIN inbox[w] /\ inbox'[w][i] = inbox[w][i + 1]
        BY <1>1, <3>2
      <4>2. PICK j : j = i + 1
        OBVIOUS
      <4>3. OnItsWay(w, inbox[w][j].from, inbox[w][j].id, inbox[w][j].text)
        BY <1>6, <4>1, <4>2
      <4>4. v = inbox[w][j].from /\ n = inbox[w][j].id /\ text = inbox[w][j].text
        BY <2>1, <4>1, <4>2
      <4> QED BY <4>3, <4>4
    <3> QED BY <3>1, <3>2
  <2>4. w # d \/ v # u \/ n > k
    <3> SUFFICES ASSUME w = d, v = u PROVE n > k
      OBVIOUS
    <3>1. InInbox(d, u, n)'
      BY <2>1 DEF InInbox
    <3>2. InInbox(d, u, n)
      BY <1>2, <3>1, TailInbox
    <3>3. n >= k
      BY <3>2 DEF IsNext
    <3>4. n # k
      BY <1>1, <3>1
    <3> QED BY <1>3, <2>2, <3>3, <3>4
  <2>5. OnItsWay(w, v, n, text)'
    BY <1>5, <2>2, <2>3, <2>4
  <2> QED BY <2>1, <2>5 DEF OnItsWay, Fits, MessageOf, Written
<1>8. ASSUME NEW i \in DOMAIN inbox'[w], NEW j \in DOMAIN inbox'[w],
             i < j, inbox'[w][i].from = inbox'[w][j].from
      PROVE  inbox'[w][i].id < inbox'[w][j].id
  <2>1. CASE w # d
    <3>1. inbox'[w] = inbox[w]
      BY <1>1, <2>1
    <3> QED BY <1>6, <1>8, <3>1
  <2>2. CASE w = d
    <3>1. /\ i + 1 \in DOMAIN inbox[w] /\ inbox'[w][i] = inbox[w][i + 1] /\ i \in Nat
          /\ j + 1 \in DOMAIN inbox[w] /\ inbox'[w][j] = inbox[w][j + 1] /\ j \in Nat
      BY <1>1, <2>2
    <3>2. i + 1 < j + 1
      BY <1>8, <3>1
    <3>3. PICK a, b : a = i + 1 /\ b = j + 1
      OBVIOUS
    <3>4. a < b /\ a \in DOMAIN inbox[w] /\ b \in DOMAIN inbox[w] /\ inbox'[w][i] = inbox[w][a]
          /\ inbox'[w][j] = inbox[w][b]
      BY <3>1, <3>2, <3>3
    <3>5. inbox[w][a].from = inbox[w][b].from
      BY <1>8, <3>4
    <3>6. inbox[w][a].id < inbox[w][b].id
      BY <1>6, <3>4, <3>5
    <3> QED BY <3>4, <3>6
  <2> QED BY <2>1, <2>2
<1> QED BY <1>7, <1>8

(* Receive: what is being sent is later still.                             *)
LEMMA ReceiveBroadcast ==
  ASSUME NumbersAreWords, ExchangeInv, NEW d \in User, inbox[d] # <<>>,
         inbox' = [inbox EXCEPT ![d] = Tail(@)], NEW u, NEW k, IsNext(d, u, k),
         Reads(d, u, k), reported' = reported, messageId' = messageId, broadcast' = broadcast
  PROVE  BroadcastIsLast'
<1>1. \A w, v \in User : \A n : InInbox(w, v, n)' => InInbox(w, v, n)
  BY TailInbox
<1>2. u \in User /\ k \in 1..Written(u) /\ Written(u) \in Nat /\ InInbox(d, u, k)
  BY Sizes DEF IsNext
<1>3. k \in Nat
  BY <1>2
<1>4. /\ \A w, v \in User : w # d \/ v # u => read'[w][v] = read[w][v]
      /\ read'[d][u] \in {read[d][u], k}
  BY <1>2, <1>3, ReadAt
<1> SUFFICES ASSUME NEW v \in User, NEW w \in broadcast[v].to
             PROVE  (/\ Written(v) > 0 /\ OnItsWay(w, v, Written(v), broadcast[v].text)
                     /\ ~InInbox(w, v, Written(v)))'
  BY DEF BroadcastIsLast
<1>5. w \in User
  BY DEF ExchangeInv, TypeOK
<1>6. PICK n, text : n = Written(v) /\ text = broadcast[v].text
  OBVIOUS
<1>7. n > 0 /\ OnItsWay(w, v, n, text) /\ ~InInbox(w, v, n)
  BY <1>6 DEF ExchangeInv, BroadcastIsLast
<1>8. Written(v)' = n /\ broadcast'[v].text = text
  BY <1>6 DEF Written
<1>9. ~InInbox(w, v, n)'
  BY <1>1, <1>5, <1>7
<1>10. read'[w][v] < n
  <2>1. CASE w # d \/ v # u
    BY <1>4, <1>5, <1>7, <2>1 DEF OnItsWay
  <2>2. CASE w = d /\ v = u
    <3>1. n # k
      BY <1>2, <1>7, <2>2
    <3>2. read[d][u] < n /\ k < n
      BY <1>2, <1>6, <1>7, <2>2, <3>1 DEF OnItsWay
    <3> QED BY <1>4, <2>2, <3>2
  <2> QED BY <2>1, <2>2
<1>11. n <= Written(v)' /\ Fits(w, v, n)' /\ text = MessageOf(v, n)'
  BY <1>7 DEF OnItsWay, Written, Fits, MessageOf
<1>12. OnItsWay(w, v, n, text)'
  BY <1>10, <1>11 DEF OnItsWay
<1> QED BY <1>7, <1>8, <1>9, <1>12 DEF OnItsWay, Fits, MessageOf, InInbox
-----------------------------------------------------------------------------
(* What Receive does, in terms of the reports.                             *)
Gets(d, u, k) ==
  LET e   == AsReceived(reported[u][k])
      key == <<e.channel_name, u>>
  IN  /\ eventsMap' = [eventsMap EXCEPT ![d] =
           [x \in DOMAIN @ \cup {key} |->
              IF x = key THEN Append(EventsOf(d, x[1], x[2]), e) ELSE @[x]]]
      /\ read' = [read EXCEPT ![d][u] = k]
      /\ shouldTerminate' = shouldTerminate

Stops(d) ==
  /\ shouldTerminate' = [shouldTerminate EXCEPT ![d] = TRUE]
  /\ eventsMap' = eventsMap /\ read' = read

(* Receive does the one or the other.                                      *)
LEMMA ReceiveDoes ==
  ASSUME ExchangeInv, NEW d \in User, Receive(d), NEW u, NEW k, IsNext(d, u, k)
  PROVE  /\ Gets(d, u, k) \/ Stops(d)
         /\ ~shouldTerminate[d] /\ inbox[d] # <<>> /\ inbox' = [inbox EXCEPT ![d] = Tail(@)]
         /\ isLoggedIn' = isLoggedIn /\ sent' = sent /\ session' = session
         /\ broadcast' = broadcast /\ messageId' = messageId /\ reported' = reported
         /\ reports' = reports
<1>1. PICK body : body = BodyPart(Head(inbox[d]).text)
  OBVIOUS
<1>2. PICK r : r = reported[u][k]
  OBVIOUS
<1>3. body = BodyOf(r) /\ Head(inbox[d]).from = u /\ Head(inbox[d]).id = k /\ u \in User
      /\ k \in 1..Written(u)
  BY <1>1, <1>2 DEF IsNext
<1>4. ReadsBack(r) /\ r.eventOwnerUser = u
  <2>1. k \in DOMAIN reported[u]
    BY <1>3, Sizes
  <2> QED BY <1>2, <1>3, <2>1 DEF ExchangeInv, ReportsReadBack
<1>5. /\ ~shouldTerminate[d] /\ inbox[d] # <<>> /\ inbox' = [inbox EXCEPT ![d] = Tail(@)]
      /\ isLoggedIn' = isLoggedIn /\ sent' = sent /\ session' = session
      /\ broadcast' = broadcast /\ messageId' = messageId /\ reported' = reported
      /\ reports' = reports
  BY DEF Receive, Running, serverVars
<1>6. CASE Throws(body)
  <2>1. /\ shouldTerminate' = [shouldTerminate EXCEPT ![d] = TRUE]
        /\ eventsMap' = eventsMap /\ read' = read
    BY <1>1, <1>6 DEF Receive
  <2>2. Stops(d)
    BY <2>1 DEF Stops
  <2> QED BY <1>5, <2>2
<1>7. CASE ~Throws(body)
  <2>1. PICK e, key : e = EventOf(body) /\ key = <<e.channel_name, e.eventOwnerUser>>
    OBVIOUS
  <2>2. /\ eventsMap' = [eventsMap EXCEPT ![d] =
             [x \in DOMAIN @ \cup {key} |->
                IF x = key THEN Append(EventsOf(d, x[1], x[2]), e) ELSE @[x]]]
        /\ read' = [read EXCEPT ![d][Head(inbox[d]).from] = Head(inbox[d]).id]
        /\ shouldTerminate' = shouldTerminate
    BY <1>1, <1>7, <2>1 DEF Receive
  <2>3. e = AsReceived(r)
    BY <1>3, <1>4, <1>7, <2>1 DEF ReadsBack
  <2>4. e.eventOwnerUser = u
    BY <1>4, <2>3 DEF AsReceived
  <2>5. Gets(d, u, k)
    BY <1>2, <1>3, <2>1, <2>2, <2>3, <2>4 DEF Gets
  <2> QED BY <1>5, <2>5
<1> QED BY <1>6, <1>7

(* A key is a pair.                                                        *)
LEMMA EventsAtKey ==
  ASSUME ExchangeInv, NEW d \in User, NEW key \in DOMAIN eventsMap[d]
  PROVE  /\ key[1] \in Name /\ key[2] \in User /\ key = <<key[1], key[2]>>
         /\ eventsMap[d][key] = EventsOf(d, key[1], key[2])
<1>1. key \in Name \X User
  BY DEF ExchangeInv, EventsAsRead
<1>2. key[1] \in Name /\ key[2] \in User /\ key = <<key[1], key[2]>>
  BY <1>1
<1>3. eventsMap[d][key] = EventsOf(d, key[1], key[2])
  BY <1>2 DEF EventsOf
<1> QED BY <1>2, <1>3

(* What a client holds is events.                                          *)
LEMMA HeldEvents ==
  ASSUME ExchangeInv, NEW d \in User, NEW u \in User, NEW name \in Name
  PROVE  \E T : /\ \A e \in T : IsEvent(e)
                /\ EventsOf(d, name, u) \in Seq(T)
<1>1. PICK f : f = ExpectedOf(d, u, name)
  OBVIOUS
<1>2. Len(reported[u]) \in Nat /\ DOMAIN reported[u] = 1..Len(reported[u])
      /\ Written(u) <= Len(reported[u]) /\ Written(u) \in Nat
  BY Sizes
<1>3. IsDue(f, reported[u], Joined[u] \cap Joined[d], name)
  BY <1>1, <1>2, ExpectedIs
<1>4. PICK T : T = {AsReceived(reported[u][i]) : i \in 1..Len(reported[u])}
  OBVIOUS
<1>5. \A i \in 1..Len(reported[u]) : IsEvent(AsReceived(reported[u][i]))
  BY <1>2, ReceivedIsEvent DEF ExchangeInv, TypeOK
<1>6. read[d][u] \in 0..Len(reported[u])
  BY <1>2 DEF ExchangeInv, TypeOK, NoneSkipped
<1>7. f[read[d][u]] \in Seq(T)
  BY <1>3, <1>4, <1>6 DEF IsDue
<1>8. EventsOf(d, name, u) = f[read[d][u]]
  BY <1>1 DEF ExchangeInv, EventsAsRead
<1> QED BY <1>4, <1>5, <1>7, <1>8

(* What d holds once it has got one more.                                  *)
LEMMA HeldAfter ==
  ASSUME ExchangeInv, NEW d \in User, NEW u \in User, NEW k, Gets(d, u, k), NEW e,
         e = AsReceived(reported[u][k]), NEW name, name = e.channel_name
  PROVE  /\ DOMAIN eventsMap' = User /\ \A w \in User \ {d} : eventsMap'[w] = eventsMap[w]
         /\ DOMAIN eventsMap'[d] = DOMAIN eventsMap[d] \cup {<<name, u>>}
         /\ EventsOf(d, name, u)' = Append(EventsOf(d, name, u), e)
         /\ \A v, n : <<n, v>> # <<name, u>> => EventsOf(d, n, v)' = EventsOf(d, n, v)
<1>1. DOMAIN eventsMap = User
  BY DEF ExchangeInv, TypeOK
<1>2. PICK key : key = <<name, u>>
  OBVIOUS
<1>3. PICK old : old = eventsMap[d]
  OBVIOUS
<1>4. PICK new : new = [x \in DOMAIN old \cup {key} |->
                          IF x = key THEN Append(EventsOf(d, x[1], x[2]), e) ELSE old[x]]
  OBVIOUS
<1>5. eventsMap' = [eventsMap EXCEPT ![d] = new]
  BY <1>2, <1>3, <1>4 DEF Gets
<1>6. eventsMap'[d] = new
  BY <1>1, <1>5
<1>7. DOMAIN eventsMap' = User /\ \A w \in User \ {d} : eventsMap'[w] = eventsMap[w]
  BY <1>1, <1>5
<1>8. DOMAIN new = DOMAIN old \cup {key}
  BY <1>4
<1>9. new[key] = Append(EventsOf(d, name, u), e)
  <2>1. new[key] = Append(EventsOf(d, key[1], key[2]), e)
    BY <1>4
  <2>2. key[1] = name /\ key[2] = u
    BY <1>2
  <2> QED BY <2>1, <2>2
<1>10. \A x \in DOMAIN old : x # key => new[x] = old[x]
  BY <1>4
<1>11. EventsOf(d, name, u)' = new[key]
  BY <1>2, <1>6, <1>8 DEF EventsOf
<1>12. ASSUME NEW v, NEW n, <<n, v>> # key PROVE EventsOf(d, n, v)' = EventsOf(d, n, v)
  <2>1. PICK x : x = <<n, v>>
    OBVIOUS
  <2>2. x \in DOMAIN new <=> x \in DOMAIN old
    BY <1>8, <1>12, <2>1
  <2>3. x \in DOMAIN old => new[x] = old[x]
    BY <1>10, <1>12, <2>1
  <2> QED BY <1>3, <1>6, <2>1, <2>2, <2>3 DEF EventsOf
<1>13. DOMAIN eventsMap'[d] = DOMAIN eventsMap[d] \cup {<<name, u>>}
  BY <1>2, <1>3, <1>6, <1>8
<1> QED BY <1>2, <1>7, <1>9, <1>11, <1>12, <1>13
-----------------------------------------------------------------------------
(* No report between the last one read and the next is for d.              *)
LEMMA NoneBetween ==
  ASSUME ExchangeInv, NEW d \in User, ~shouldTerminate[d], NEW u, NEW k, IsNext(d, u, k), NEW name
  PROVE  NoneDue(reported[u], Joined[u] \cap Joined[d], name, read[d][u], k - 1)
<1>1. u \in User /\ k \in 1..Written(u) /\ read[d][u] < k /\ InInbox(d, u, k)
      /\ \A n : InInbox(d, u, n) => n >= k
  BY DEF IsNext
<1>2. Written(u) \in Nat /\ read[d][u] \in Nat
  BY <1>1, Sizes DEF ExchangeInv, TypeOK
<1> SUFFICES ASSUME NEW i \in (read[d][u] + 1)..(k - 1),
                    reported[u][i].channel_name \in Joined[u] \cap Joined[d]
             PROVE  FALSE
  BY DEF NoneDue
<1>3. Fits(d, u, i)
  BY DEF Fits
<1>4. i \in (read[d][u] + 1)..Written(u) /\ k \in (i + 1)..Written(u) /\ ~(i >= k)
  BY <1>1, <1>2
<1>5. ~InInbox(d, u, i)
  BY <1>1, <1>4
<1>6. \A n \in (i + 1)..Written(u) : ~InInbox(d, u, n)
  BY <1>1, <1>3, <1>4, <1>5 DEF ExchangeInv, NoneSkipped
<1> QED BY <1>1, <1>4, <1>6

(* What is due with it is one event more, under the name of its channel.   *)
LEMMA ExpectedNext ==
  ASSUME ExchangeInv, NEW d \in User, ~shouldTerminate[d], NEW u, NEW k, IsNext(d, u, k), NEW name
  PROVE  ExpectedOf(d, u, name)[k] =
           IF Kept(reported[u][k].channel_name) = name
             THEN Append(ExpectedOf(d, u, name)[read[d][u]], AsReceived(reported[u][k]))
             ELSE ExpectedOf(d, u, name)[read[d][u]]
<1>1. u \in User /\ k \in 1..Written(u) /\ read[d][u] < k /\ Fits(d, u, k)
  BY DEF IsNext
<1>2. /\ Len(reported[u]) \in Nat /\ Written(u) \in Nat /\ Written(u) <= Len(reported[u])
      /\ read[d][u] \in Nat
  BY <1>1, Sizes DEF ExchangeInv, TypeOK
<1>3. PICK f, channels : f = ExpectedOf(d, u, name) /\ channels = Joined[u] \cap Joined[d]
  OBVIOUS
<1>4. IsDue(f, reported[u], channels, name)
  BY <1>2, <1>3, ExpectedIs
<1>5. PICK m : m = k - 1
  OBVIOUS
<1>6. m \in Nat /\ m <= Len(reported[u]) /\ read[d][u] \in 0..m
  BY <1>1, <1>2, <1>5
<1>7. NoneDue(reported[u], channels, name, read[d][u], m)
  BY <1>3, <1>5, NoneBetween
<1>8. f[m] = f[read[d][u]]
  BY <1>2, <1>4, <1>6, <1>7, DueSkips
<1>9. k \in 1..Len(reported[u])
  BY <1>1, <1>2
<1>10. f[k] = IF reported[u][k].channel_name \in channels /\ Kept(reported[u][k].channel_name) = name
                THEN Append(f[k - 1], AsReceived(reported[u][k])) ELSE f[k - 1]
  BY <1>4, <1>9 DEF IsDue
<1>11. reported[u][k].channel_name \in channels
  BY <1>1, <1>3 DEF Fits
<1> QED BY <1>3, <1>5, <1>8, <1>10, <1>11

(* Receive: the client holds what it has read then, too.                   *)
LEMMA GetsEvents ==
  ASSUME NumbersAreWords, ExchangeInv, NEW d \in User, ~shouldTerminate[d],
         NEW u, NEW k, IsNext(d, u, k), Gets(d, u, k), reported' = reported
  PROVE  EventsAsRead'
<1>1. PICK e, name : e = AsReceived(reported[u][k]) /\ name = e.channel_name
  OBVIOUS
<1>2. u \in User /\ k \in 1..Written(u) /\ Fits(d, u, k) /\ Written(u) \in Nat
  BY Sizes DEF IsNext
<1>3. k \in Nat
  BY <1>2
<1>4. name = Kept(reported[u][k].channel_name)
  BY <1>1 DEF AsReceived
<1>5. name \in Name
  BY <1>2, <1>4 DEF Name, Channel, Fits
<1>6. /\ \A w \in User \ {d} : eventsMap'[w] = eventsMap[w]
      /\ DOMAIN eventsMap'[d] = DOMAIN eventsMap[d] \cup {<<name, u>>}
      /\ EventsOf(d, name, u)' = Append(EventsOf(d, name, u), e)
      /\ \A v, n : <<n, v>> # <<name, u>> => EventsOf(d, n, v)' = EventsOf(d, n, v)
  BY <1>1, <1>2, HeldAfter
<1>7. read' = [read EXCEPT ![d][u] = k]
  BY DEF Gets
<1>8. /\ \A w, v \in User : w # d \/ v # u => read'[w][v] = read[w][v]
      /\ read'[d][u] = k
  <2>1. \A w, v \in User : w # d \/ v # u => read'[w][v] = read[w][v]
    BY <1>2, <1>3, <1>7, ReadAt DEF Reads
  <2>2. read \in [User -> [User -> Nat]]
    BY DEF ExchangeInv, TypeOK
  <2>3. read'[d][u] = k
    BY <1>2, <1>7, <2>2
  <2> QED BY <2>1, <2>3
<1> SUFFICES ASSUME NEW w \in User
             PROVE  (/\ \A key \in DOMAIN eventsMap[w] : key \in Name \X User
                     /\ \A v \in User, n \in Name :
                          EventsOf(w, n, v) = ExpectedOf(w, v, n)[read[w][v]])'
  BY DEF EventsAsRead
<1>9. /\ \A key \in DOMAIN eventsMap[w] : key \in Name \X User
      /\ \A v \in User, n \in Name : EventsOf(w, n, v) = ExpectedOf(w, v, n)[read[w][v]]
  BY DEF ExchangeInv, EventsAsRead
<1>10. \A key \in DOMAIN eventsMap'[w] : key \in Name \X User
  <2>1. CASE w # d
    BY <1>6, <1>9, <2>1
  <2>2. CASE w = d
    <3>1. <<name, u>> \in Name \X User
      BY <1>2, <1>5
    <3> QED BY <1>6, <1>9, <2>2, <3>1
  <2> QED BY <2>1, <2>2
<1>11. ASSUME NEW v \in User, NEW n \in Name
       PROVE  EventsOf(w, n, v)' = ExpectedOf(w, v, n)'[read'[w][v]]
  <2>1. PICK f : f = ExpectedOf(w, v, n)
    OBVIOUS
  <2>2. ExpectedOf(w, v, n)' = f
    BY <2>1 DEF ExpectedOf
  <2>3. EventsOf(w, n, v) = f[read[w][v]]
    BY <1>9, <2>1
  <2>4. CASE w # d
    <3>1. EventsOf(w, n, v)' = EventsOf(w, n, v)
      BY <1>6, <2>4 DEF EventsOf
    <3>2. read'[w][v] = read[w][v]
      BY <1>8, <2>4
    <3> QED BY <2>2, <2>3, <3>1, <3>2
  <2>5. CASE w = d /\ v # u
    <3>1. <<n, v>> # <<name, u>>
      BY <2>5
    <3>2. EventsOf(w, n, v)' = EventsOf(w, n, v)
      BY <1>6, <2>5, <3>1
    <3>3. read'[w][v] = read[w][v]
      BY <1>8, <2>5
    <3> QED BY <2>2, <2>3, <3>2, <3>3
  <2>6. CASE w = d /\ v = u /\ n # name
    <3>1. <<n, v>> # <<name, u>>
      BY <2>6
    <3>2. EventsOf(w, n, v)' = EventsOf(w, n, v)
      BY <1>6, <2>6, <3>1
    <3>3. f[k] = f[read[d][u]]
      BY <1>4, <2>1, <2>6, ExpectedNext
    <3> QED BY <1>8, <2>2, <2>3, <2>6, <3>2, <3>3
  <2>7. CASE w = d /\ v = u /\ n = name
    <3>1. EventsOf(w, n, v)' = Append(EventsOf(w, n, v), e)
      BY <1>6, <2>7
    <3>2. f[k] = Append(f[read[d][u]], e)
      <4>1. PICK g : g = ExpectedOf(d, u, name)
        OBVIOUS
      <4>2. g[k] = IF Kept(reported[u][k].channel_name) = name
                     THEN Append(g[read[d][u]], AsReceived(reported[u][k])) ELSE g[read[d][u]]
        BY <4>1, ExpectedNext
      <4>3. g[k] = Append(g[read[d][u]], AsReceived(reported[u][k]))
        BY <1>4, <4>2
      <4>4. f = g
        BY <2>1, <2>7, <4>1
      <4> QED BY <1>1, <4>3, <4>4
    <3> QED BY <1>8, <2>2, <2>3, <2>7, <3>1, <3>2
  <2> QED BY <2>4, <2>5, <2>6, <2>7
<1> QED BY <1>10, <1>11

(* Receive: what it holds are events.                                      *)
LEMMA GetsTypes ==
  ASSUME ExchangeInv, NEW d \in User, NEW u, NEW k, IsNext(d, u, k), Gets(d, u, k)
  PROVE  /\ DOMAIN eventsMap' = User
         /\ \A w \in User : \A key \in DOMAIN eventsMap'[w] : \A i \in DOMAIN eventsMap'[w][key] :
              IsEvent(eventsMap'[w][key][i])
<1>1. PICK e, name : e = AsReceived(reported[u][k]) /\ name = e.channel_name
  OBVIOUS
<1>2. u \in User /\ k \in 1..Written(u) /\ Fits(d, u, k) /\ DOMAIN reported[u] = 1..Len(reported[u])
      /\ Written(u) \in Nat /\ Written(u) <= Len(reported[u]) /\ Len(reported[u]) \in Nat
  BY Sizes DEF IsNext
<1>3. name \in Name
  <2>1. name = Kept(reported[u][k].channel_name)
    BY <1>1 DEF AsReceived
  <2> QED BY <1>2, <2>1 DEF Name, Channel, Fits
<1>4. IsEvent(e)
  <2>1. k \in DOMAIN reported[u]
    BY <1>2
  <2>2. IsEvent(reported[u][k])
    BY <1>2, <2>1 DEF ExchangeInv, TypeOK
  <2> QED BY <1>1, <2>2, ReceivedIsEvent
<1>5. /\ DOMAIN eventsMap' = User
      /\ \A w \in User \ {d} : eventsMap'[w] = eventsMap[w]
      /\ DOMAIN eventsMap'[d] = DOMAIN eventsMap[d] \cup {<<name, u>>}
      /\ EventsOf(d, name, u)' = Append(EventsOf(d, name, u), e)
      /\ \A v, n : <<n, v>> # <<name, u>> => EventsOf(d, n, v)' = EventsOf(d, n, v)
  BY <1>1, <1>2, HeldAfter
<1>6. PICK T : /\ \A x \in T : IsEvent(x)
               /\ EventsOf(d, name, u) \in Seq(T)
  BY <1>2, <1>3, HeldEvents
<1>7. PICK R : R = T \cup {e}
  OBVIOUS
<1>8. \A x \in R : IsEvent(x)
  BY <1>4, <1>6, <1>7
<1>9. Append(EventsOf(d, name, u), e) \in Seq(R)
  <2>1. PICK s : s = EventsOf(d, name, u)
    OBVIOUS
  <2>2. \A S : \A q \in Seq(S) : \A Q : S \subseteq Q => q \in Seq(Q)
    OBVIOUS
  <2>3. s \in Seq(R) /\ e \in R
    BY <1>6, <1>7, <2>1, <2>2
  <2>4. IsAppended(R, s, e, Append(s, e))
    BY <2>3, AppendAt
  <2> QED BY <2>1, <2>4 DEF IsAppended
<1>10. \A q \in Seq(R) : \A i \in DOMAIN q : q[i] \in R
  OBVIOUS
<1>11. ASSUME NEW w \in User, NEW key \in DOMAIN eventsMap'[w], NEW i \in DOMAIN eventsMap'[w][key]
       PROVE  IsEvent(eventsMap'[w][key][i])
  <2>1. CASE w # d
    <3>1. eventsMap'[w] = eventsMap[w]
      BY <1>5, <2>1
    <3> QED BY <1>11, <3>1 DEF ExchangeInv, TypeOK
  <2>2. CASE w = d /\ key = <<name, u>>
    <3>1. eventsMap'[d][key] = EventsOf(d, name, u)'
      BY <1>5, <2>2 DEF EventsOf
    <3>2. eventsMap'[d][key] \in Seq(R)
      BY <1>5, <1>9, <3>1
    <3> QED BY <1>8, <1>10, <1>11, <2>2, <3>2
  <2>3. CASE w = d /\ key # <<name, u>>
    <3>1. key \in DOMAIN eventsMap[d]
      BY <1>5, <1>11, <2>3
    <3>2. PICK n, v : n = key[1] /\ v = key[2]
      OBVIOUS
    <3>3. key = <<n, v>> /\ eventsMap[d][key] = EventsOf(d, n, v)
      BY <3>1, <3>2, EventsAtKey
    <3>4. eventsMap'[d][key] = EventsOf(d, n, v)'
      BY <1>11, <2>3, <3>3 DEF EventsOf
    <3>5. EventsOf(d, n, v)' = EventsOf(d, n, v)
      BY <1>5, <2>3, <3>3
    <3>6. eventsMap'[d][key] = eventsMap[d][key]
      BY <3>3, <3>4, <3>5
    <3> QED BY <1>11, <2>3, <3>1, <3>6 DEF ExchangeInv, TypeOK
  <2> QED BY <2>1, <2>2, <2>3
<1> QED BY <1>5, <1>11
-----------------------------------------------------------------------------
(* Receive: no report between the last that was read and this one is for   *)
(* this client.                                                            *)
LEMMA ReceiveSkips ==
  ASSUME NumbersAreWords, ExchangeInv, NEW d \in User, Receive(d), NEW u, NEW k, IsNext(d, u, k)
  PROVE  NoneSkipped'
<1>1. /\ Gets(d, u, k) \/ Stops(d)
      /\ ~shouldTerminate[d] /\ inbox[d] # <<>> /\ inbox' = [inbox EXCEPT ![d] = Tail(@)]
      /\ session' = session /\ broadcast' = broadcast /\ messageId' = messageId
      /\ reported' = reported
  BY ReceiveDoes
<1>2. /\ \A w, v \in User : \A n : InInbox(w, v, n)' => InInbox(w, v, n)
      /\ \A w, v \in User : \A n : w # d \/ v # u \/ n # k => InInbox(w, v, n)' = InInbox(w, v, n)
  <2>1. inbox[d] # <<>> /\ inbox' = [inbox EXCEPT ![d] = Tail(@)]
    BY <1>1
  <2>2. \A w, v \in User : \A n : InInbox(w, v, n)' => InInbox(w, v, n)
    BY <2>1, TailInbox
  <2>3. OthersStay(d, u, k)
    BY <2>1, TailInbox
  <2> QED BY <2>2, <2>3 DEF OthersStay
<1>3. u \in User /\ k \in 1..Written(u) /\ Written(u) \in Nat /\ read[d][u] < k
  BY Sizes DEF IsNext
<1>4. k \in Nat /\ Reads(d, u, k)
  BY <1>1, <1>3 DEF Gets, Stops, Reads
<1>5. /\ \A w, v \in User : w # d \/ v # u => read'[w][v] = read[w][v]
      /\ read'[d][u] \in {read[d][u], k}
  BY <1>3, <1>4, ReadAt
<1>6. ASSUME NEW v \in User PROVE Written(v)' = Written(v)
  BY <1>1 DEF Written
<1>7. shouldTerminate \in [User -> BOOLEAN] /\ read \in [User -> [User -> Nat]]
  BY DEF ExchangeInv, TypeOK
<1>8. ASSUME NEW w \in User, ~shouldTerminate'[w] PROVE ~shouldTerminate[w]
  BY <1>1, <1>7, <1>8 DEF Gets, Stops
<1>9. ASSUME ~shouldTerminate'[d] PROVE read'[d][u] = k
  <2>1. Gets(d, u, k)
    BY <1>1, <1>7, <1>9 DEF Stops
  <2>2. read' = [read EXCEPT ![d][u] = k]
    BY <2>1 DEF Gets
  <2> QED BY <1>3, <1>7, <2>2
<1> SUFFICES ASSUME NEW w \in User, NEW v \in User
             PROVE  (/\ read[w][v] <= Written(v)
                     /\ ~shouldTerminate[w] =>
                          \A n \in (read[w][v] + 1)..Written(v) :
                            Fits(w, v, n) /\ ~InInbox(w, v, n) =>
                              /\ session[w] => n = Written(v) /\ w \in broadcast[v].to
                              /\ \A m \in (n + 1)..Written(v) : ~InInbox(w, v, m))'
  BY DEF NoneSkipped
<1>10. /\ read[w][v] <= Written(v) /\ read[w][v] \in Nat
       /\ ~shouldTerminate[w] =>
            \A n \in (read[w][v] + 1)..Written(v) :
              Fits(w, v, n) /\ ~InInbox(w, v, n) =>
                /\ session[w] => n = Written(v) /\ w \in broadcast[v].to
                /\ \A m \in (n + 1)..Written(v) : ~InInbox(w, v, m)
  BY <1>7 DEF ExchangeInv, NoneSkipped
<1>11. read'[w][v] <= Written(v)'
  <2>1. CASE w # d \/ v # u
    BY <1>5, <1>6, <1>10, <2>1
  <2>2. CASE w = d /\ v = u
    BY <1>3, <1>5, <1>6, <1>10, <2>2
  <2> QED BY <2>1, <2>2
<1>12. ASSUME NEW n PROVE Fits(w, v, n)' = Fits(w, v, n)
  BY <1>1 DEF Fits
<1>13. ASSUME ~shouldTerminate'[w], NEW n \in (read'[w][v] + 1)..Written(v),
              Fits(w, v, n), ~InInbox(w, v, n)'
       PROVE  /\ session[w] => n = Written(v) /\ w \in broadcast[v].to
              /\ \A m \in (n + 1)..Written(v) : ~InInbox(w, v, m)'
  <2>1. n \in (read[w][v] + 1)..Written(v) /\ ~InInbox(w, v, n)
    <3>1. CASE w # d \/ v # u
      <4>1. read'[w][v] = read[w][v]
        BY <1>5, <3>1
      <4>2. InInbox(w, v, n)' = InInbox(w, v, n)
        BY <1>2, <3>1
      <4> QED BY <1>13, <4>1, <4>2
    <3>2. CASE w = d /\ v = u
      <4>1. read'[d][u] = k
        BY <1>9, <1>13, <3>2
      <4>2. n \in (k + 1)..Written(u) /\ n # k
        BY <1>3, <1>13, <3>2, <4>1
      <4>3. n \in (read[d][u] + 1)..Written(u)
        BY <1>3, <1>10, <3>2, <4>2
      <4>4. InInbox(d, u, n)' = InInbox(d, u, n)
        BY <1>2, <1>3, <4>2
      <4> QED BY <1>13, <3>2, <4>3, <4>4
    <3> QED BY <3>1, <3>2
  <2>2. ~shouldTerminate[w]
    BY <1>8, <1>13
  <2>3. /\ session[w] => n = Written(v) /\ w \in broadcast[v].to
        /\ \A m \in (n + 1)..Written(v) : ~InInbox(w, v, m)
    BY <1>10, <1>13, <2>1, <2>2
  <2> QED BY <1>2, <2>3
<1> QED BY <1>1, <1>6, <1>11, <1>12, <1>13

(* Receive: a client that stops reads nothing more.                        *)
LEMMA ReceiveKeeps ==
  ASSUME NumbersAreWords, ExchangeInv, NEW d \in User, Receive(d)
  PROVE  ExchangeInv'
<1>1. inbox[d] # <<>>
  BY DEF Receive
<1>2. PICK u, k : IsNext(d, u, k)
  BY <1>1, HeadIsNext
<1>3. /\ Gets(d, u, k) \/ Stops(d)
      /\ ~shouldTerminate[d] /\ inbox' = [inbox EXCEPT ![d] = Tail(@)]
      /\ isLoggedIn' = isLoggedIn /\ sent' = sent /\ session' = session
      /\ broadcast' = broadcast /\ messageId' = messageId /\ reported' = reported
      /\ reports' = reports
  BY <1>2, ReceiveDoes
<1>4. u \in User /\ k \in 1..Written(u) /\ Written(u) \in Nat
  BY <1>2, Sizes DEF IsNext
<1>5. k \in Nat /\ Reads(d, u, k)
  BY <1>3, <1>4 DEF Gets, Stops, Reads
<1>6. read' \in [User -> [User -> Nat]]
  BY <1>4, <1>5, ReadAt
<1>7. inbox' \in [User -> Seq(Message)]
  BY <1>1, <1>2, <1>3, TailInbox
<1>8. shouldTerminate' \in [User -> BOOLEAN]
  <2>1. shouldTerminate \in [User -> BOOLEAN]
    BY DEF ExchangeInv, TypeOK
  <2> QED BY <1>3, <2>1 DEF Gets, Stops
<1>9. /\ DOMAIN eventsMap' = User
      /\ \A w \in User : \A key \in DOMAIN eventsMap'[w] : \A i \in DOMAIN eventsMap'[w][key] :
           IsEvent(eventsMap'[w][key][i])
  <2>1. CASE Gets(d, u, k)
    BY <1>2, <2>1, GetsTypes
  <2>2. CASE Stops(d)
    <3>1. eventsMap' = eventsMap
      BY <2>2 DEF Stops
    <3> QED BY <3>1 DEF ExchangeInv, TypeOK
  <2> QED BY <1>3, <2>1, <2>2
<1>10. TypeOK'
  BY <1>3, <1>6, <1>7, <1>8, <1>9 DEF ExchangeInv, TypeOK
<1>11. ReportsReadBack'
  BY <1>3 DEF ExchangeInv, ReportsReadBack
<1>12. SentAsReported'
  BY <1>3 DEF ExchangeInv, SentAsReported, Served
<1>13. ServedInTurn'
  BY <1>3 DEF ExchangeInv, ServedInTurn, Served, Written
<1>14. BroadcastIsLast'
  BY <1>1, <1>2, <1>3, <1>5, ReceiveBroadcast
<1>15. InboxInOrder'
  BY <1>1, <1>2, <1>3, <1>5, ReceiveInbox
<1>16. NoneSkipped'
  BY <1>2, ReceiveSkips
<1>17. EventsAsRead'
  <2>1. CASE Gets(d, u, k)
    BY <1>2, <1>3, <2>1, GetsEvents
  <2>2. CASE Stops(d)
    <3>1. eventsMap' = eventsMap /\ read' = read
      BY <2>2 DEF Stops
    <3> QED BY <1>3, <3>1, EventsStay
  <2> QED BY <1>3, <2>1, <2>2
<1> QED BY <1>10, <1>11, <1>12, <1>13, <1>14, <1>15, <1>16, <1>17 DEF ExchangeInv

(* Summarise: a user without events is entered, and no event with it.      *)
LEMMA SummariseKeeps ==
  ASSUME ExchangeInv, NEW d \in User, NEW channel, NEW user \in User, Summarise(d, channel, user)
  PROVE  ExchangeInv'
<1>1. /\ isLoggedIn' = isLoggedIn /\ shouldTerminate' = shouldTerminate /\ read' = read
      /\ sent' = sent /\ session' = session /\ broadcast' = broadcast /\ messageId' = messageId
      /\ inbox' = inbox /\ reported' = reported /\ reports' = reports
  BY DEF Summarise, serverVars
<1>2. DOMAIN eventsMap = User
  BY DEF ExchangeInv, TypeOK
<1>3. channel \in Name
  <2>1. PICK key \in DOMAIN eventsMap[d] : key[1] = channel
    BY DEF Summarise
  <2> QED BY <2>1, EventsAtKey
<1>4. PICK old, pair : old = eventsMap[d] /\ pair = <<channel, user>>
  OBVIOUS
<1>5. PICK new : new = [x \in DOMAIN old \cup {pair} |-> EventsOf(d, x[1], x[2])]
  OBVIOUS
<1>6. eventsMap' = [eventsMap EXCEPT ![d] = new]
  BY <1>4, <1>5 DEF Summarise
<1>7. /\ eventsMap'[d] = new /\ DOMAIN eventsMap' = User
      /\ \A w \in User \ {d} : eventsMap'[w] = eventsMap[w]
      /\ DOMAIN new = DOMAIN old \cup {pair}
  BY <1>2, <1>5, <1>6
<1>8. ASSUME NEW key \in DOMAIN new
      PROVE  /\ key[1] \in Name /\ key[2] \in User /\ key = <<key[1], key[2]>>
             /\ new[key] = EventsOf(d, key[1], key[2])
  <2>1. CASE key \in DOMAIN old
    <3>1. key[1] \in Name /\ key[2] \in User /\ key = <<key[1], key[2]>>
      BY <1>4, <2>1, EventsAtKey
    <3> QED BY <1>5, <3>1
  <2>2. CASE key = pair
    <3>1. pair[1] = channel /\ pair[2] = user
      BY <1>4
    <3> QED BY <1>3, <1>4, <1>5, <2>2, <3>1
  <2> QED BY <1>7, <2>1, <2>2
<1>9. ASSUME NEW w \in User, NEW n, NEW v PROVE EventsOf(w, n, v)' = EventsOf(w, n, v)
  <2>1. CASE w # d
    BY <1>7, <2>1 DEF EventsOf
  <2>2. CASE w = d
    <3>1. PICK x : x = <<n, v>>
      OBVIOUS
    <3>2. CASE x \in DOMAIN new
      <4>1. x[1] = n /\ x[2] = v
        BY <3>1
      <4>2. new[x] = EventsOf(d, n, v)
        BY <1>5, <1>7, <3>2, <4>1
      <4> QED BY <1>7, <2>2, <3>1, <3>2, <4>2 DEF EventsOf
    <3>3. CASE x \notin DOMAIN new
      <4>1. x \notin DOMAIN old
        BY <1>7, <3>3
      <4> QED BY <1>4, <1>7, <2>2, <3>1, <3>3, <4>1 DEF EventsOf
    <3> QED BY <3>2, <3>3
  <2> QED BY <2>1, <2>2
<1>10. ASSUME NEW w \in User, NEW key \in DOMAIN eventsMap'[w], NEW i \in DOMAIN eventsMap'[w][key]
       PROVE  IsEvent(eventsMap'[w][key][i])
  <2>1. CASE w # d
    <3>1. eventsMap'[w] = eventsMap[w]
      BY <1>7, <2>1
    <3> QED BY <1>10, <3>1 DEF ExchangeInv, TypeOK
  <2>2. CASE w = d
    <3>1. PICK s : s = new[key]
      OBVIOUS
    <3>2. key \in DOMAIN new /\ i \in DOMAIN s /\ eventsMap'[w][key] = s
      BY <1>7, <1>10, <2>2, <3>1
    <3>3. s = EventsOf(d, key[1], key[2]) /\ key[1] \in Name /\ key[2] \in User
      BY <1>8, <3>1, <3>2
    <3>4. PICK T : /\ \A e \in T : IsEvent(e)
                   /\ s \in Seq(T)
      BY <3>3, HeldEvents
    <3>5. s[i] \in T
      BY <3>2, <3>4
    <3> QED BY <3>2, <3>4, <3>5
  <2> QED BY <2>1, <2>2
<1>11. TypeOK'
  BY <1>1, <1>7, <1>10 DEF ExchangeInv, TypeOK
<1>12. EventsAsRead'
  <2> SUFFICES ASSUME NEW w \in User
               PROVE  (/\ \A key \in DOMAIN eventsMap[w] : key \in Name \X User
                       /\ \A v \in User, n \in Name :
                            EventsOf(w, n, v) = ExpectedOf(w, v, n)[read[w][v]])'
    BY DEF EventsAsRead
  <2>1. /\ \A key \in DOMAIN eventsMap[w] : key \in Name \X User
        /\ \A v \in User, n \in Name : EventsOf(w, n, v) = ExpectedOf(w, v, n)[read[w][v]]
    BY DEF ExchangeInv, EventsAsRead
  <2>2. ASSUME NEW key \in DOMAIN eventsMap'[w] PROVE key \in Name \X User
    <3>1. CASE w # d
      BY <1>7, <2>1, <2>2, <3>1
    <3>2. CASE w = d
      <4>1. key \in DOMAIN new
        BY <1>7, <2>2, <3>2
      <4>2. key[1] \in Name /\ key[2] \in User /\ key = <<key[1], key[2]>>
        BY <1>8, <4>1
      <4> QED BY <4>2
    <3> QED BY <3>1, <3>2
  <2>3. ASSUME NEW v \in User, NEW n \in Name
        PROVE  EventsOf(w, n, v)' = ExpectedOf(w, v, n)'[read'[w][v]]
    <3>1. ExpectedOf(w, v, n)' = ExpectedOf(w, v, n)
      BY <1>1 DEF ExpectedOf
    <3> QED BY <1>1, <1>9, <2>1, <3>1
  <2> QED BY <2>2, <2>3
<1>13. ReportsReadBack'
  BY <1>1 DEF ExchangeInv, ReportsReadBack
<1>14. SentAsReported'
  BY <1>1 DEF ExchangeInv, SentAsReported, Served
<1>15. ServedInTurn'
  BY <1>1 DEF ExchangeInv, ServedInTurn, Served, Written
<1>16. BroadcastIsLast'
  BY <1>1 DEF ExchangeInv, BroadcastIsLast, Written, OnItsWay, InInbox, Fits, MessageOf
<1>17. InboxInOrder'
  <2>1. \A v \in User : Written(v)' >= Written(v) /\ Written(v)' \in Nat
    <3> SUFFICES ASSUME NEW v \in User PROVE Written(v)' >= Written(v) /\ Written(v)' \in Nat
      OBVIOUS
    <3>1. Written(v) \in Nat
      BY Sizes
    <3>2. Written(v)' = Written(v)
      BY <1>1 DEF Written
    <3> QED BY <3>1, <3>2
  <2> QED BY <1>1, <2>1, InboxStays
<1>18. NoneSkipped'
  BY <1>1 DEF ExchangeInv, NoneSkipped, Written, InInbox, Fits
<1> QED BY <1>11, <1>12, <1>13, <1>14, <1>15, <1>16, <1>17, <1>18 DEF ExchangeInv
-----------------------------------------------------------------------------
(* No step breaks the invariant.                                           *)
LEMMA ExchangeStep ==
  ASSUME NumbersAreWords, FilesReadBack, ExchangeInv, [Next]_vars
  PROVE  ExchangeInv'
<1>1. ASSUME NEW u \in User, NEW file \in File, Report(u, file) PROVE ExchangeInv'
  BY <1>1, ReportKeeps
<1>2. ASSUME NEW u \in User, Serve(u) PROVE ExchangeInv'
  BY <1>2, ServeKeeps
<1>3. ASSUME NEW d \in User, Receive(d) PROVE ExchangeInv'
  BY <1>3, ReceiveKeeps
<1>4. ASSUME NEW d \in User, Lose(d) PROVE ExchangeInv'
  BY <1>4, LoseKeeps
<1>5. ASSUME NEW u \in User, NEW d \in User, Deliver(u, d) PROVE ExchangeInv'
  BY <1>5, DeliverKeeps
<1>6. ASSUME NEW u \in User, NEW d \in User, NEW channel, Summarise(d, channel, u) PROVE ExchangeInv'
  BY <1>6, SummariseKeeps
<1>7. CASE UNCHANGED vars
  BY <1>7, LoseKeeps
<1> QED BY <1>1, <1>2, <1>3, <1>4, <1>5, <1>6, <1>7 DEF Next

(* However the reports, the broadcasts and the communication threads       *)
(* interleave, the frames of a user are read, broadcast, queued and stored *)
(* one after the other, and none is skipped.                               *)
THEOREM ExchangeInvariance ==
  ASSUME NumbersAreWords, FilesReadBack
  PROVE  Spec => []ExchangeInv
<1>1. Init => ExchangeInv
  BY ExchangeInit
<1>2. ExchangeInv /\ [Next]_vars => ExchangeInv'
  BY ExchangeStep
<1> QED BY <1>1, <1>2, PTL DEF Spec

(* What a client holds are events, and what is on its way are texts.       *)
THEOREM ExchangeTypeCorrect ==
  ASSUME NumbersAreWords, FilesReadBack
  PROVE  Spec => []TypeOK
<1>1. ExchangeInv => TypeOK
  BY DEF ExchangeInv
<1>2. Spec => []ExchangeInv
  BY ExchangeInvariance
<1> QED BY <1>1, <1>2, PTL

(* The events that a client holds begin those that are meant for it.       *)
LEMMA HeldIsBegin ==
  ASSUME ExchangeInv, NEW d \in User, NEW u \in User, NEW name \in Name
  PROVE  /\ EventsOf(d, name, u) \in Seq({AsReceived(reported[u][i]) : i \in 1..Len(reported[u])})
         /\ Expected(d, u, name) \in Seq({AsReceived(reported[u][i]) : i \in 1..Len(reported[u])})
         /\ IsBegin(EventsOf(d, name, u), Expected(d, u, name))
<1>1. PICK f : f = ExpectedOf(d, u, name)
  OBVIOUS
<1>2. /\ Len(reported[u]) \in Nat /\ Written(u) \in Nat /\ Written(u) <= Len(reported[u])
      /\ read[d][u] \in Nat /\ read[d][u] <= Written(u)
  BY Sizes DEF ExchangeInv, TypeOK, NoneSkipped
<1>3. IsDue(f, reported[u], Joined[u] \cap Joined[d], name)
  BY <1>1, <1>2, ExpectedIs
<1>4. PICK m, n : m = read[d][u] /\ n = Len(reported[u])
  OBVIOUS
<1>5. n \in 0..Len(reported[u]) /\ m \in 0..n /\ m \in 0..Len(reported[u])
  BY <1>2, <1>4
<1>6. IsBegin(f[m], f[n])
  BY <1>2, <1>3, <1>5, DueGrows
<1>7. EventsOf(d, name, u) = f[m]
  BY <1>1, <1>4 DEF ExchangeInv, EventsAsRead
<1>8. Expected(d, u, name) = f[n]
  BY <1>1, <1>4 DEF Expected
<1> QED BY <1>3, <1>5, <1>6, <1>7, <1>8 DEF IsDue

(* Whatever is reported meanwhile, a client has of a user a beginning of   *)
(* what that user has reported to their channels, in that order and with   *)
(* the fields that were reported.                                          *)
THEOREM EventsInOrder ==
  ASSUME NumbersAreWords, FilesReadBack
  PROVE  Spec => []ReceivedInOrder
<1>1. ExchangeInv => ReceivedInOrder
  <2> SUFFICES ASSUME ExchangeInv, NEW d \in User, NEW key \in DOMAIN eventsMap[d]
               PROVE  key[2] \in User /\ IsPrefix(eventsMap[d][key], Expected(d, key[2], key[1]))
    BY DEF ReceivedInOrder
  <2>1. PICK name, u : name = key[1] /\ u = key[2]
    OBVIOUS
  <2>2. name \in Name /\ u \in User /\ eventsMap[d][key] = EventsOf(d, name, u)
    BY <2>1, EventsAtKey
  <2>3. PICK T : T = {AsReceived(reported[u][i]) : i \in 1..Len(reported[u])}
    OBVIOUS
  <2>4. /\ EventsOf(d, name, u) \in Seq(T) /\ Expected(d, u, name) \in Seq(T)
        /\ IsBegin(EventsOf(d, name, u), Expected(d, u, name))
    BY <2>2, <2>3, HeldIsBegin
  <2>5. IsPrefix(EventsOf(d, name, u), Expected(d, u, name))
    BY <2>4, PrefixIs
  <2> QED BY <2>1, <2>2, <2>5
<1>2. Spec => []ExchangeInv
  BY ExchangeInvariance
<1> QED BY <1>1, <1>2, PTL

(* When nothing of u is left on its way to d, d has all of it, unless one  *)
(* of the two sessions has ended or d has stopped.                         *)
THEOREM AllReportsArrive ==
  ASSUME NumbersAreWords, FilesReadBack
  PROVE  Spec => []ReportsArrive
<1>1. ExchangeInv => ReportsArrive
  <2> SUFFICES ASSUME ExchangeInv, NEW d \in User, NEW u \in User,
                      session[u], sent[u] = <<>>, broadcast[u].to = {},
                      session[d], inbox[d] = <<>>, ~shouldTerminate[d],
                      NEW channel \in Joined[d] \cap Joined[u]
               PROVE  Len(EventsOf(d, Kept(channel), u)) = Len(Expected(d, u, Kept(channel)))
    BY DEF ReportsArrive
  <2>1. PICK name : name = Kept(channel)
    OBVIOUS
  <2>2. name \in Name
    BY <2>1 DEF Name, Channel
  <2>3. /\ Len(reported[u]) \in Nat /\ Written(u) \in Nat
        /\ Served(u) + Len(sent[u]) = Len(reported[u]) /\ Served(u) \in Nat
    BY Sizes
  <2>4. Len(sent[u]) = 0
    OBVIOUS
  <2>5. Written(u) = Served(u)
    BY DEF ExchangeInv, ServedInTurn
  <2>6. Written(u) = Len(reported[u])
    BY <2>3, <2>4, <2>5
  <2>7. PICK m, n : m = read[d][u] /\ n = Len(reported[u])
    OBVIOUS
  <2>8. m \in 0..n /\ n \in Nat /\ n <= Len(reported[u])
    BY <2>3, <2>6, <2>7 DEF ExchangeInv, TypeOK, NoneSkipped
  <2>9. \A k : ~InInbox(d, u, k)
    <3>1. DOMAIN inbox[d] = {}
      OBVIOUS
    <3> QED BY <3>1 DEF InInbox
  <2>10. NoneDue(reported[u], Joined[u] \cap Joined[d], name, m, n)
    <3> SUFFICES ASSUME NEW k \in (m + 1)..n, reported[u][k].channel_name \in Joined[u] \cap Joined[d]
                 PROVE  FALSE
      BY DEF NoneDue
    <3>1. Fits(d, u, k)
      BY DEF Fits
    <3>2. k \in (read[d][u] + 1)..Written(u)
      BY <2>6, <2>7
    <3> QED BY <2>9, <3>1, <3>2 DEF ExchangeInv, NoneSkipped
  <2>11. PICK f : f = ExpectedOf(d, u, name)
    OBVIOUS
  <2>12. IsDue(f, reported[u], Joined[u] \cap Joined[d], name)
    BY <2>3, <2>11, ExpectedIs
  <2>13. f[n] = f[m]
    BY <2>3, <2>8, <2>10, <2>12, DueSkips
  <2>14. EventsOf(d, name, u) = f[m]
    BY <2>2, <2>7, <2>11 DEF ExchangeInv, EventsAsRead
  <2>15. Expected(d, u, name) = f[n]
    BY <2>7, <2>11 DEF Expected
  <2> QED BY <2>1, <2>13, <2>14, <2>15
<1>2. Spec => []ExchangeInv
  BY ExchangeInvariance
<1> QED BY <1>1, <1>2, PTL
-----------------------------------------------------------------------------
(* The rank of a name, which is 0 if it is not in the order.               *)
LEMMA RankIsNumber ==
  ASSUME NEW name
  PROVE  Rank(name) \in Nat
<1>1. PICK N \in Nat : N = Len(NameOrder) /\ DOMAIN NameOrder = 1..N
  BY ExchangeAssumption
<1>2. PICK S : S = {0} \cup {i \in DOMAIN NameOrder : NameOrder[i] = name}
  OBVIOUS
<1>3. S \in SUBSET (0..N) /\ 0 \in S
  BY <1>1, <1>2
<1>4. PICK R : R = {N - i : i \in S}
  OBVIOUS
<1>5. R \in SUBSET Nat /\ N \in R
  BY <1>3, <1>4
<1>6. PICK r \in R : \A n \in R : r <= n
  BY <1>5, LeastNumber
<1>7. PICK m \in S : r = N - m
  BY <1>4, <1>6
<1>8. ASSUME NEW n \in S PROVE n <= m
  <2>1. N - m <= N - n
    BY <1>4, <1>6, <1>7
  <2>2. n \in Nat /\ m \in Nat
    BY <1>3
  <2> QED BY <2>1, <2>2
<1>9. S \in SUBSET Nat
  BY <1>3
<1>10. Max(S) = m /\ m \in Nat
  BY <1>8, <1>9, MaxIs
<1> QED BY <1>2, <1>10 DEF Rank

(* What two events are compared by.                                        *)
LEMMA NotBefore ==
  ASSUME NEW a, NEW b, a.date_time \in Int, b.date_time \in Int, ~Before(b, a)
  PROVE  \/ a.date_time < b.date_time
         \/ a.date_time = b.date_time /\ Rank(a.name) <= Rank(b.name)
<1>1. PICK ra \in Nat : ra = Rank(a.name)
  BY RankIsNumber
<1>2. PICK rb \in Nat : rb = Rank(b.name)
  BY RankIsNumber
<1>3. PICK ta \in Int : ta = a.date_time
  OBVIOUS
<1>4. PICK tb \in Int : tb = b.date_time
  OBVIOUS
<1>5. ~(tb < ta) /\ ~(tb = ta /\ rb < ra)
  BY <1>1, <1>2, <1>3, <1>4 DEF Before
<1>6. ta < tb \/ (ta = tb /\ ra <= rb)
  BY <1>5
<1> QED BY <1>1, <1>2, <1>3, <1>4, <1>6

(* Which of the first n events say this.                                   *)
Saying(events, n, key) == {i \in 1..n : Says(events[i], key)}

(* Sorting moves the events that say something; it adds none.              *)
LEMMA CountMoves ==
  ASSUME NEW n \in Nat, NEW p \in Bijection(1..n, 1..n), NEW a, NEW b, NEW key,
         \A i \in 1..n : a[i] = b[p[i]]
  PROVE  Cardinality(Saying(a, n, key)) = Cardinality(Saying(b, n, key))
<1>1. PICK S, T : S = Saying(a, n, key) /\ T = Saying(b, n, key)
  OBVIOUS
<1>2. S = {i \in 1..n : Says(a[i], key)} /\ T = {i \in 1..n : Says(b[i], key)}
  BY <1>1 DEF Saying
<1>3. PICK f : f = [i \in S |-> p[i]]
  OBVIOUS
<1>4. /\ p \in [1..n -> 1..n] /\ \A t \in 1..n : \E i \in 1..n : p[i] = t
      /\ \A i, j \in 1..n : p[i] = p[j] => i = j
  BY DEF Bijection, Injection, Surjection, IsInjective
<1>5. S \subseteq 1..n /\ \A i \in S : f[i] = p[i]
  BY <1>3, <1>2
<1>6. f \in [S -> T]
  <2>1. ASSUME NEW i \in S PROVE p[i] \in T
    BY <1>4, <1>2
  <2> QED BY <1>3, <2>1
<1>7. IsInjective(f)
  BY <1>4, <1>5, <1>6 DEF IsInjective
<1>8. ASSUME NEW t \in T PROVE \E i \in S : f[i] = t
  <2>1. PICK i \in 1..n : p[i] = t
    BY <1>4, <1>2
  <2>2. i \in S
    BY <1>2, <2>1
  <2> QED BY <1>5, <2>1, <2>2
<1>9. f \in Bijection(S, T)
  BY <1>6, <1>7, <1>8 DEF Bijection, Injection, Surjection
<1>10. ExistsBijection(S, T)
  BY <1>9 DEF ExistsBijection
<1>11. IsFiniteSet(1..n)
  BY FS_Interval
<1>12. IsFiniteSet(S)
  BY <1>5, <1>11, FS_Subset
<1>13. Cardinality(T) = Cardinality(S)
  BY <1>10, <1>12, FS_Bijection
<1> QED BY <1>13, <1>1
-----------------------------------------------------------------------------
(* A summary is faithful to the events that it is made of ...              *)
LEMMA SummaryOfEvents ==
  ASSUME NEW n \in Nat, NEW events, DOMAIN events = 1..n, Len(events) = n,
         \A i \in 1..n : events[i].date_time \in Int,
         NEW all, n <= Len(all), Len(all) \in Nat, \A i \in 1..n : all[i] = events[i],
         NEW channel, NEW user, NEW sorted \in Sorted(events)
  PROVE  Faithful(SummaryFile(channel, user, sorted), all)
<1>1. PICK p \in Bijection(1..n, 1..n) :
        /\ sorted = [i \in 1..n |-> events[p[i]]]
        /\ \A i, j \in 1..n : i < j => ~Before(events[p[j]], events[p[i]])
  BY DEF Sorted
<1>2. p \in [1..n -> 1..n]
  BY DEF Bijection, Injection
<1>3. \A i \in 1..n : sorted[i] = all[p[i]]
  BY <1>1, <1>2
<1>4. Len(sorted) = n /\ DOMAIN sorted = 1..n
  <2>1. sorted \in [1..n -> {events[i] : i \in 1..n}]
    BY <1>1, <1>2
  <2>2. PICK T : T = {events[i] : i \in 1..n}
    OBVIOUS
  <2>3. \A m \in Nat : \A t \in [1..m -> T] : Len(t) = m /\ DOMAIN t = 1..m
    OBVIOUS
  <2> QED BY <2>1, <2>2, <2>3
<1>5. PICK s : s = SummaryFile(channel, user, sorted)
  OBVIOUS
<1>6. /\ s.Total = n /\ s.active = CountOf(sorted, <<"active">>)
      /\ s.forces_arrival_at_scene = CountOf(sorted, <<"forces_arrival_at_scene">>)
  BY <1>4, <1>5 DEF SummaryFile
<1>7. PICK r : r = s.reports
  OBVIOUS
<1>8. /\ DOMAIN r = 1..n
      /\ \A i \in 1..n : /\ r[i].city = sorted[i].city /\ r[i].name = sorted[i].name
                         /\ r[i].date = sorted[i].date_time \div 60
                         /\ r[i].summary = Shortened(sorted[i].description)
  BY <1>4, <1>5, <1>7 DEF SummaryFile, epochToDate, Shortened
<1>9. Len(r) = n
  <2>1. r = [i \in 1..n |-> r[i]]
    BY <1>4, <1>5, <1>7, <1>8 DEF SummaryFile
  <2>2. PICK T : T = {r[i] : i \in 1..n}
    OBVIOUS
  <2>3. r \in [1..n -> T]
    BY <2>1, <2>2
  <2>4. \A m \in Nat : \A t \in [1..m -> T] : Len(t) = m
    OBVIOUS
  <2> QED BY <2>3, <2>4
<1>10. ASSUME NEW key PROVE CountOf(sorted, key) = Counted(all, n, key)
  <2>1. CountOf(sorted, key) = Cardinality(Saying(sorted, n, key))
    BY <1>4 DEF CountOf, Saying
  <2>2. @ = Cardinality(Saying(all, n, key))
    BY <1>1, <1>3, CountMoves
  <2> QED BY <2>1, <2>2 DEF Counted, Saying, Says
<1>11. ASSUME NEW i \in 1..n
       PROVE  /\ r[i].city = all[p[i]].city /\ r[i].name = all[p[i]].name
              /\ r[i].date = all[p[i]].date_time \div 60
              /\ r[i].summary = Shortened(all[p[i]].description)
  <2>1. PICK e : e = sorted[i]
    OBVIOUS
  <2>2. e = all[p[i]]
    BY <1>3, <2>1
  <2>3. /\ r[i].city = e.city /\ r[i].name = e.name
        /\ r[i].date = e.date_time \div 60 /\ r[i].summary = Shortened(e.description)
    BY <1>8, <2>1
  <2> QED BY <2>2, <2>3
<1>12. ASSUME NEW i \in 1..n, NEW j \in 1..n, i < j
       PROVE  \/ all[p[i]].date_time < all[p[j]].date_time
              \/ /\ all[p[i]].date_time = all[p[j]].date_time
                 /\ Rank(all[p[i]].name) <= Rank(all[p[j]].name)
  <2>1. PICK a, b : a = all[p[i]] /\ b = all[p[j]]
    OBVIOUS
  <2>2. a = events[p[i]] /\ b = events[p[j]] /\ p[i] \in 1..n /\ p[j] \in 1..n
    BY <1>2, <2>1
  <2>3. a.date_time \in Int /\ b.date_time \in Int /\ ~Before(b, a)
    BY <1>1, <1>12, <2>2
  <2>4. \/ a.date_time < b.date_time
        \/ a.date_time = b.date_time /\ Rank(a.name) <= Rank(b.name)
    BY <2>3, NotBefore
  <2> QED BY <2>1, <2>4
<1>13. n \in 0..Len(all)
  OBVIOUS
<1> HIDE DEF SummaryFile
<1>14. Faithful(s, all)
  BY <1>1, <1>6, <1>7, <1>9, <1>10, <1>11, <1>12, <1>13 DEF Faithful
<1> QED BY <1>5, <1>14

(* What a summary of any user says is true of the first of the reports     *)
(* that are meant for the client that writes it: how many there are, how   *)
(* many of them are active and have forces at the scene, and an entry for  *)
(* each with what was reported, by time and among equal times by name.     *)
THEOREM SummariesFaithful ==
  ASSUME NumbersAreWords, FilesReadBack
  PROVE  Spec => []SummaryFaithful
<1>1. ExchangeInv => SummaryFaithful
  <2> SUFFICES ASSUME ExchangeInv, NEW d \in User, NEW u \in User,
                      NEW channel \in {Kept(c) : c \in Channel},
                      NEW s \in Summaries(d, channel, u)
               PROVE  Faithful(s, Expected(d, u, channel))
    BY DEF SummaryFaithful
  <2>1. PICK events, all : events = EventsOf(d, channel, u) /\ all = Expected(d, u, channel)
    OBVIOUS
  <2>2. PICK sorted \in Sorted(events) : s = SummaryFile(channel, u, sorted)
    BY <2>1 DEF Summaries
  <2>3. PICK T : T = {AsReceived(reported[u][i]) : i \in 1..Len(reported[u])}
    OBVIOUS
  <2>4. channel \in Name
    BY DEF Name
  <2>5. events \in Seq(T) /\ all \in Seq(T) /\ IsBegin(events, all)
    BY <2>1, <2>3, <2>4, HeldIsBegin
  <2>6. ASSUME NEW e \in T PROVE e.date_time \in Int
    <3>1. PICK i \in 1..Len(reported[u]) : e = AsReceived(reported[u][i])
      BY <2>3
    <3>2. i \in DOMAIN reported[u]
      BY Sizes
    <3>3. IsEvent(reported[u][i])
      BY <3>2 DEF ExchangeInv, TypeOK
    <3>4. e.date_time = reported[u][i].date_time
      BY <3>1 DEF AsReceived
    <3> QED BY <3>3, <3>4, EventAssumption DEF IsEvent
  <2>7. PICK n \in Nat : n = Len(events)
    BY <2>5
  <2>8. DOMAIN events = 1..n /\ \A i \in 1..n : events[i] \in T
    BY <2>5, <2>7
  <2>9. n <= Len(all) /\ Len(all) \in Nat /\ \A i \in 1..n : all[i] = events[i]
    BY <2>5, <2>7 DEF IsBegin
  <2>10. \A i \in 1..n : events[i].date_time \in Int
    BY <2>6, <2>8
  <2>11. Faithful(SummaryFile(channel, u, sorted), all)
    BY <2>7, <2>8, <2>9, <2>10, SummaryOfEvents
  <2> QED BY <2>1, <2>2, <2>11
<1>2. Spec => []ExchangeInv
  BY ExchangeInvariance
<1> QED BY <1>1, <1>2, PTL
=============================================================================
