# Verification of the Emergency Alert Platform

TLA+ models of the STOMP server and client in `SPL251-Assignment3-student-template`,
the TLC configurations that check them on small instances, and proofs of the
main properties for every instance, checked by TLAPS.

Paths below are relative to the template directory; `net/` stands for
`server/src/main/java/bgu/spl/net/`.

## 1. Inventory

| Component | Source | State | Operations |
|---|---|---|---|
| Server protocol | `net/impl/stomp/StompMessagingProtocolImpl.java` | `shouldTerminate`, `username`, `messageIdCounter` per connection | `process`: CONNECT, SUBSCRIBE, UNSUBSCRIBE, SEND, DISCONNECT, unknown command; error, message and receipt frames |
| Registry | `net/srv/ConnectionsImpl.java` | concurrent maps: handlers, topics with their subscribers, passcodes, online users, user of a connection | `send` (to one, to a topic), `connect`, `disconnect`, `attemptLogin`, `login`, `isOnline`, `subscribe`, `unsubscribe`, `isSubscribed` |
| Blocking handler | `net/srv/BlockingConnectionHandler.java` | the socket, `connected` | `run`, `close`, `send` |
| Thread-per-client server | `net/srv/BaseServer.java`, `Server.java` | the server socket, one thread per connection | `serve`, `close` |
| Frames and codec | `net/impl/stomp/StompFrame.java`, `StompFrameEncoderDecoder.java` | the bytes of an incomplete frame | `decodeNextByte`, `encode`, header access |
| Actor pool | `net/srv/ActorThreadPool.java` | `acts`, `playingNow`, the executor | `submit`, `complete`, `shutdown` |
| Reactor server | `net/srv/Reactor.java` | selector, `selectorTasks`, pool | `serve`, `handleAccept`, `handleReadWrite`, `updateInterestedOps` |
| Non-blocking handler | `net/srv/NonBlockingConnectionHandler.java` | `writeQueue`, buffers, the channel and its key | `continueRead`, `continueWrite`, `send`, `close` |
| Console client | `client/src/StompClient.cpp` | handler, protocol, `isLoggedIn`, `shouldTerminate`, subscriptions, events; a mutex and a condition variable | `login`, `join`, `exit`, `report`, `summary`, `logout` on one thread, the answers of the server on another |
| Client frames, socket | `client/src/StompProtocol.cpp`, `ConnectionHandler.cpp` | counters, a socket | building frames, blocking reads and writes |
| Events | `client/src/event.cpp` | - | parsing a report file and a message body, the summary |

How they interact. In the thread-per-client server every connection has a thread
that blocks in `read`, decodes a frame and calls `process` on its own protocol
object. All protocol objects share one `ConnectionsImpl`, and a broadcast writes
to the sockets of other connections from the author's thread. In the reactor
server one selector thread reads bytes and submits them to the actor pool, with
the handler as the actor; a pool thread decodes and calls `process`; `send`
appends to a write queue which the selector thread drains.
The client has a thread that reads commands and one that reads frames; they share
the local variables of `main`, some under a mutex and some without. Every login
makes a new `ConnectionHandler`, which is deleted at logout.

What is hard here:

* **Interleavings without locks.** `ConnectionsImpl` uses one concurrent map per
  relation and no lock over several of them. `attemptLogin` tests, then puts;
  `connect` tests `isOnline`, then logs in; `disconnect` and `unsubscribe` walk
  over maps that other threads change.
* **Partial failure.** A write to one subscriber fails in the middle of a
  broadcast; a client dies without DISCONNECT; a handler throws an unchecked
  exception in the middle of `process`.
* **Order.** The handler is removed before the receipt of DISCONNECT is sent;
  the tasks of an actor move between two queues; a message identity is taken
  before the traversal that delivers it.
* **Termination.** A connection that must end has to get its socket closed, a
  task that is put aside has to be run, and the client joins a thread that may wait for
  what only the joining thread can do.
* **Shared variables of the client.** A handler is replaced or deleted while the other
  thread reads from it; the answer of one connection is taken for that of another.
* **Text.** An event is written into a frame line by line and parsed out of it at colons and
  line ends, which values may contain; the parser throws, on the thread that reads frames.

`PROJECT.json` lists each of these at its line, with the properties that cover it.

What makes each component correct:

* protocol and registry: the login maps agree with the protocol object; a
  receipt is only written for what is done and still is so; an error ends the
  dialogue; a connection that logged out is a subscriber of nothing; subscribers
  that stay are served, each in order, once, under an id they chose;
* thread-per-client server: calls of `process` come to an end, and a thread that
  is told to terminate closes its socket;
* actor pool: for each actor it is a serial executor, and it forgets no task;
* reactor: the selector thread never ends and always returns to `select`; frames
  queued for a connection are written whole, in order, and none is left behind;
  every request is read; a session that has ended processes nothing more;
* client: no command blocks before the join of the communication thread; what it takes
  for its session is one that the server has confirmed; UNSUBSCRIBE names a
  subscription of its connection; no event of an earlier session is summarised;
* codec and events: each client has the events of each user in order, and a summary says of
  them what was reported, up to what the text format cannot carry.

## 2. Modules and how they correspond to the code

    StompFrames
      ├ BlockingConnectionHandler
      │   └ ConnectionsImpl
      │       └ StompMessagingProtocolImpl
      │           └ ThreadPerClient
      │               └ ThreadPerClientProperties   (INSTANCE StompSession)
      │                   └ ThreadPerClientInvariant
      │                       ├ BroadcastInvariant ── MCThreadPerClient (with StompProtocol)
      │                       └ ThreadPerClient_proofs
      │                           └ ThreadPerClientSession_proofs
      │                               └ Broadcast_proofs (with BroadcastInvariant)
      └ StompProtocol
          └ ConnectionHandler   (INSTANCE StompSession)
              └ StompClient
                  └ StompClientProperties
                      └ StompClientInvariant ── MCStompClient
                          └ StompClient_proofs

    Event
      └ StompFrameEncoderDecoder
          ├ EventProperties
          │   └ Codec_proofs
          └ Exchange
              └ ExchangeProperties (with EventProperties)
                  └ ExchangeInvariant ── MCExchange
                      └ Exchange_proofs (with Codec_proofs)

    ActorThreadPool
      └ ActorThreadPoolProperties ── MCActorThreadPool
          │  (INSTANCE SerialExecutor)
          └ ActorThreadPool_proofs

    NonBlockingConnectionHandler
      └ Reactor   (INSTANCE SerialExecutor)
          └ ReactorProperties
              └ ReactorInvariant ── MCReactor
                  └ Reactor_proofs

`StompSession` joins server and client: `ThreadPerClient` is proved to implement it, and
`StompClient` runs against it. A module `...Invariant` has the facts that make an inductive
invariant, a module `..._proofs` the theorems.

**StompFrames** abstracts a frame to the headers the handlers test. `NONE` is
Java's `null`. Whether the header that is only tested for presence
(`accept-version` with `host`, `body`, `receipt`) is there is a Boolean.

**BlockingConnectionHandler** has the socket, the `connected` flag and the
history `out` of the frames written. A write either puts the whole frame
on the socket or throws, in which case `connected` is cleared (and the socket is
*not* closed): lines 56-67. Connections in `Breakable` may fail at any time.

**ConnectionsImpl** has one operator per operation on one concurrent map. A method
that does several operations is not one operator: the protocol module puts the
steps of other threads between them.

**StompMessagingProtocolImpl** has the program counter of each connection's thread
inside `process`; an action ends where the code next touches a map or a socket
that other threads use. `forEach` over a `ConcurrentHashMap` is weakly
consistent: an entry that is there throughout is visited, one that is put
meanwhile may be, in any order. `present` and `seen` express exactly that. An
exception nobody catches (`NullPointerException` in `unsubscribe`,
`attemptLogin`, `disconnect`) leads to the label `crash`, and from there to the
end of the thread.

**ThreadPerClient** adds `serve` (Accept) and `run` (Read, Return, StopReading,
Unwind). The client side is any client: in every state in which the thread
reads, any frame of `ClientFrames` may be the next.

**ActorThreadPool** has the monitor of each actor (`synchronized (act)`), the set
`playingNow`, the tasks put aside and the executor's queue. `pendingRunnablesOf`
creates a missing queue under the monitor of its actor, so a missing queue is an
empty one.

**SerialExecutor** is what the pool promises: per actor a queue of waiting tasks and
one that runs.

**NonBlockingConnectionHandler** has the channel of a client, its selection key
with its interest set, the write queue (and whether its first frame is partly written), and
what the client does: send, close its end, crash. The histories `sent` and `written`
are the frames queued and the frames written.

**Reactor** has the selector thread, with a label `spc` for each point of the loop
between which a pool thread can make a difference (the tests `isValid`,
`isReadable`, `isWritable`, each round of `continueWrite`'s loop, the second
`isEmpty`, the change of the interest set), and the pool thread of each connection,
with a label `ppc[c]` in its read task. The pool is `SerialExecutor`, which
`PoolIsSerial` shows `ActorThreadPool` to implement: the read tasks of a
handler run one at a time and in order. The start task has another actor (the protocol), so
it is a set of its own. An unchecked exception on the selector thread leaves `serve`: the label
`dead`.

**StompSession** is what the server promises on one connection: requests are taken
one at a time, each is accepted with its answer (CONNECTED, RECEIPT, or none if
none is asked for), refused with ERROR as the last one, or ends the connection;
MESSAGE may come at any time, and a write may fail. Of what the code does not do it
promises nothing: there is no receipt of DISCONNECT.

**StompProtocol** (client) has the frames the console client builds, as the server
decodes them. The runs of the server use the same definitions, so that they are
sent what the client sends, next to frames the client never builds.

**ConnectionHandler** (client) has the socket of each login. `getLine` returns a frame,
waits, or returns false when the connection is closed and all is read; `sendLine`
may fail only once it is closed. The frames written are read by the session of
the server. A handler whose destructor has run is in `deleted`.

**StompClient** has the main thread (label `mpc`, one action per command, more where the
command touches what the other thread uses) and the communication thread (label
`cpc`). The wait on `cv` is split into the test of the predicate, the step that
unlocks and blocks, and the way back over the mutex, and it may end spuriously.
`eventsMap` keeps of each event only the connection it was read from. What is undefined
behaviour, a call on a deleted handler or two threads in one map, does its
work, fails, or ends the program (`crashed`); an exception that nobody
catches (`stoi` of the port) and a null handler end it. `inputs` goes through
`Input`, which names what the user may type first, second and so on.

**Event** has `split_str`, the parser of a message body and of a report file, and the text
that `report` writes. A text is a sequence of tokens: the characters the code looks
for (colon, space, line end) and words of at least two characters. What `json::parse`
returns is a record in which a field may be missing. The loop of `getline` is the recursive
function of `Parts`, over the tokens of the text; `Details` and `LastValue` say by the places
of lines what the loop of the constructor says by the order of its assignments. `EventProperties` says what is
left of a value (`Kept`: its first line without leading spaces, and nothing if there is a colon in
it) and of an event (`AsReceived`).

**StompFrameEncoderDecoder** has `decode` and `toString` of the server, `createSendFrame` of
the client and the body the server puts together in `sendMessageFrame`, on such texts.

**Exchange** takes events from the `report` of one user to the summaries of all:
SEND frames, the broadcast with one write per subscriber, the
MESSAGE frames in the sockets, the parser on the communication thread, `eventsMap` by
channel and user, the sort and the counts of `summary`. Users stay logged in and keep
their channels; sessions end by a refused SEND, and a client by an event it cannot parse.

Abstractions a reader should know of:

* The bytes of a frame are written in one step. `send` of the blocking handler
  takes no lock of its own: that two threads do not mix the bytes of their frames is
  left to the JDK, which writes an array to a socket under a lock.
* A traversal that has already fetched an entry which another thread then removes
  is modelled up to the moment the entry is fetched (`VisitSubscriber`),
  after which the frame is sent to a subscriber that has left (`Deliver`). A
  traversal that follows a removed node of a bin to further removed nodes is not.
* The executor's work queue is a FIFO queue, as that of `newFixedThreadPool`.
* Submitters of the pool are any number of threads; the reactor has one.
* In `Reactor`, what `process` does to the registry is cut down to one topic and to
  what decides which frames are queued for whom, and whether it calls
  `disconnect` or throws; a broadcast goes to those who are subscribers when it
  begins. The interleavings inside the registry are those of the
  thread-per-client modules.
* A channel that is closed under an open key, or a key that is cancelled over an
  open channel, exists only inside `close` and is not a state of its own. A read
  takes all that has arrived as whole requests (no 8k limit, no pool of
  buffers); a write takes the frame, its first part, or throws.
* `shouldTerminate` is a plain field: the selector thread may read FALSE after a
  pool thread has written TRUE.
* In `StompClient` a frame arrives as a whole, and main's writes to plain variables are
  seen at once. A command reads `isLoggedIn` and acts on it in one step unless it
  takes the mutex or touches the handler or `eventsMap` later.
* In `Exchange` the sort may return any order that its comparison allows; times are
  rounded to the minute and not formatted; a description that is too long is cut as `Cut` says.
* `continueWrite` peeks, writes and removes in one step of `WriteAll`. Pool threads only add at the other end of
  the queue, and the selector thread is the only one to take from it, so that no step of theirs between the
  three calls could make a difference.
* Class-cast and memory errors, and the contents of log lines, are left out.

## 3. What is checked

Each property names its code in the comment above it. The runs with
`expect: pass`:

| Run | What may happen in it | Properties |
|---|---|---|
| `login` | 2 connections, 2 users, 2 passcodes, 2 frames each; every CONNECT or DISCONNECT that is accepted, refused or throws; one reports and leaves a topic, the link of the other may fail; under fairness | `TypeOK`, `HandlerFound`, `AnsweredIsOnline`, `SessionInv`, `SessionServed`, `ProcessReturns`, `TerminationCloses` |
| `topics` | 2 connections, 2 topics; subscriptions, double and missing ones, sends without body or subscription, unknown commands, logouts | `ReceiptMeansDone`, `LoggedOutIsGone`, `ErrorIsFinal`, `BroadcastInv` |
| `broadcast` | 3 connections on one topic: a reporter, one that logs out and whose link may fail, one that leaves and comes back | `OwnSubscriptionId`, `InOrderOnce`, `ServedByReceipt` |
| `pool` | 2 actors, 2 submitters, 2 workers, 4 tasks, under fairness | `OneTaskPerActor`, `NothingStranded`, `PoolInv`, `SerialSpec`, `SubmittedRuns` |
| `reactor` | 2 connections: one broadcasts to both, the other joins, is refused or logs out | `TypeOK`, `StartedFirst`, `WholeInOrder`, `QueuedIsPending`, `TasksAreSeen`, `ReactorInv` |
| `reactor_live` | 1 connection with any two requests that hangs up or crashes, under fairness | `QueuesDrain`, `RequestsRead`, `HangUpCloses`, `TerminationCloses` |
| `client` | 2 connections, one of which may fail; 4 lines of input with every command, one message of others; under fairness | `TypeOK`, `EventsOfThisSession`, `ExitMatchesJoin`, `LoggedInIsAnswered`, `ClientInv`, `FramesRead`, `CommandReturns` |
| `exchange` | 2 users, 3 channels (one with a colon in its name, one of one user), 6 report files, 2 reports | `ExchangeInv`, `ReceivedInOrder`, `SummaryFaithful`, `ReportsArrive` |

`SessionInv` (which contains `IInv`), `BroadcastInv` (which contains `SessionInv`),
`PoolInv`, `ReactorInv`, `ClientInv` and `ExchangeInv` (with the `TypeOK` of its module) are the
inductive invariants of section 4;
checking them first is how they were found. (`BroadcastInv` is in the cfg of `topics`, the
smaller instance.) `SessionServed` and `SerialSpec` are refinements: the
abstract specification under a mapping of its variables.

**Bounds.** `MaxFrames` (frames per client), `Task` (tasks ever submitted), `Input`,
`MaxEvents` and `MaxMessages` (lines typed, events of a report, messages to the client) and
`MaxReports` are the only bounds on runs; all other constants are sets. Two connections are enough
for every race between two threads over one map, and each of the two may be
anywhere in `process`. The third one in `broadcast` separates the author, a
subscriber that stays and one that goes. Two frames per client reach a login followed by a
logout or by a second login; three reach subscribe, leave, subscribe again during
another's broadcast. Two topics are needed because `unsubscribe` and `disconnect`
walk over all topics. In the pool, four tasks let an actor run one, have two aside
and get a further one while a worker completes. No run uses symmetry.

In the reactor the races are between the selector thread and a pool thread over
one connection, and between two pool threads that queue frames for one connection
while the selector thread drains it: two connections and a broadcast have both.
One connection and two requests are enough for the liveness run, where
the second request, or the answer to the first, meets the selector thread in any state of
its round.

The client needs two connections for what goes wrong between two logins, and four
lines to log in, do something, do anything, and see what is left of it; the first line
is a login and the second a join, a login or nothing, since all else is refused
then. One connection whose network may fail and one whose network does not separate the two.
`SubId` has an id for each line, since `subscriptionId` counts the joins. In `exchange`, two reports let events of two users, or two
files of one, be on their way together; the files have two events in
the order that the sort reverses, two at one time, values with colons and line ends, one
that no client can parse, and one without a date; the descriptions include one that a summary
cuts, the details both kinds that it counts. What d is to find of u (`Expected`) are the
reports of u to channels that both have joined.

Deadlock is not checked: a client may stop sending, and after `MaxFrames` frames
or the last task every thread waits.

**Fairness.** `login` assumes `WF_vars(ThreadStep(c))`: a thread that can take a
step outside `read` takes one, since the JVM schedules runnable threads. Nothing is
assumed of accepting, of clients or of failures. Writes are among the steps,
so the assumption includes that clients read their sockets. The pool's
`FairSpec` assumes weak fairness of every submitter inside `submit` and of every
worker, that is, tasks come to their end. A thread waiting for a monitor
is only fairly treated if it gets it in the end; with finitely many tasks
the monitor is free from some time on, so weak fairness says no more than that
threads run.

In `reactor_live` the selector thread and the pool threads run on; nothing
is assumed of clients. `wakeup` and the ready keys decide whether `select`
returns. The pool thread of each connection is treated fairly, which a pool of any size
does as long as tasks end, and a read task never waits. Its first three
properties hold until the selector thread is lost (`SelectorLost`): dead, or in
the endless loop of `continueWrite`.

In `client` the two threads and the server run on. The mutex is the reason for strong fairness of
the main thread: the communication thread may be woken spuriously again and again and take
it each time, and a lock that is free again and again is had in the end. Weak fairness
of the communication thread and of each session of the server is enough,
since main holds the mutex for finitely many steps. The user need not
type, and no message need come. `exchange` has safety properties only:
`ReportsArrive` says what holds when nothing is on its way any more.

**Mutants.** Every property of every passing run is checked against a plausible bug:
an operator that stands before the original, says in its comment what is
wrong with it, and with which the run fails (list in `PROJECT.json`).

### Disagreements found

Four runs have `expect: violation`; each states what the repository says of itself.

| Run | What the code does |
|---|---|
| `logout_frees_user` | `disconnect` looks for the connection id among the *values* of `idToUsername`: a user that logged out stays online and can never log in again, although the client says "You can log in again." |
| `one_session` | two connections pass the `isOnline` test before either logs in: one user, two sessions |
| `reactor_cancelled` | a pool thread asks the selector thread to set OP_WRITE for the ERROR it has queued, then closes the channel and cancels the key: `interestOps` throws out of `serve`, and one refused request ends the server |
| `client_logout` | `logout` sets the handler to null, then joins the communication thread, which waits for a handler that only the joining thread could create: the client says "You can log in again." and takes no further command |

The repository also disagrees with itself about the order of a summary. `src/events1_out.txt` is the summary of
`src/events1.json`, and it has the reports in the order of the file: Report_1 of 23/12/2024 13:40 (line 12),
Report_2 of 31/12/2024 21:40 (line 18), Report_3 of 23/12/2024 07:45 (line 24). The code sorts
them, "Sort events by date_time, then by event_name" (`StompClient.cpp:251`), so its Report_1 is the sample's
Report_3, and its Report_7 the sample's Report_2. `SummaryFaithful` states the order of the code
and its comment; by the sample it would be false, and already so for the first file of the
run `exchange`, whose later event comes first. That no sort the code may use gives the sample's order is
the assumption `SampleIsUnsorted` of `MCExchange`, which TLC evaluates in that run on the names and dates of the
sample's first three reports. There is no `violation` run for it: the sample is the one place that says so, and a
run would show what the assumption shows. In what else the model has, the two agree: the total, both counts, and
the description cut after 27 characters. They differ in wording, which is not modelled: `States:`
for `Stats:`, `forces_arrival_at_scene` for `forces arrival at scene`, blank lines, and
dates with two digits of the year and no seconds.

Further behaviours of the code that the models have and no run is about:

* the handler is removed and closed before the receipt of DISCONNECT is sent, so no logout
  is acknowledged, although the client asks for a receipt;
* in the reactor, a channel that is closed while `continueWrite` runs, or whose client has
  crashed, throws at every write; the loop catches, closes and goes on for ever;
* two first logins of one user race between `containsKey` and `put` in
  `attemptLogin`: the passcode registered first is replaced;
* `unsubscribe` throws for a connection that is not in every topic: in the
  thread-per-client server its thread ends without `shouldTerminate`, in the
  reactor the rest of the buffer is dropped and the connection lives on;
* in the reactor, `close` at the end of the stream leaves the handler in
  `ConnectionsImpl`: the next frame for it makes the selector thread use a key that is
  cancelled or null, and ends it as in `reactor_cancelled`;
* in the reactor, requests read into a second task are processed after the first task has
  ended the session, and an ERROR may be queued and never written.

and of the client:

* after a lost or refused connection the communication thread has ended: a later login is
  sent and its CONNECTED never read, so that `isLoggedIn` stays false;
* `exit` does not close the socket: the last join waits for as long as `getLine` does,
  or for ever if its notification falls between the predicate and the wait;
* a login that fails while the CONNECTED of an earlier one is on its way leaves
  `isLoggedIn` set and the handler null: the next command uses a null pointer;
* a second `exit` of a channel sends its UNSUBSCRIBE again (the entry stays in
  `subscriptionMap`), at which the server throws;
* a login without a number after the colon throws out of `main` while the other thread is
  joinable, which ends the program;
* a value with a colon arrives empty, and the events of a channel with one are filed
  under the empty name, so that no summary of the channel has them; a description of several lines can set other fields, and
  one with a line `date time:` that is not a number ends every subscriber's client;
* the handler and the protocol object are leaked when another login replaces them.

The properties of the passing runs are stated so that they hold in spite of these: for
example `AnsweredIsOnline` says what does survive the login races.

## 4. What is proved

Everything below holds for every value of the constants: any number of connections,
users, topics, frames per client and failing links; of actors, threads and tasks; of lines
typed and messages received. The assumptions are those named in the modules:

| Assumption | Says |
|---|---|
| `NoneAssumption`, `NoneIsNoFrame` | null is no value |
| `BreakableAssumption`, `HandlerAssumption` | the links that may fail are links; null is no handler |
| `FramesAssumption`, `RequestsAssumption` | what a client may send are frames, and a number bounds them |
| `ClientAssumption` | the lines that may be typed and the bounds on events and messages are such |
| `PoolAssumption` | submitters are not workers, `NONE` is neither thread nor task |
| `EventAssumption`, `HeaderAssumption` | the delimiters, the keys of a report and of a frame are tokens; dates are integers |
| `ExchangeAssumption` | users and channels are texts, files are what `json::parse` returns |

The theorems about the exchange of events have two further hypotheses, which stand in their statements
and are explained there: `NumbersAreWords` and `FilesReadBack`.

None of the safety properties is inductive, because each is about what one thread did
before, while others were changing the same state. Every proof therefore has an
inductive invariant that says what is known at each label of a thread, and two halves: a step
of a thread keeps what is said of itself, one case per action; and it leaves alone
what is said of the others.

### Registry and protocol: `ThreadPerClient_proofs`

| Theorem | Establishes |
|---|---|
| `Invariance` | `Spec => []IInv` |
| `TypeCorrect` | `TypeOK` |
| `HandlerAlwaysFound` | `HandlerFound` |
| `GoneFromTopics` | `LoggedOutIsGone` |
| `ReceiptsAreTrue` | `ReceiptMeansDone` |
| `ErrorsAreFinal` | `ErrorIsFinal` |
| `SessionsAgree` | `AnsweredIsOnline` |

`IInv` adds, for each connection, what is known at every label:
which command brought the thread there (`CommandAt`), until when it is active
(`ActiveUntilGone`), that its entries are in existing topics (`EntriesOf`), that a
traversal that removes entries still has ahead of it those that are left
(`Ahead`), that an author stays a subscriber (`AuthorSubscribed`), what a receipt will
say (`Done`), where a thread is after its ERROR (`ErrorSent`) and how much of
a session is built (`SessionBuilt`). A step of another thread keeps them, because it only
changes entries of its own connection, puts topics, passcodes and online marks that are never
removed, and writes nothing but MESSAGE frames to the sockets of others.

### The server implements a session: `ThreadPerClientSession_proofs`

| Theorem | Establishes |
|---|---|
| `SessionInvariance` | `Spec => []SessionInv` |
| `SessionsServed` | `SessionServed`: for each connection, `Spec` implements `StompSession` |

`SessionInv` adds that a socket is open while its connection is active (`SocketOf`), and that
a thread that is told to terminate has nothing left to do but to leave (`Leaving`): so a
request that is answered is answered on an open link, and nothing is taken after the last
answer. The state of the abstract session is computed from the label, the frame
and the socket; each action of the thread then is `Accept`, `Take`, an answer, an end, or a stutter,
and a step of another thread is a MESSAGE, a broken link, or a stutter. The theorems about the
client are proved against the same `StompSession`: they hold of the client with this server.

### Broadcasts: `Broadcast_proofs`

| Theorem | Establishes |
|---|---|
| `BroadcastInvariance` | `Spec => []BroadcastInv` |
| `IdsAreOwn` | `OwnSubscriptionId` |
| `MessagesInOrder` | `InOrderOnce` |
| `NobodyLeftOut` | `ServedByReceipt` |

All copies of a message are one `StompFrame` object whose `subscription` header is
overwritten between writes, and subscribers come and go during the traversal. `BroadcastInv`
adds to `SessionInv`:

* `IdsChosen`: an id passes from a frame of its client to the entry of the topic, from there to
  the header, and from there into the socket, and at each of these places it is one that
  this client chose for this topic;
* `Numbered`: what a socket has from an author bears ids the author has taken, and increasing ones.
  The only exception is a subscriber that leaves and comes back during the traversal,
  which may be met twice;
* `VisitedOnce`: an author that is about to write to a subscriber, or has written, will not meet it again:
  the traversal has passed it, or it had been removed while the entry was in the author's
  hands, in which case it has logged out and a terminated connection never subscribes again;
* `AcceptedBefore` and `Reached`: who was there when the traversal began and still can be reached
  has the latest message once the traversal has passed it, and hence at the RECEIPT.

`PairInv` is about an author and a subscriber. The proof that it is kept goes by who moves: the author (one
lemma per action of the broadcast), the subscriber, or a third connection, whose
steps change neither the traversal nor what the socket holds from this author.

### Actor pool: `ActorThreadPool_proofs`

| Theorem | Establishes |
|---|---|
| `PoolInvariance` | `Spec => []PoolInv` |
| `MutualExclusion` | `OneTaskPerActor` |
| `NoTaskStranded` | `NothingStranded` |
| `PoolIsSerial` | `Spec => SerialSpec`: the pool implements `SerialExecutor` |

`PoolInv` says that monitors exclude (`MonitorHeld`), that what a thread has read
in its block stays true until the block ends (`ReadStillTrue`), and that an actor is in
`playingNow` exactly while one job of it is in the executor, queued or worked
on, and never two (`OneJob`). For the refinement, the waiting tasks of an actor are its
queued job followed by its tasks put aside; `MappedState` removes the CHOOSE from
that, and each action then is an `Enqueue`, a `Begin`, a `Finish` or, when a
task moves from the one queue to the other, a stutter.

### Reactor: `Reactor_proofs`

| Theorem | Establishes |
|---|---|
| `ReactorInvariance` | `Spec => []ReactorInv` |
| `ReactorTypeCorrect` | `TypeOK` |
| `ProtocolStartedFirst` | `StartedFirst` |
| `FramesWholeInOrder` | `WholeInOrder` |
| `NoFrameForgotten` | `QueuedIsPending` |
| `NoWakeupLost` | `TasksAreSeen` |

The selector thread tests a queue for emptiness, then sets the interest set to OP_READ, and a
pool thread may queue a frame between the two. `QueuedSinceTest` says why that frame is not lost: it comes with a
task that will set OP_WRITE after the change. `TasksSignalled` says why that task is
not slept over: only `select` takes the signal of `wakeup`, and the tasks are run after
it, before the next `select`. `NothingBefore` and `NothingRead` say that a connection that is not accepted has
nothing anywhere, and that nothing is read, nor processed, until its protocol is started;
`PartIsKept` that a frame that is partly written is still the first of the queue.

### Client: `StompClient_proofs`

| Theorem | Establishes |
|---|---|
| `ClientInvariance` | `Spec => []ClientInv` |
| `ClientTypeCorrect` | `TypeOK` |
| `NoEventsLeft` | `EventsOfThisSession` |
| `ExitsAreMatched` | `ExitMatchesJoin` |
| `LoggedInMeansAnswered` | `LoggedInIsAnswered` |

The two threads share `isLoggedIn`, the handler and the maps without a common lock, and the properties hold for reasons
that no single line of the code shows:

* `OneConnect`: a connection carries one CONNECT and hence one CONNECTED;
* `PointerInv`: where the pointer points while login and logout change it;
* `LoginInv`: `isLoggedIn` is set at an answer and cleared at a logout, and an old answer may be acted
  upon after a logout. But an answer still to be acted upon while the user is logged in
  belongs to a second session, so that the logout of the one leaves the other;
* `MapInv`: a subscription that is left when the user is not logged in means that the communication
  thread has ended; then nobody sets `isLoggedIn` before a logout has cleared the map;
* `EventInv`: an event of the old session that is stored after logout has cleared the map
  leaves the communication thread waiting for a handler, so that the logout does not
  return to the prompt (the disagreement `client_logout`), and nobody sees that event;
* `IdInv` bounds the ids by the lines typed.

### Codec: `Codec_proofs`

| Theorem | Establishes |
|---|---|
| `FrameIsCut` | a text of headers and body is cut between them, for any body |
| `ReportArrivesWhole` | the topic and the body that `decode` finds in the SEND of `report` are those that were written into it |
| `MessageArrivesWhole` | the body that the client cuts out of a MESSAGE is the one that the server put into it |
| `PlainEventArrives` | the constructor of `Event` does not throw and gives back the event, as `AsReceived` says |

A description may have blank lines, and the code looks for `"\n\n"` to find the body: headers
without a blank line that do not end in a line break are followed by the first one (`FirstBlankLine`).
The second and third theorem need that the name of the channel has no line break: a name is a word of the
command line in `join`, but in `report` it comes from the file.

`PlainEventArrives` is about `serializedEvent`, the lines the server puts before it, and the parser. Its
hypothesis `PlainEvent` is what the format needs: no value has a colon after its first line, no
key of a detail has a colon or a line break, a user name has neither and no leading space. It is
needed. A description of two lines, the second of them `city: haifa`, sets the city of the event at every
receiver, and the theorem is false of it. Colons in the first line of a value are
allowed; the value is lost then, as `Kept` says.

The argument: what `getline` makes of a text and one more token (`PartsAppend`), hence of a
text and a field (`FieldLine`: one line more with a colon, however many lines the value has), hence of
the heading and any number of details (`FieldLines`); so `BodyLines` lists the lines that the
constructor looks at, `BodyRead` their keys and values, and the last line with each key is the only one. An
event may have a detail whose key is a field of its own, such as `city`: it is written with
two spaces before it, so its line is not taken for that field.

The conversions are recursive functions over the tokens of a text. That such a function has the values
its definition says (`Recursion`, `Agreement`) is proved by induction in the form of the
least-number principle (`LeastNumber`), or over a set that is closed under appending
(`SequenceInduction`): both are statements about sets, so that no induction rule with an operator
as its parameter is needed.

### Exchange of events: `Exchange_proofs`

| Theorem | Establishes |
|---|---|
| `ExchangeInvariance` | `Spec => []ExchangeInv` |
| `ExchangeTypeCorrect` | `TypeOK` of `ExchangeProperties` |
| `EventsInOrder` | `ReceivedInOrder` |
| `SummariesFaithful` | `SummaryFaithful` |
| `AllReportsArrive` | `ReportsArrive` |
| `PlainFilesReadBack` | plain files satisfy `FilesReadBack` |

They hold for any number of users, channels, files and reports, and of events in a file, under two hypotheses:

* `NumbersAreWords`: what `to_string` makes of a date or a message-id is one token, no delimiter, and
  another one for each number (`ToString` has no definition the prover could use);
* `FilesReadBack`: the channel of a file has no line break, and every event of it
  either stops its receivers or arrives as `AsReceived` says. By `PlainFilesReadBack` all files of
  plain events satisfy it; the files of the run `exchange` do too and include others (TLC evaluates it as
  `FilesAssumption`). It is weaker than `PlainFiles` because the properties
  hold as well for events at which a receiver stops.

Without the second the properties are false of the code: see the lines about values with a colon in section 3.

`ExchangeInv` follows each report of a user by its number, which becomes its message-id. The server has read the first
`Served(u)`, and all but a refused one have an id (`ServedInTurn`); the frames the server has not read are the
others (`SentAsReported`). A message of the broadcast or of an inbox is one that
its receiver is to have and has not read, with the text that report was written into (`BroadcastIsLast`,
`InboxInOrder`). `NoneSkipped` is what makes the order: if a report for d is neither read nor in the inbox of
d, it is the one being sent, or the session of d has ended, and no later one of the same user
is in the inbox. `EventsAsRead` then says that what d has stored of u is what is due of the first
`read[d][u]` reports. The codec theorems enter in two places: `Serve` finds in a frame what `Report` wrote,
and `Receive` in a message the event that was reported.

`SummaryFaithful` is about the whole summary: the total, the counts of `active` and of
`forces_arrival_at_scene`, and city, name, date and (cut) description of each report, in the order of the
code's comparison. For it the events of d are the first of those expected (`HeldIsBegin`), and the
sort is a bijection of them: it moves the events that say `true` of a detail and adds none (`CountMoves`), and
what it may not have before another is not later, nor at the same time with a greater name (`NotBefore`).

### Only model-checked

The liveness properties: `ProcessReturns`, `TerminationCloses`, `SubmittedRuns`, `QueuesDrain`,
`RequestsRead`, `HangUpCloses`, `FramesRead`, `CommandReturns`. Liveness under fairness is out of
the prover's reach. Every safety property and every refinement that a passing run checks is also a theorem.

## 5. Plan

Modelled, checked and proved but for liveness: the thread-per-client server with protocol and
registry, and its refinement of a session; the actor pool; the reactor with the
non-blocking handler; the client; the exchange of events. What could follow:

1. the bytes of frames that arrive in pieces (`decodeNextByte`, the reads of the reactor);
2. joins and exits of channels while events are on their way, which `Exchange` keeps fixed.

## 6. Not modelled

* `echoClient.cpp`, a sample of the course template; the API interfaces, which have no
  code; build files. Of the sample data, `events1.json` and `events1_out.txt` are compared with the
  code in section 3.
* `client/include/json.hpp`, the vendored nlohmann library: it has 24640 of the 25502 lines of C++,
  and the code uses one function of it, `json::parse`, which is modelled by what it
  returns (`parseEventsFile`). Of the lines the project itself has, the map covers nearly all
  that change state.
* `StompServer.java`, which reads the command line; `BaseServer.close`, `Reactor.close`
  (never called) and `ActorThreadPool.shutdown` (after which the process ends); what
  `serve` does after its loop; an `accept` that fails.
* The buffers of incomplete frames in `decodeNextByte` and in the reactor's reads. The bytes
  of a frame arrive together.
* `processServerMessage`, `cout` and `cerr`, which only print.

A subscriber that stops reading its socket, which would hold up the authors that write to it,
is a hazard without a property: sockets have no capacity here.
