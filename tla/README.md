# A verification of the chat room

The program (`src/src`) is a chat server and its terminal client in C++98: users log on
over TCP, talk in rooms, create rooms and move between them, and whisper. This directory
holds TLA+ modules that model it, TLC configurations that check them on small instances,
and proofs, checked by TLAPS, of what the modules promise for every instance.

## The system

| Component | State | Operations | Talks to |
|---|---|---|---|
| `RoomKeeper` with `Room`, `User` | `mIdUser`, `mUserNames`, `mIdRoom`, `mRoomNames`, `mRoomId` | logon, create, join (and leave), drop, chat, whisper | called by Worker; sends through Worker's queue |
| `Worker` (a LogicService) | `mQueue` | one handler per client message, forward of `OP_SEND`, `OP_DROP` | enqueues to NetService |
| `NetService` (a LogicService) | `mQueue`, `mConns`, `mMaxID` | `OP_ACCEPT`, `OP_RECV`, `OP_SEND`, `OP_DROP` | enqueues to Worker; writes sockets |
| `Driver` thread | registered events | `Accepter::ReadData`, `TcpConnection::ReadData` and `WriteData` as callbacks | enqueues to NetService |
| `TcpConnection` | `mClosed`, frame being read, frames to write | read, write, close under its own mutex | shared by Driver and NetService threads |
| `LogicService` | `mRunning`, `mQueue`, the thread | Start, Stop, Enqueue, Run | base of Worker, NetService, CRClient, ThreadLogger |
| `CRClient` (a LogicService) | `mCurrentRoom`, `mOnlines`, `mRooms`, `mCdkRunning` | input of the user, messages of the server | its own NetService |
| `InputParser`, `Layout` | `Cmd` | the command line and the windows of the client | CRClient |
| `Msg` | buffer, read and write offset | writing, reading, duplicating | everything that sends or receives |
| `TcpSocket`, `ThreadLogger`, `cmdline` | – | system calls, log, options | – |

In the server three threads matter: the driver reads frames and puts them into the
NetService's queue; the NetService's thread passes them on to the Worker's queue; the
Worker's thread executes the registry's operations. What an operation sends goes back the
same way: onto the *Worker's own* queue, from there to the NetService's, from there to the
socket. Nothing is persisted, nothing is retried, nothing has a timeout. The hard parts are
therefore the interleaving of three threads with clients that come and go, the order in
which drops, frames and publications pass the two queues, five tables that one operation
must keep in agreement, and the start and stop of threads.

In the client four threads matter: main reads what the user types, the CRClient's thread
handles what arrives, its NetService's thread and driver are those of the server. Main starts
the first, which starts the second, which starts the third; at the end each stops and joins
the next. A typed line is parsed on main's thread and either goes to the NetService to be
sent, or makes a detour through the CRClient's queue. Main and the CRClient's thread share
`mCurrentRoom` and `mCdkRunning` without a lock.

What makes each component correct:

- registry: the tables agree, a user is in exactly one room, no assertion about the
  tables fails, a room id stays good for ever;
- server and clients: a drop is the last thing heard of a connection and leaves no user
  behind; what a client shows becomes true once what is under way has arrived; nobody who
  can be told is left untold; one client cannot stop the server;
- service: no context lost, repeated or reordered, no lost wakeup, Start and Stop return;
- client: when Stop returns nobody is left to use what is taken down, it ends when its user
  leaves, and a line becomes what its words say, once, whichever way it takes;
- messages: readers take the fields their writers wrote, and a buffer holds what is written
  into it.

## The modules

| Module | Models | Correspondence |
|---|---|---|
| `RoomKeeper` | `RoomKeeper.cpp`, `Room.cpp` | one action per operation; a table is a function; `failed` is set where an `assert` fails, and says whether the assertion is about the tables themselves (`registry`) or about an id that came in a message (`lookup`) |
| `Contexts` | `Context.hpp`, the two `mQueue`s | an `OperContext` is a record |
| `Worker` | `Worker.cpp` | `Keeper == INSTANCE RoomKeeper`; a handler is the registry's operation and, in `Finish`, the messages it enqueues, in the order of the code |
| `NetService` | `NetService.cpp`, `TcpConnection.cpp`, `Accepter.hpp` | one action per context type and per outcome of a read or write |
| `Connection` | `TcpConnection.cpp`, `TcpSocket.hpp`, `RWConnection.hpp`, `Driver.cpp`, again `NetService.cpp` | the driver's program counter is its place in a handler, the NetService's its place in a context; a connection is a record of the fields of `TcpConnection` and its socket |
| `ChatSystem` | `Client.cpp` and the composition | clients start, type, receive, and end at any time; properties of the whole |
| `MCChatSystem` | – | symmetry for TLC |
| `MessageQueue` | what users of a LogicService rely on | abstract: Put, Deliver, Discard after a stop |
| `LogicService` | `LogicService.hpp`, `LogicService.cpp`, `Closure.hpp` | one action per step of Run between two accesses to shared state, one per critical section |
| `ClientProcess` | `main.cpp`, `Layout::Start`, `CRClient::Init` and `Finit`, `NetService::Init` and `Finit`, `Driver::Stop` | two instances of `LogicService`, `CR` and `Net`; main, the driver and the connection are program counters; a step of a service that calls another is one action (`EnqueueToCR` in `ForwardRecv`) |
| `InputParser` | `InputParser.cpp`, `Cmd.hpp` | one operator per parser over a text, which is the line, its NUL and the memory behind it; the loops over an index are `Until` |
| `ClientInput` | `CRClient::HandleInput`, `RecvMessage` and what they call | main and the CRClient's thread are program counters, the two halves of `Room::Decode` two steps; the server only accepts or refuses a join |
| `Msg` | `Msg.hpp`, `Msg.cpp` | the buffer is a record with what is allocated; a byte knows which byte of which number it is, so a wrong offset or width reads `Unset` |
| `Messages` | `MsgType.hpp`, every place a message is composed and every place it is read | a message is composed field by field, duplicated or not, sent and read |
| `MCClientInput`, `MCMessages` | – | lines and strings for TLC |
| `QueueLemmas` | – | lemmas: what adding to a queue, taking from it and joining two of them do to its members and their order; the least of some numbers |
| `RoomKeeperProofs` | – | theorems about the registry alone |
| `ChatSystemProofs` | – | theorems about the server with its clients: whom and what it knows, and what the clients show |
| `ConnectionProofs` | – | theorems about the two threads that share the connections |
| `LogicServiceProofs`, `ClientProcessProofs` | – | theorems about a service, and about the client's start and end |
| `ClientInputProofs` | – | theorems about the parser and about the way of a line through the client |
| `MessagesProofs` | – | theorems about the buffer, and about every writer and reader of a message |

`ChatSystem` takes for granted what `MessageQueue` promises: its queues are sequences
whose head is handled by one thread. `LogicService` is shown to implement `MessageQueue`
(by TLC, and its safety part by proof), so the composition rests on the code of Run and
not on an assumption about it. In the same way `NetService`, which the composition uses,
has one step per handler, and `Connection`, where a handler is many steps of two threads,
is shown to implement it (`HandlersAreAtomic`). The mapping reads: the context the
NetService is in counts as done once its effect is visible (it has registered the
connection's first event, or the driver has written the message in its place, which the
history variable `taken` records); a connection counts as closed once its drop is
enqueued; a frame counts as received once its last unit is read, and what had come of
frames when a connection closed is lost.

### What the models leave out, and why it may

- **Atomicity.** The registry is used by the Worker's thread alone, so an operation is one
  step. That a handler of a connection may be one step in `NetService` is what `Connection`
  shows; `lateDrops` there stands for the driver waiting for the mutex of a connection that
  is closed meanwhile. In `Connection` a step is what one thread does under the mutex without
  blocking, or one access to `mEventsInfo`; that table and libevent's own are used by both
  threads without a lock, and what a torn access would do is not modelled. A driver that
  enters a deleted connection either ends the process (`Crash`) or finds the object as it was
  left (`ReadNotOkay`). A critical section of a
  service is one step; each read of `mRunning` outside the mutex is one.
- **Data.** Outside `InputParser` and `Messages`, texts, addresses and the encoding of messages
  are left out. The Hall is
  `HALL_NAME`, passwords are a small set with an empty one. The published room a chat
  message belongs to is kept in the model's record though the client is not sent it, so
  that a property can speak of it.
- **Sockets** are FIFO in each direction. When a client ends, a suffix of what it had not
  sent is lost, and a later write to it is lost, fails, or (with `SigPipeKills`) ends the
  server: the three things `send()` to a closed peer does.
- **Peers** of `ChatSystem` and `ClientProcess` are programs of this repository, whose lengths are never
  refused: `ChatSystem` leaves `ReadRejected` out. In `Connection` the peers in `Foreign` may send such a
  length, and `HandlersAreAtomic` covers its refusal.
- **Creating a thread** is asserted to succeed (`Thread::Start`), so `StartThread` has no failure.
- **Clients** have one FIFO each way in `ChatSystem`. A command that makes a detour through the
  CRClient's queue (`/w`, `/q`) is modelled there at the moment it is handled and sent, so it can
  be overtaken by what is typed later; `ClientInput` has the detour itself. The other parts of
  the client's view are not in `ClientInput`, nor is its start and its end, which is
  `ClientProcess`; there in turn a line has no text, and a handler of the driver is one step.
- **Undefined behaviour.** Where the driver enters a freed object or a freed event base
  (`ClientProcess`), where a string is read while it is assigned (`ClientInput`), each outcome
  the build can produce is a step: a crash, an old or a new value, a loop that ends or hangs.
  A write beyond a buffer (`Messages`) ends the run. The name of `/c` that runs past the line
  ends somewhere in the memory behind it, of which there are two examples.

## The runs

Each run's mutants, listed in `PROJECT.json`, are the bugs its properties catch: the
operators named `X_Something` next to the definition `X` they would replace.

| Run | Question | Instance | States |
|---|---|---|---|
| `RoomKeeper` | do the tables agree after any sequence of operations? | 3 connections, 3 names, Hall and 2 rooms, 2 passwords | 7 thousand |
| `Conversation` | do clients show the truth while users create, join, leave and chat? | 2 clients, 3 commands of 4 kinds, each once | 1.4 million |
| `Departure` | is a drop the last of its connection, and complete? | 2 clients that may end any time, one chat or whisper, all write failures | 0.9 million |
| `Liveness` | is everyone answered, every departure noticed, as long as no SIGPIPE ends the server? | 2 clients that may end any time, all write failures | 0.2 million |
| `Connection` | do handlers on two threads amount to the steps of `NetService`, and which ends of a peer are noticed? | 2 peers, one of which may send a length that is refused, 2 descriptors, a frame each, 1 message, all write failures | 0.5 million |
| `Pieces` | do frames and messages stay whole in pieces? | 2 peers, 1 descriptor used in turn, 2 frames each, 2 messages, short writes | 1.5 million |
| `LogicService` | does a service implement its queue, with liveness, when its Init may fail and its waits may return unsignalled? | 3 contexts | 9 thousand |
| `ClientProcess` | do a client's services and threads start, work and end together? | 2 frames, or a frame and a line; the connect, the logon and the server may fail | 0.2 million |
| `Input` | is each line parsed and sent as what it means? | every line of a command and up to 6 characters behind it, up to 3 lines of four kinds one after the other | 0.1 million |
| `Messages` | do readers read what writers wrote, within the buffer? | every type of message, a page of 120 bytes, strings around that size, lists of up to 2 | 7 thousand |
| `EarlyEnd`, `EarlyChat` | two things the code does against its own assertions, see below | | |

*Bounds.* Two clients are the least for which one is told of what another does, for a
name to be taken, and for the first connection, whose id 0 `PublishRoomList` treats as
"everybody", to differ from another. Two rooms (three in `RoomKeeper`) give a source, a
destination and, in `RoomKeeper`, a room that neither move concerns. `MaxInputs` and "each
kind once" bound what is typed in the composed runs, where the interest is in how one
operation's messages interleave with another's; the registry's own sequences are unbounded
in `RoomKeeper` and in the proofs. In `Connection` two peers are the least for which the
driver serves one while the NetService serves the other, one descriptor makes them use it in
turn, and two units are the least that can come apart; `MaxFrames` and `MaxSends` bound what
comes and goes. User ids bound the connections: a client connects once,
so no id is ever missing. In `ClientProcess` two frames are the least that can change places,
and one line the least that uses the detour. In `Input` a name has exactly two characters, so
that lines with names one too short and one too long are short themselves; four kinds of line
(chat, `/q`, `/w`, `/j`) are those that go different ways. In `Messages` a page of 120 bytes
stands for one of 4096: a chat of 96 characters fits exactly, and 170 characters make Reverse
act. `CHECK_DEADLOCK FALSE` appears because these systems really rest
or end: users stop typing, an assertion ends the server, a service is stopped.

*Symmetry* is used where only invariants are checked: clients and user names are
interchangeable, connection ids are not.

*Fairness.* `FairSpec` of `ChatSystem` is weak fairness of the Worker's, the NetService's
and the driver's step for each client and of a client's reception: each is a thread in a loop that blocks only while it has
nothing to do (`SleepsWithNothingToDo` says so of a service's thread), and libevent reports
readable sockets as long as they are. No user has to type or leave. `FairSpec` of `LogicService` is
weak fairness of the service's thread, and of the owner once it has begun to start or
stop; nobody has to start, stop or enqueue. `FairSpec` of `Connection` is weak fairness of its two
threads and of nothing else: a peer may stop in the middle of a frame, the driver then waits
for ever in `recv`, and `EndIsNoticed` says so in its premise. `FairSpec` of `ClientProcess` is
weak fairness of its four threads, as long as the process lives; neither the user nor the
server has to do anything. `FairSpec` of `ClientInput` is weak fairness of each thread and of
the server, whose threads are those of `ChatSystem`, as long as it is up. Here users do not wait
for a room, so a chat may be in none: `GetRoomById` then ends the server (`ServerUp`,
`EarlyChat`), what is typed after it is lost, and the client goes on because
`CRClient::HandleDrop` is empty. `LinesSettle` excepts that.

*What the liveness of the whole excepts.* A client may end while the server writes to it, nobody
handles SIGPIPE (`TcpSocket.hpp:275` sends without `MSG_NOSIGNAL`), and the server may end
by it. The others are not told, since `CRClient::HandleDrop` (`Client.cpp:195`) is an empty TODO: one that
was logging on waits for ever without a room, one that shows a list of users shows it for ever. So
`LogonAnswered`, `DepartureNoticed` and `ViewsSettle` say what holds unless the server was
`killed`, which does happen in their run. `DepartureNoticed` is about the end of every
behaviour: once no more clients come or go, those that are gone have no connection, and no user,
name or member is left but theirs who are there, for good.

### What disagrees with the code's own words

- `EarlyEnd`: a peer that ends while the NetService is between the registration of its read
  event and of its write event makes `UnRegistWriteEvent` assert.
- `EarlyChat`: a line typed before the first room has arrived carries `INVALID_ROOM_ID`;
  `GetRoomById` asserts and the server ends. `Departure` and the other runs let users wait
  for a room first (`PatientUsers`), and then `LookupsSucceed` holds.

More are in the models without a run of their own:

- A write to a peer that is gone raises SIGPIPE, which nobody handles: the path that reports
  the drop is not reached, and server or client end. In `Departure`, `Liveness` and
  `ClientProcess` both outcomes are possible, and what holds does so until then.
- A peer that sends a length below `sizeof(int)` has its connection closed and unregistered, but
  `err` is still 0 then and no `OP_DROP` is enqueued (`TcpConnection.cpp:46`, `:88`): the connection stays in
  `mConns` and its user in the room. `RefuseLength` in `Connection` and `ReadRejected` in
  `NetService` are that path, and `EndIsNoticed` has to except it.
- A client that cannot reach its server does not report the error but waits for ever in
  `Start`: `StartsOrFails` has to except `ConnectFailed`.
- At the end of a client its CRClient stops before its NetService; a frame that is then
  forwarded is refused, and `~OperContext` asserts. The driver may enter the deleted connection,
  and leaves a loop whose event base has been freed: `FailsOnlyAtTheEnd` and `LeavingEnds` say
  that none of this happens before the client is stopping.
- A refused command is published. `HandleInput` says that what it publishes "is a normal chat message"
  (`Client.cpp:247`), but the parser returns false for a command it refuses as it does for a chat,
  and the error text it sets (`InputParser.cpp:232`) is never shown. A `/j room p` whose password is too
  short goes to everybody in the room, with the password; so do `/c` and `/j` without a
  password, though the help (`Client.cpp:452`) and `InputParser.hpp` list them as `/c room` and
  `/j room`. `Meaning` calls such a line `<<"refused">>`, and `MadeOf` says what the program makes of it:
  `ParsedAsMeant` and `SentAsMeant` state what the code does with it, not that this is right.
- The help lists `/i` and `/l user`, which do nothing.
- The loop over the room name of `/c` does not stop at the end of the line (`Unterminated`).
- `Msg` grows only for a single field larger than a page: a message of many small fields, such
  as the users of a full room, overruns its buffer (`FitsUpToAPage` says up to where it does not).
- The comments of `MsgType.hpp` differ from what is written: `c2s_create_room` has a password,
  `s2c_join_room_res` an error text and the room, `c2s_whisper_msg` no sender, `s2c_room_info`
  the room before its users. Readers and writers agree with each other, not with the comments.
- After a failed write the NetService deletes the connection though the driver may be waiting
  for its mutex: `DriverEntersLiveOnly` holds in `Pieces`, where no write fails and only the
  driver closes, and is false with `WritesFail = TRUE`.
- `SyncClosure::Wait` has no predicate: `StartMeansStarted` is false with
  `SpuriousWakeups = TRUE`, as in the run `LogicService`.
- A stopped service may have contexts left in its queue, and its destructor asserts that it
  has none: `Destroy` can set `aborted`.

## The proofs

Every theorem is proved for every value of the constants that the named assumptions of its
module allow; where one holds only for some values, it says so as a hypothesis.

| Assumption | Says | Because |
|---|---|---|
| `KeeperAssumption` | connection ids are numbers, the Hall is a room name, the empty password a password | they are in the code |
| `ClientAssumption`, `ConnectionIds` (`ChatSystem`) | clients are finitely many, and there are as many ids as clients | a client connects once, and `mMaxID` only counts up |
| `ConnectionAssumption` | headers, bodies and messages have at least one unit; `None` is neither a peer, a descriptor nor a number; those that may send a refused length (`Foreign`) are peers | both are lengths of what the code reads; clients of this repository send no such length |
| `TextsAssumption`, `InputParserAssumption` | a line is a sequence of characters, none of them NUL; names have at least one character | a line is the C string the entry returns; 4 in the code |
| `MsgAssumption`, `MessagesAssumption` | a page has a byte and room for the head; a string is a sequence of numbers, ids are numbers | `getpagesize()` and 8 in the code; a string is its bytes |
| `ServiceAssumption` | `OP_START` is none of the contexts others enqueue | only `Start` makes one |
| `ClientAssumption`, `StartAssumption`, `LinesAssumption` (`ClientProcess`) | the logon is not a typed line, `/q` is a local one, `OP_START` is neither a frame, a line nor a drop, and what a user types is no frame of the server | they are different types of context and message |

**The registry** (`RoomKeeperProofs`): every invariant the run `RoomKeeper` checks, and
`RoomsAreForever`. The inductive invariant is the conjunction of all five invariants; none is
inductive alone. That a join keeps `OneRoomEach` depends on `RoomsAgree`, because
`LeaveRoom` finds the room to leave by its name; that no assertion fails in the next step
depends on both. There is one lemma per operation; `AddUserMap` and `LeaveMap` say once
what adding and removing a member does to the table of rooms.

**The server and its clients** (`ChatSystemProofs`): for any number of clients and any
commands, `TypeOK`, `NoGhostUser`, `NothingAfterDrop`, and that every step of the whole is a
step of `RoomKeeper` or leaves the registry alone (`ServerIsARegistry`), so that the registry's
theorems hold of the server (`RegistryIsSound`). The invariant has, besides the registry's own,
two conjuncts about data on its way (`QueuesOK`, `ClientsOK`: what is in a queue or on a socket
speaks only of ids and rooms that exist) and four about a connection's life. `AcceptedOnce`
counts: `mMaxID` is the number of clients accepted, none is accepted twice, so an id is never
given twice and `ConnectionIds` suffices. `NetDrops` and `WorkerDrops` follow a drop through the
two queues: it is behind everything its connection received, the connection is closed or gone
by then, and a user without a connection has its drop under way. The ghost user that remains
for ever would be one whose logon passes its own drop; the order of the two queues is what
forbids it. The module's first part reduces a handler to its registry operation and the messages
in `Finish`; for that it proves that `InOrder` lists every member of a set once.

**Lookups** (`ChatSystemProofs`, second part): with users who type nothing before they see a room, no
message makes `GetUserById` or `GetRoomById` assert (`LookupsSucceed`). The hypothesis
`PatientUsers` is the one the code needs: `EarlyChat` shows the property false without it. The argument
goes round: a client shows a room because a message
told it (`ToldAreKnown`), the message was sent because its user was registered, the user is
removed only by its drop, and behind the drop there is nothing from it (`NothingAfterDrop`), so
what a client says that shows a room finds its user (`SendersKnown`). A room is for ever.
What users are told (`Told`) needs no patience, only what they ask (`Asked`) does, so the first
is an invariant of every run and serves the next proof too.

**What clients show** (`ChatSystemProofs`, last part): `ViewsAreCurrent`, `RoomListsAreCurrent` and
`ChatShownInItsRoom`, without any hypothesis. A client is told by three queues one behind the
other, its socket, the NetService's and the Worker's. `After(q, id, v)` is what a client that
shows `v` shows when the stretch `q` has reached it, `Fits(q, id, v)` whether every chat in it
then meets its room; both are defined by positions, not by recursion, and both compose:
`After(q \o s) = After(s, After(q))` (`ToldInTurn`, `FitsInTurn`). So

- a context that passes from one queue to the next, or to the socket, changes nothing
  (`MovedNews`), nor does one that is not for the client (`QuietContext`);
- what a client receives takes the head from what is under way and puts it into what is shown;
- what an operation of the Worker enqueues takes a client that shows how the registry was to
  one that shows how it is (`Informs`: one lemma per handler). That is where a handler that
  forgets to publish a room, or publishes the rooms in a wrong order, would fail.

The three properties are one invariant, `AllCurrent`, over the registered users whose client is
there. It is not inductive alone: a user that logs on may show anything before, but must have no
chat under way (`ToldAreKnown`); a message is discarded only for a client that has closed its
socket (`Closed`); and a connection id and a socket name each other (`OneConnectionEach`).

**Connections** (`ConnectionProofs`): for any peers, descriptors, lengths of frames and
messages, and any outcome of `recv` and `send`.

- `EventsHaveOwners` is a conjunct of the invariant `IInv`, which says what the objects
  (`Objects`), the descriptors, the events, `mConns` (`Table`) and the places of the two
  threads (`Driving`, `Serving`) know of each other, across closing and the reuse of a
  descriptor. It is the base of the rest.
- `DriverEntersLiveOnly` under `~WritesFail`: only the driver closes then (`DriverAlone`). Where a
  write fails it is false, as said above.
- `NothingLeftUnsent` under `~ShortWrites`: a short write leaves the rest to the driver's
  write event, which is what the event is for.
- `MessagesIntact`, with short writes and whichever thread writes. The Worker numbers what it
  sends; the invariant `MInv` says that the numbers grow along queue, buffer and what the peer has
  received, and that the peer has whole messages and `mSent` units of the one at the head.
- `FramesIntact`. `FInv`: some number k of frames of a peer is reported; what has been read and what
  is still in the stream are the units due after k frames (`Due`); the frames reported stand in
  the queues in their order, and a drop behind all of them.

- `HandlersAreAtomic` under `~ShortWrites`, where `NetService` and `Connection` agree that a message
  is written whole. Each action has a lemma that says either which step of `NetService` it is
  seen as, or that it is unseen (`SeenStays`). Reading: units that pass from the socket into the
  connection change no frame that is due (`PartUnseen`), and those handed on are the first of
  them (`FrameTaken`, which needs `Due` of `FInv` to know that the units taken are one frame).
  Writing: whichever thread is first does the step (`WriteSeen`); `TakenOnce` says that the other
  then finds nothing to write, and `MInv` that the peer has whole messages before. Closing: a
  connection whose drop is enqueued is closed for both, one that is about to report is not yet, and
  one whose length was refused is closed at once and never reports (`ReadRejected`). So what `ChatSystemProofs` says of a system made of whole handlers does not
  depend on how long a frame is, or in how many pieces it comes.

The property `FramesIntact` speaks of positions in `Pipeline` (the Worker's queue, then the
NetService's), not of a filtered sequence: a filter is a recursive definition, of which nothing is
known before its existence is proved. The variable `written` of `Connection` counts what a peer has written; no action
of the program reads it.

**Services** (`LogicServiceProofs`): for any contexts and whatever Init and the waits do,
`TypeOK`, that no wakeup is lost, and that the service implements the safety part of
`MessageQueue` under the mapping *pending = the batch taken, then the queue*. The
strengthening says where the batch can be non-empty (`BatchInLoop`) and where thread and
owner can be at the same time (`ThreadAndOwner`). Two theorems hold where no wait returns
unsignalled: Start returns only from a started service (`StartWaits`), and OP_START is
processed while its closure is waited on (`StartIsHeard`, by `StartWaited`: it is at most
once in batch and queue, and its owner is waiting then).

**The client** (`ClientProcessProofs`): for any lines and traffic and whatever fails,

- when Stop has returned to main nobody is left to use what main takes down (`StopIsFinal`).
  Three threads end one inside the other, and the invariant follows the chain backwards: what
  main has joined (`MainJoined`), what a joined service has finished (`ThreadsJoined`), what the
  NetService's Finit has done (`FinitDone`). `NetEnds` is what makes it inductive: a NetService
  whose thread has ended has an owner in Stop or beyond, so the CRClient is no longer in its
  Init, the only place where a connection is made;
- every step is a step of each of the two services as `LogicService` specifies it, or leaves it
  alone (`ServicesAreServices`), which brings in what is proved of a service;
- nothing fails before main stops the client or the server ends (`FailsOnlyAtTheEnd`), by the
  first two and `EndInv`: `Working` says which thread is started while another runs, so that
  no context is refused; `Closing` says that only the end closes the connection, so that the
  driver enters no deleted one; `DropsAtTheEnd` says that a drop in the NetService's queue
  is a sign of the end;
- frames are shown in the order they were sent, without a gap, and until the end none is lost
  (`ShownInOrder`). `LogicServiceProofs` says of each action of a service what it does to what waits
  and to what is handled (`Moves`), so the way of a frame from the wire through both services is a
  chain of queues in which a step takes from a head and appends to the next (`Streams`, one lemma
  per kind of step), or throws away, and that only once CRClient does not run. What Run has
  decided to process is processed even when Stop comes in between, so `StreamInv` says before that
  this frame is the next one (`NextIsDue`). The theorem assumes `LinesAssumption`: what a user types
  is no frame of the server; the model names both only to tell contexts apart.

The property speaks of the frames in a queue and of the order of positions, not of a filtered
sequence, for the reason given for `FramesIntact`.

**What is typed** (`ClientInputProofs`): for any lines, of any length, any memory behind them and
any number of them.

- `ParsedAsMeant`: the parser's index loops find what the words of the line say, and refuse just
  the commands that are incomplete; a refused one is then taken for a chat (`MadeOf`). `Until` is a
  CHOOSE, so nothing is known of a loop before it is shown to end; that a set of numbers has a
  least one (`LeastNumber`, from the well-foundedness of `<`) takes the place of induction over
  the text. It gives where each loop ends (`BlanksSkipped`, `WordEnded`, `NameEnded`), and, by what
  it says of the n-th start of a word, that a text is blanks, a first word, and the words of the
  rest (`WordsSplit`). `NextWord` joins the two: what the parser cuts out is the first word, and it
  goes on where the rest begins. Then there is one lemma per command. The memory behind the line
  is a variable of the proof: that nothing behind the NUL matters is part of the result, and
  `NameEnded` has the one exception as its hypothesis.
- `QuitsFromHall`, by `QInv`: the last room the server has announced, wherever the announcement is
  (`Final`), is the user's room, so a client that sees the Hall and has no announcement on
  its way is in the Hall.
- `OvertakesOnlyDetours`, by `OInv`: what main sends at once keeps its order in one chain of
  queues, local commands keep theirs in another (`Ordered`, `Locals`); the line that is being
  handled is in none of them yet (`Fresh`), and what comes out of the second chain has been
  `served`.
- `SentAsMeant`, by `SInv`: each context of the two chains, and what main is about to send, is
  what its line means, or the line itself where that is a chat or a refused command; `ParsedAsMeant`
  says so where it is made. It does not say that only chats are published, which is not so. All three rest on `CInv`, which
  says what kind of context can be in which queue.

**Messages** (`MessagesProofs`): `FitsUpToAPage` and `ReadsWhatWasWritten`, for any page, any
strings, and any number of users and rooms in a list. The run checks lists of up to two and
seven strings.

- `FlattenSeq`, from which messages and readers are put together, is a recursive definition of the
  library. The proof first shows that the partial results it is defined by exist and are unique
  (`PartialsExist`, `PartialsAgree`), by induction over a set of numbers (`EveryNumber`), and
  uses only what follows: one more at the end is one more at the end of the whole.
- *Writing.* `WrittenSoFar`: what has been written and what is still to be written are together
  the pieces of the fields. A buffer that is being written has at least a page
  (`IsGrowing`), and grows only where what it holds is within a page; so what does not fit the
  buffer does not fit a page.
- *Reading.* `Written(c, n)` is the data up to the n-th field. A number or a string read there is
  that of the next field, and ends where the field ends (`ReadsANumber`, `ReadsAString`).
- *Who reads what.* `Reads(r, p, c)` says that reader `p` takes just the fields `c`: the two are in a
  set of pairs of which each can do a next step and is in the set again, until nothing is
  left of either. That needs no recursion, and readers compose like what they read
  (`ReadsChained`, `ReadsTimesOver`, `ReadsIfChosen`). There is one lemma for each kind of message,
  joined in `ContentsMade`; a reader that takes a field too many, too few or of another width
  would fail there.
- `MessagesInv` joins these: of what is sent the data are all fields and the length in the head
  is theirs, a copy changes neither (`DupIs`, `ArrivedIs`), and each action of the reader is one
  step of `Reads`.

### Only model-checked

- All liveness (`EndIsNoticed`, `KeepsPromise`, `StopReturns`, `StartsOrFails`, `LeavingEnds` and those
  of `ChatSystem` and `ClientInput`): fairness and ENABLED are beyond TLAPS.

## Not modelled, and the plan

*Done:* every component of the server and of the client that keeps state, the composition of
each, the service and its abstract queue, the parser, the messages, the theorems above.

What is left to prove is out of the provers' reach, as said above; a server that shuts down
would be the next thing to model, once it does.

Left out for good: what `Layout` draws (terminal windows; its loop is in `ClientProcess`),
`ThreadLogger` and `Log` (nothing depends on them), `cmdline.h` (vendored), the demonstration
programs under `test`, code under `#if 0`, `OP_STOP` and `NetService::RecvMsg`, which nothing
uses, a listener that fails, the server's shutdown (nobody stops its services while it serves),
and timers, which nobody registers.
