--------------------------- MODULE ConnectionProofs ---------------------------
(***************************************************************************)
(* The safety properties of the module Connection, for any peers,          *)
(* descriptors, lengths and bounds.                                        *)
(*                                                                         *)
(*   IInv  what the objects, the descriptors, the events, the table mConns *)
(*         and the two threads know of each other; EventsHaveOwners is a   *)
(*         part of it, and every other proof rests on it                   *)
(*   DriverAlone, Unsent   what is added where no write fails, and where   *)
(*         send() takes all it is offered                                  *)
(*   MInv  the messages of a peer are numbered in the order in which they  *)
(*         are queued, buffered and received                               *)
(*   FInv  the frames of a peer are numbered in the order in which they    *)
(*         are to come, received in part, and reported                     *)
(*   AInv  all these and TakenOnce, what the two threads know of a message *)
(*         either may write: every step is one of NetService's, or unseen  *)
(***************************************************************************)
EXTENDS Connection, QueueLemmas

Object == [object : {"none", "live", "deleted"}, mConnID : Nat \cup {None},
           fd : Fds \cup {None}, mClosed : BOOLEAN, mRecved : Seq(Nat),
           mToSendMsg : Seq(Nat), mSent : Nat, refused : BOOLEAN]

NetContexts ==
  [op : {"OP_ACCEPT"}, socket : Clients] \cup [op : {"OP_SEND"}, conn : Nat, msg : Nat]
    \cup [op : {"OP_RECV"}, conn : Nat, msg : Seq(Nat)] \cup [op : {"OP_DROP"}, conn : Nat]

Types ==
  /\ conn \in [Clients -> Object]
  /\ mEventsInfo \in [Fds -> [Kinds -> Clients \cup {None}]]
  /\ active \subseteq Fds \X Kinds
  /\ stream \in [Clients -> Seq(Nat)] /\ received \in [Clients -> Seq(Nat)]
  /\ written \in [Clients -> Nat] /\ sends \in Nat
  /\ backlog \subseteq Clients /\ peerClosed \subseteq Clients
  /\ dPc \in {"loop", "read", "write", "header", "body", "unregister", "refuse"}
  /\ dConn \in Clients \cup {None} /\ (dPc = "loop" <=> dConn = None)
  /\ nPc \in {"idle", "regist", "write"}
  /\ mMaxID \in Nat
  /\ DOMAIN mConns \subseteq 0 .. mMaxID - 1 /\ mConns \in [DOMAIN mConns -> Clients]
  /\ IsQueue(mWorkerQueue) /\ IsQueue(mNetQueue) /\ Range(mNetQueue) \subseteq NetContexts

(* No two sockets have the same descriptor.                                *)
Descriptors ==
  \A c, d \in Clients : conn[c].fd = conn[d].fd /\ conn[c].fd # None => c = d

(* What the life of a TcpConnection, none yet, live or deleted, says of    *)
(* its socket: what is closed has given its descriptor back, but for the   *)
(* driver that is about to.                                                *)
Objects ==
  \A c \in Clients :
    LET tcp == conn[c] IN
    /\ tcp.object = "none" => /\ tcp.mConnID = None /\ ~tcp.mClosed /\ tcp.mSent = 0
                              /\ tcp.mRecved = <<>> /\ tcp.mToSendMsg = <<>>
    /\ tcp.object # "none" => tcp.mConnID \in 0 .. mMaxID - 1
    /\ tcp.object = "live" => tcp.mConnID \in DOMAIN mConns /\ (tcp.mClosed \/ tcp.fd \in Fds)
    /\ tcp.object = "deleted" => tcp.mClosed /\ tcp.mConnID \notin DOMAIN mConns
    /\ tcp.mClosed => tcp.fd = None \/ (dPc \in {"unregister", "refuse"} /\ dConn = c)
    /\ c \in backlog => tcp = NoConnection
    /\ Len(tcp.mRecved) < FrameLength

(* mConns holds the live connections, each under its id.                   *)
Table ==
  /\ \A id \in DOMAIN mConns : conn[mConns[id]].mConnID = id /\ conn[mConns[id]].object = "live"
  /\ \A c \in Clients : conn[c].mConnID \in DOMAIN mConns => mConns[conn[c].mConnID] = c

(* Where the driver is tells what it has found in the connection ...       *)
Driving ==
  dConn # None =>
    LET tcp == conn[dConn] IN
    /\ tcp.object # "none"
    /\ dPc \in {"header", "body"} => ~tcp.mClosed
    /\ dPc = "header" => tcp.mRecved = <<>>
    /\ dPc \in {"unregister", "refuse"} => /\ tcp.mClosed /\ tcp.fd \in Fds /\ tcp.object = "live"
                                           /\ mEventsInfo[tcp.fd]["read"] = None
    /\ dPc = "unregister" => dConn \in peerClosed

(* ... and where the NetService is, which context it is in.                *)
Serving ==
  /\ nPc = "regist" =>
       /\ NextIs(mNetQueue, "OP_ACCEPT")
       /\ LET tcp == conn[Head(mNetQueue).socket] IN
          /\ tcp.object = "live" /\ tcp.fd \in Fds /\ tcp.mToSendMsg = <<>>
          /\ mEventsInfo[tcp.fd]["write"] = None
  /\ nPc = "write" => NextIs(mNetQueue, "OP_SEND") /\ Head(mNetQueue).conn \in DOMAIN mConns

(* A socket is announced once, and has no connection before.               *)
Accepts ==
  \A x \in Range(mNetQueue) : x.op = "OP_ACCEPT" =>
    /\ conn[x.socket].fd \in Fds
    /\ conn[x.socket].object = "none" \/ (nPc = "regist" /\ x = Head(mNetQueue))
    /\ ~Before(mNetQueue, x, x)

(* What is reported as dropped is closed, and its events given back.       *)
Drops ==
  \A x \in Range(mNetQueue) : x.op = "OP_DROP" =>
    \E c \in Clients : conn[c].mConnID = x.conn /\ conn[c].mClosed /\ conn[c].fd = None

IInv == /\ Types /\ EventsHaveOwners /\ Descriptors /\ Objects /\ Table
        /\ Driving /\ Serving /\ Accepts /\ Drops

-----------------------------------------------------------------------------
(* Taking n units of a stream.                                             *)
LEMMA Taking ==
  ASSUME NEW a \in Seq(Nat), NEW s \in Seq(Nat), NEW n \in 0 .. Len(s)
  PROVE  LET t == a \o SubSeq(s, 1, n)
             r == SubSeq(s, n + 1, Len(s))
         IN  /\ t \in Seq(Nat) /\ Len(t) = Len(a) + n
             /\ \A i \in 1 .. Len(a) + n : t[i] = IF i <= Len(a) THEN a[i] ELSE s[i - Len(a)]
             /\ r \in Seq(Nat) /\ Len(r) = Len(s) - n
             /\ \A i \in 1 .. Len(s) - n : r[i] = s[n + i]
<1> DEFINE h == SubSeq(s, 1, n)
           r == SubSeq(s, n + 1, Len(s))
<1>1. Len(s) \in Nat /\ Len(a) \in Nat /\ n \in Nat
  OBVIOUS
<1>2. \A i \in 1 .. Len(s) : s[i] \in Nat
  OBVIOUS
<1>3. /\ h \in Seq(Nat) /\ Len(h) = IF 1 <= n THEN n - 1 + 1 ELSE 0
      /\ \A i \in 1 .. n - 1 + 1 : h[i] = s[1 + i - 1]
  <2>1. \A i \in 1 .. n : s[i] \in Nat
    BY <1>1, <1>2
  <2> QED BY <1>1, <2>1, SubSeqProperties
<1>4. /\ r \in Seq(Nat) /\ Len(r) = IF n + 1 <= Len(s) THEN Len(s) - (n + 1) + 1 ELSE 0
      /\ \A i \in 1 .. Len(s) - (n + 1) + 1 : r[i] = s[n + 1 + i - 1]
  <2>1. \A i \in n + 1 .. Len(s) : s[i] \in Nat
    BY <1>1, <1>2
  <2>2. n + 1 \in Int /\ Len(s) \in Int
    BY <1>1
  <2> HIDE DEF r
  <2> QED BY <2>1, <2>2, SubSeqProperties DEF r
<1> HIDE DEF h, r
<1>5. Len(h) = n /\ \A i \in 1 .. n : h[i] = s[i]
  BY <1>1, <1>3
<1>6. Len(r) = Len(s) - n /\ \A i \in 1 .. Len(s) - n : r[i] = s[n + i]
  BY <1>1, <1>4
<1>7. /\ a \o h \in Seq(Nat) /\ Len(a \o h) = Len(a) + n
      /\ \A i \in 1 .. Len(a) + n : (a \o h)[i] = IF i <= Len(a) THEN a[i] ELSE h[i - Len(a)]
  BY <1>3, <1>5, ConcatProperties
<1>8. \A i \in 1 .. Len(a) + n : ~(i <= Len(a)) => h[i - Len(a)] = s[i - Len(a)]
  BY <1>1, <1>5
<1> QED BY <1>3, <1>4, <1>6, <1>7, <1>8 DEF h, r

LEMMA HeadStays ==
  ASSUME NEW q, NEW e, IsQueue(q), q # <<>>
  PROVE  Head(Append(q, e)) = Head(q)
<1>1. q \in Seq(Range(q) \cup {e}) /\ q # <<>>
  BY SeqMonotonic DEF IsQueue
<1> QED BY <1>1, HeadTailAppend

(* The head of a queue that only grows, if it had one.                     *)
LEMMA NetQueueGrows ==
  ASSUME IInv, NEW e \in NetContexts, mNetQueue' = Append(mNetQueue, e)
  PROVE  /\ IsQueue(mNetQueue') /\ Range(mNetQueue') = Range(mNetQueue) \cup {e}
         /\ Range(mNetQueue') \subseteq NetContexts
         /\ mNetQueue' # <<>>
         /\ mNetQueue # <<>> => Head(mNetQueue') = Head(mNetQueue)
         /\ \A x \in Range(mNetQueue) : Head(mNetQueue') = Head(mNetQueue)
         /\ \A x, y : Before(mNetQueue', x, y)
                        <=> Before(mNetQueue, x, y) \/ (x \in Range(mNetQueue) /\ y = e)
<1>1. IsQueue(mNetQueue) /\ Range(mNetQueue) \subseteq NetContexts
  BY DEF IInv, Types
<1>2. \A x \in Range(mNetQueue) : mNetQueue # <<>>
  BY EmptyQueue
<1> QED BY <1>1, <1>2, AppendToQueue, HeadStays

LEMMA NetQueueShrinks ==
  ASSUME IInv, mNetQueue # <<>>, mNetQueue' = Tail(mNetQueue)
  PROVE  /\ Head(mNetQueue) \in NetContexts
         /\ Head(mNetQueue) \in Range(mNetQueue)
         /\ IsQueue(mNetQueue')
         /\ Range(mNetQueue') \subseteq NetContexts
         /\ Range(mNetQueue') \subseteq Range(mNetQueue)
         /\ \A x, y : Before(mNetQueue', x, y) => Before(mNetQueue, x, y)
         /\ \A y \in Range(mNetQueue') : Before(mNetQueue, Head(mNetQueue), y)
<1>1. Range(mNetQueue) = {Head(mNetQueue)} \cup Range(Tail(mNetQueue))
  BY TailOfQueue DEF IInv, Types
<1> QED BY <1>1, TailOfQueue DEF IInv, Types

(* What is registered, and what has an id, is a connection.                *)
LEMMA Registrants ==
  ASSUME IInv
  PROVE  /\ \A fd \in Fds, k \in Kinds : mEventsInfo[fd][k] # None =>
              /\ mEventsInfo[fd][k] \in Clients
              /\ conn[mEventsInfo[fd][k]].object = "live" /\ conn[mEventsInfo[fd][k]].fd = fd
         /\ \A e \in active : e[1] \in Fds /\ e[2] \in Kinds /\ mEventsInfo[e[1]][e[2]] # None
         /\ \A id \in DOMAIN mConns :
              /\ mConns[id] \in Clients /\ id \in 0 .. mMaxID - 1 /\ id # None
              /\ conn[mConns[id]].mConnID = id /\ conn[mConns[id]].object = "live"
         /\ dPc # "loop" => dConn \in Clients /\ conn[dConn].object # "none"
         /\ nPc = "regist" => /\ mNetQueue # <<>> /\ Head(mNetQueue).op = "OP_ACCEPT"
                              /\ Head(mNetQueue).socket \in Clients
         /\ nPc = "write" => /\ mNetQueue # <<>> /\ Head(mNetQueue).op = "OP_SEND"
                             /\ Head(mNetQueue).conn \in DOMAIN mConns
<1> USE DEF IInv
<1>1. ASSUME NEW fd \in Fds, NEW k \in Kinds, mEventsInfo[fd][k] # None
      PROVE  mEventsInfo[fd][k] \in Clients
  BY <1>1 DEF Types
<1>2. \A fd \in Fds, k \in Kinds : mEventsInfo[fd][k] # None =>
              conn[mEventsInfo[fd][k]].object = "live" /\ conn[mEventsInfo[fd][k]].fd = fd
  BY DEF EventsHaveOwners
<1>3. \A e \in active : e[1] \in Fds /\ e[2] \in Kinds /\ mEventsInfo[e[1]][e[2]] # None
  BY DEF Types, EventsHaveOwners, Registered
<1>4. \A id \in DOMAIN mConns :
        /\ mConns[id] \in Clients /\ id \in 0 .. mMaxID - 1 /\ id # None
        /\ conn[mConns[id]].mConnID = id /\ conn[mConns[id]].object = "live"
  BY ConnectionAssumption DEF Types, Table
<1>5. dPc # "loop" => dConn \in Clients /\ conn[dConn].object # "none"
  BY DEF Types, Driving
<1>6. nPc = "regist" => /\ mNetQueue # <<>> /\ Head(mNetQueue).op = "OP_ACCEPT"
                        /\ Head(mNetQueue).socket \in Clients
  <2>1. mNetQueue # <<>> => Head(mNetQueue) \in NetContexts
    BY TailOfQueue DEF Types
  <2> QED BY <2>1 DEF Serving, NextIs, NetContexts
<1>7. nPc = "write" => /\ mNetQueue # <<>> /\ Head(mNetQueue).op = "OP_SEND"
                       /\ Head(mNetQueue).conn \in DOMAIN mConns
  BY DEF Serving, NextIs
<1> QED BY <1>1, <1>2, <1>3, <1>4, <1>5, <1>6, <1>7

LEMMA InitIInv == Init => IInv
<1> SUFFICES ASSUME Init
             PROVE  IInv
  OBVIOUS
<1> USE EmptyQueue, ConnectionAssumption DEF Init
<1>1. \A c \in Clients : conn[c] = NoConnection
  OBVIOUS
<1>2. NoConnection \in Object
  <2>1. <<>> \in Seq(Nat)
    OBVIOUS
  <2> QED BY <2>1 DEF NoConnection, Object
<1>3. Types
  <2>1. mConns \in [DOMAIN mConns -> Clients] /\ DOMAIN mConns = {}
    OBVIOUS
  <2>2. <<>> \in Seq(Nat)
    OBVIOUS
  <2> QED BY <1>2, <2>1, <2>2 DEF Types, Kinds
<1>4. EventsHaveOwners /\ Descriptors /\ Objects
  <2>1. Len(<<>>) = 0 /\ FrameLength > 0
    BY DEF FrameLength
  <2> QED BY <1>1, <1>2, <2>1 DEF EventsHaveOwners, Descriptors, Objects, NoConnection, Object, Kinds
<1>5. Table
  BY <1>1 DEF Table
<1>6. Driving /\ Serving /\ Accepts /\ Drops
  BY DEF Driving, Serving, Accepts, Drops
<1> QED BY <1>3, <1>4, <1>5, <1>6 DEF IInv

-----------------------------------------------------------------------------
(* The connections, the events and the NetService's queue stay: what is    *)
(* left to look at is where the driver is and who has gone.                *)
LEMMA ConnectionsStay ==
  ASSUME IInv, Types', ended' # "exists",
         UNCHANGED <<mNetQueue, conn, mEventsInfo, nPc, mConns, mMaxID>>,
         \A e \in active' : mEventsInfo[e[1]][e[2]] # None,
         peerClosed \subseteq peerClosed',
         \A c \in backlog' : conn[c] = NoConnection,
         dPc \in {"unregister", "refuse"} => UNCHANGED <<dPc, dConn>>,
         Driving'
  PROVE  IInv'
<1> USE DEF IInv
<1>1. EventsHaveOwners'
  BY DEF EventsHaveOwners, Registered
<1>2. Descriptors' /\ Table'
  BY DEF Descriptors, Table
<1>3. Objects'
  BY DEF Objects
<1>4. Serving' /\ Accepts' /\ Drops'
  BY DEF Serving, NextIs, Accepts, Drops
<1> QED BY <1>1, <1>2, <1>3, <1>4

LEMMA ActivesAreRegistered ==
  ASSUME IInv, NEW e \in active
  PROVE  LET c == mEventsInfo[e[1]][e[2]] IN
         /\ e[1] \in Fds /\ e[2] \in Kinds
         /\ c \in Clients /\ conn[c].object = "live" /\ conn[c].fd = e[1]
<1>1. e[1] \in Fds /\ e[2] \in Kinds
  BY DEF IInv, Types
<1>2. mEventsInfo[e[1]][e[2]] \in Clients \cup {None} /\ mEventsInfo[e[1]][e[2]] # None
  BY <1>1 DEF IInv, Types, EventsHaveOwners, Registered
<1> QED BY <1>1, <1>2 DEF IInv, EventsHaveOwners

LEMMA EnvironmentKeeps ==
  ASSUME IInv, ended = "no", Environment
  PROVE  IInv'
<1> USE ConnectionAssumption
<1>1. ASSUME NEW c \in Clients, PeerConnects(c) \/ PeerSends(c) \/ PeerEnds(c),
             UNCHANGED <<queues, received, conn, mEventsInfo, driver, service, ended>>
      PROVE  IInv'
  <2> USE <1>1 DEF queues, driver, service
  <2>1. Types'
    <3>1. stream' \in [Clients -> Seq(Nat)]
      <4>1. CASE PeerConnects(c)
        BY <4>1 DEF PeerConnects, IInv, Types
      <4>2. CASE PeerSends(c)
        <5>1. written[c] \in Nat /\ FrameLength \in Nat \ {0} /\ stream[c] \in Seq(Nat)
          BY DEF IInv, Types, FrameLength
        <5>2. written[c] \div FrameLength \in Nat
          BY <5>1, SMTT(30)
        <5>3. Append(stream[c], 1 + written[c] \div FrameLength) \in Seq(Nat)
          BY <5>1, <5>2
        <5> QED BY <4>2, <5>3 DEF PeerSends, IInv, Types
      <4>3. CASE PeerEnds(c)
        <5>1. PICK n \in 0 .. Len(stream[c]) : stream' = [stream EXCEPT ![c] = SubSeq(@, 1, n)]
          BY <4>3 DEF PeerEnds
        <5>2. SubSeq(stream[c], 1, n) \in Seq(Nat)
          <6>1. stream[c] \in Seq(Nat)
            BY DEF IInv, Types
          <6> QED BY <6>1
        <5> QED BY <5>1, <5>2 DEF IInv, Types
      <4> QED BY <1>1, <4>1, <4>2, <4>3
    <3>2. written' \in [Clients -> Nat] /\ backlog' \subseteq Clients /\ peerClosed' \subseteq Clients
          /\ sends' \in Nat
      <4>1. CASE PeerConnects(c)
        BY <4>1 DEF PeerConnects, IInv, Types
      <4>2. CASE PeerSends(c)
        BY <4>2 DEF PeerSends, IInv, Types
      <4>3. CASE PeerEnds(c)
        BY <4>3 DEF PeerEnds, IInv, Types
      <4> QED BY <1>1, <4>1, <4>2, <4>3
    <3> QED BY <3>1, <3>2 DEF IInv, Types
  <2>2. peerClosed \subseteq peerClosed'
    BY DEF PeerConnects, PeerSends, PeerEnds
  <2>3. \A d \in backlog' : conn[d] = NoConnection
    BY DEF PeerConnects, PeerSends, PeerEnds, IInv, Objects, Types
  <2>4. Driving' /\ \A e \in active' : mEventsInfo[e[1]][e[2]] # None
    BY <2>2 DEF IInv, Driving, EventsHaveOwners, Registered
  <2>5. ended' # "exists"
    BY DEF IInv, EventsHaveOwners
  <2> QED BY <2>1, <2>2, <2>3, <2>4, <2>5, ConnectionsStay
<1>2. ASSUME NEW id \in 0 .. mMaxID, WorkerSends(id),
             UNCHANGED <<received, conn, mEventsInfo, driver, service, ended>>
      PROVE  IInv'
  <2> USE <1>2 DEF WorkerSends, driver, service
  <2> DEFINE e == Send(id, sends + 1)
  <2>1. e \in NetContexts /\ e.op = "OP_SEND"
    BY DEF NetContexts, Send, IInv, Types
  <2>2. mNetQueue' = Append(mNetQueue, e)
    OBVIOUS
  <2> HIDE DEF e
  <2>3. Types'
    <3>1. IsQueue(mNetQueue') /\ Range(mNetQueue') \subseteq NetContexts
      BY <2>1, <2>2, NetQueueGrows
    <3>2. sends' \in Nat /\ mWorkerQueue' = mWorkerQueue
      BY DEF IInv, Types
    <3> QED BY <3>1, <3>2 DEF IInv, Types
  <2>4. EventsHaveOwners' /\ Descriptors' /\ Objects' /\ Table' /\ Driving'
    BY DEF IInv, EventsHaveOwners, Registered, Descriptors, Objects, Table, Driving
  <2>5. Serving'
    BY <2>1, <2>2, NetQueueGrows DEF IInv, Serving, NextIs
  <2>6. Accepts'
    BY <2>1, <2>2, NetQueueGrows DEF IInv, Accepts
  <2>7. Drops'
    BY <2>1, <2>2, NetQueueGrows DEF IInv, Drops
  <2> QED BY <2>3, <2>4, <2>5, <2>6, <2>7 DEF IInv
<1> QED BY <1>1, <1>2 DEF Environment

LEMMA PollKeeps ==
  ASSUME IInv, ended = "no", Poll
  PROVE  IInv'
<1> USE DEF Poll, queues, peers, service
<1>1. Types'
  BY DEF IInv, Types
<1>2. \A e \in active' : mEventsInfo[e[1]][e[2]] # None
  BY DEF Registered
<1>3. Driving' /\ ended' # "exists" /\ \A c \in backlog' : conn[c] = NoConnection
  BY DEF IInv, Driving, Types, Objects
<1> QED BY <1>1, <1>2, <1>3, ConnectionsStay

LEMMA DispatchKeeps ==
  ASSUME IInv, ended = "no", Dispatch
  PROVE  IInv'
<1> USE DEF Dispatch, queues, peers, service
<1>1. PICK e \in active : /\ active' = active \ {e}
                          /\ dPc' = e[2]
                          /\ dConn' = mEventsInfo[e[1]][e[2]]
  OBVIOUS
<1>2. dPc' \in Kinds /\ dConn' \in Clients /\ conn[dConn'].object = "live"
  BY <1>1, ActivesAreRegistered
<1>3. Types'
  BY <1>1, <1>2, ConnectionAssumption DEF IInv, Types, Kinds
<1>4. Driving'
  BY <1>2 DEF Driving, Kinds
<1>5. \A d \in active' : mEventsInfo[d[1]][d[2]] # None
  BY <1>1 DEF IInv, EventsHaveOwners, Registered
<1>6. ended' # "exists" /\ \A c \in backlog' : conn[c] = NoConnection
  BY DEF IInv, Types, Objects
<1> QED BY <1>3, <1>4, <1>5, <1>6, ConnectionsStay

LEMMA EnterReadDataKeeps ==
  ASSUME IInv, ended = "no", EnterReadData
  PROVE  IInv'
<1> USE DEF EnterReadData, queues, peers, service
<1>1. Types'
  BY DEF IInv, Types
<1>2. Driving'
  BY DEF IInv, Driving
<1>3. \A d \in active' : mEventsInfo[d[1]][d[2]] # None
  BY DEF IInv, EventsHaveOwners, Registered
<1>4. ended' # "exists" /\ \A c \in backlog' : conn[c] = NoConnection
  BY DEF IInv, Types, Objects
<1> QED BY <1>1, <1>2, <1>3, <1>4, ConnectionsStay

LEMMA EndingKeeps ==
  ASSUME IInv, ended = "no", UnRegistAborts \/ Crash
  PROVE  IInv'
<1> USE DEF UnRegistAborts, Crash, queues, peers, driver, service
<1>1. Types' /\ Driving'
  BY DEF IInv, Types, Driving
<1>2. \A d \in active' : mEventsInfo[d[1]][d[2]] # None
  BY DEF IInv, EventsHaveOwners, Registered
<1>3. ended' # "exists" /\ \A c \in backlog' : conn[c] = NoConnection
  BY DEF IInv, Types, Objects
<1> QED BY <1>1, <1>2, <1>3, ConnectionsStay

LEMMA AcceptSocketKeeps ==
  ASSUME IInv, ended = "no", NEW c \in Clients, AcceptSocket(c)
  PROVE  IInv'
<1> USE ConnectionAssumption
<1>1. PICK fd \in Fds : /\ \A other \in Clients : conn[other].fd # fd
                        /\ conn' = [conn EXCEPT ![c].fd = fd]
  BY DEF AcceptSocket
<1>2. /\ c \in backlog /\ backlog' = backlog \ {c} /\ dPc = "loop"
      /\ mNetQueue' = Append(mNetQueue, Accept(c))
      /\ UNCHANGED <<mWorkerQueue, stream, written, peerClosed, sends, received, mEventsInfo,
                     active, dPc, dConn, nPc, taken, mConns, mMaxID, ended>>
  BY DEF AcceptSocket, driver, service
<1>3. /\ Accept(c) \in NetContexts /\ Accept(c).op = "OP_ACCEPT" /\ Accept(c).socket = c
  BY DEF Accept, NetContexts
<1>4. /\ conn' \in [Clients -> Object]
      /\ conn'[c] = [conn[c] EXCEPT !.fd = fd] /\ conn[c] \in Object
      /\ \A d \in Clients \ {c} : conn'[d] = conn[d]
  <2>1. conn \in [Clients -> Object] /\ conn[c] \in Object
    BY DEF IInv, Types
  <2>2. [conn[c] EXCEPT !.fd = fd] \in Object
    BY <2>1 DEF Object
  <2> QED BY <1>1, <2>1, <2>2
<1>5. /\ conn'[c].fd = fd
      /\ \A d \in Clients :
           /\ conn'[d].object = conn[d].object /\ conn'[d].mConnID = conn[d].mConnID
           /\ conn'[d].mClosed = conn[d].mClosed /\ conn'[d].mRecved = conn[d].mRecved
           /\ conn'[d].mToSendMsg = conn[d].mToSendMsg /\ conn'[d].mSent = conn[d].mSent
           /\ d # c => conn'[d].fd = conn[d].fd
  BY <1>4, ZenonT(40) DEF Object
<1>6. conn[c] = NoConnection
  BY <1>2 DEF IInv, Objects
<1>7. conn[c].object = "none" /\ conn[c].fd = None /\ conn[c].mConnID = None /\ ~conn[c].mClosed
      /\ conn[c].mRecved = <<>> /\ conn[c].mToSendMsg = <<>> /\ conn[c].mSent = 0
  BY <1>6 DEF NoConnection
<1>8. mNetQueue' = Append(mNetQueue, Accept(c)) /\ Accept(c) \in NetContexts
  BY <1>2, <1>3
<1>9. \A x \in Range(mNetQueue) : x.op = "OP_ACCEPT" => x \in NetContexts /\ x.socket \in Clients \ {c}
  <2>1. ASSUME NEW x \in Range(mNetQueue), x.op = "OP_ACCEPT"
        PROVE  x \in NetContexts /\ x.socket \in Clients
    BY <2>1 DEF IInv, Types, NetContexts
  <2>2. ASSUME NEW x \in Range(mNetQueue), x.op = "OP_ACCEPT"
        PROVE  x.socket # c
    BY <2>2, <1>7 DEF IInv, Accepts
  <2> QED BY <2>1, <2>2
<1> HIDE DEF Accept
<1>10. Types'
  <2>1. IsQueue(mNetQueue') /\ Range(mNetQueue') \subseteq NetContexts
    BY <1>8, NetQueueGrows
  <2> QED BY <1>2, <1>4, <2>1 DEF IInv, Types
<1>11. EventsHaveOwners'
  BY <1>2, <1>5, <1>7, Registrants DEF IInv, EventsHaveOwners, Registered
<1>12. Descriptors'
  BY <1>1, <1>5 DEF IInv, Descriptors
<1>13. Objects'
  BY <1>2, <1>4, <1>5, <1>7 DEF IInv, Objects
<1>14. Table'
  BY <1>2, <1>5, Registrants DEF IInv, Table
<1>15. Driving'
  BY <1>2 DEF IInv, Driving, Types
<1>16. Serving'
  <2>1. nPc = "regist" => Head(mNetQueue).socket # c
    BY <1>7, Registrants DEF IInv, Serving
  <2>2. mNetQueue # <<>> => mNetQueue' # <<>> /\ Head(mNetQueue)' = Head(mNetQueue)
    BY <1>8, NetQueueGrows
  <2> QED BY <1>2, <1>5, <2>1, <2>2, Registrants DEF IInv, Serving, NextIs
<1>17. Accepts'
  <2>1. ASSUME NEW x \in Range(mNetQueue), x.op = "OP_ACCEPT"
        PROVE  /\ conn'[x.socket].fd \in Fds
               /\ conn'[x.socket].object = "none" \/ (nPc' = "regist" /\ x = Head(mNetQueue)')
               /\ ~Before(mNetQueue', x, x)
    <3>1. x.socket \in Clients \ {c} /\ x # Accept(c)
      BY <1>9, <2>1, <1>3
    <3> QED BY <1>2, <1>5, <1>8, <2>1, <3>1, NetQueueGrows DEF IInv, Accepts
  <2>2. conn'[c].fd \in Fds /\ conn'[c].object = "none"
    BY <1>5, <1>7
  <2>3. ~Before(mNetQueue', Accept(c), Accept(c))
    <3>1. Accept(c) \notin Range(mNetQueue)
      BY <1>3, <1>9
    <3> QED BY <3>1, <1>8, NetQueueGrows, BeforeIsInQueue
  <2> QED BY <1>3, <1>8, <2>1, <2>2, <2>3, NetQueueGrows DEF Accepts
<1>18. Drops'
  <2>1. ASSUME NEW x \in Range(mNetQueue), x.op = "OP_DROP"
        PROVE  \E d \in Clients : conn'[d].mConnID = x.conn /\ conn'[d].mClosed /\ conn'[d].fd = None
    <3>1. PICK d \in Clients : conn[d].mConnID = x.conn /\ conn[d].mClosed /\ conn[d].fd = None
      BY <2>1 DEF IInv, Drops
    <3> QED BY <1>5, <1>7, <3>1
  <2> QED BY <1>3, <1>8, <2>1, NetQueueGrows DEF Drops
<1> QED BY <1>10, <1>11, <1>12, <1>13, <1>14, <1>15, <1>16, <1>17, <1>18 DEF IInv

-----------------------------------------------------------------------------
(* The NetService's queue loses its head, if at all, and gets at most e,   *)
(* while connections only close.                                           *)
LEMMA QueueKeeps ==
  ASSUME IInv, NEW rest, NEW e \in NetContexts,
         \/ rest = mNetQueue /\ (nPc = "regist" => nPc' = "regist")
         \/ mNetQueue # <<>> /\ rest = Tail(mNetQueue) /\ nPc' = "idle",
         mNetQueue' = rest \/ mNetQueue' = Append(rest, e),
         e.op # "OP_ACCEPT",
         e.op = "OP_DROP" => \E c \in Clients : /\ conn'[c].mConnID = e.conn
                                                /\ conn'[c].mClosed /\ conn'[c].fd = None,
         \A c \in Clients :
           /\ conn'[c].mConnID = conn[c].mConnID
           /\ conn[c].object = "none" => conn'[c].object = "none" /\ conn'[c].fd = conn[c].fd
           /\ conn[c].mClosed /\ conn[c].fd = None => conn'[c].mClosed /\ conn'[c].fd = None,
         nPc = "regist" => conn'[Head(mNetQueue).socket].fd \in Fds
  PROVE  /\ IsQueue(mNetQueue') /\ Range(mNetQueue') \subseteq NetContexts
         /\ Accepts' /\ Drops'
         /\ rest = mNetQueue /\ mNetQueue # <<>> =>
              mNetQueue' # <<>> /\ Head(mNetQueue)' = Head(mNetQueue)
<1>1. /\ IsQueue(rest) /\ Range(rest) \subseteq NetContexts
      /\ Range(rest) \subseteq Range(mNetQueue)
      /\ \A x \in Range(rest) : Before(rest, x, x) => Before(mNetQueue, x, x)
      /\ rest # mNetQueue =>
           nPc' = "idle" /\ \A y \in Range(rest) : Before(mNetQueue, Head(mNetQueue), y)
  <2>1. CASE rest = mNetQueue
    BY <2>1 DEF IInv, Types
  <2>2. CASE mNetQueue # <<>> /\ rest = Tail(mNetQueue) /\ nPc' = "idle"
    <3>1. /\ IsQueue(rest)
          /\ Range(mNetQueue) = {Head(mNetQueue)} \cup Range(rest)
          /\ \A x, y : Before(rest, x, y) => Before(mNetQueue, x, y)
          /\ \A y \in Range(rest) : Before(mNetQueue, Head(mNetQueue), y)
      BY <2>2, TailOfQueue DEF IInv, Types
    <3> QED BY <2>2, <3>1 DEF IInv, Types
  <2> QED BY <2>1, <2>2
<1>2. /\ IsQueue(mNetQueue') /\ Range(mNetQueue') \subseteq Range(rest) \cup {e}
      /\ \A x \in Range(mNetQueue') : x # e /\ Before(mNetQueue', x, x) => Before(rest, x, x)
      /\ rest # <<>> => mNetQueue' # <<>> /\ Head(mNetQueue') = Head(rest)
  <2>1. CASE mNetQueue' = rest
    BY <1>1, <2>1
  <2>2. CASE mNetQueue' = Append(rest, e)
    BY <1>1, <2>2, AppendToQueue, HeadStays
  <2> QED BY <2>1, <2>2
<1>3. ASSUME NEW x \in Range(mNetQueue'), x.op = "OP_ACCEPT"
      PROVE  /\ conn'[x.socket].fd \in Fds
             /\ conn'[x.socket].object = "none" \/ (nPc' = "regist" /\ x = Head(mNetQueue)')
             /\ ~Before(mNetQueue', x, x)
  <2>1. x # e /\ x \in Range(rest) /\ x \in Range(mNetQueue)
    BY <1>1, <1>2, <1>3
  <2>2. /\ conn[x.socket].fd \in Fds
        /\ conn[x.socket].object = "none" \/ (nPc = "regist" /\ x = Head(mNetQueue))
        /\ ~Before(mNetQueue, x, x)
    BY <1>3, <2>1 DEF IInv, Accepts
  <2>3. x.socket \in Clients
    BY <1>3, <2>1 DEF IInv, Types, NetContexts
  <2>4. ~Before(mNetQueue', x, x)
    BY <1>1, <1>2, <2>1, <2>2
  <2>5. CASE conn[x.socket].object = "none"
    BY <2>2, <2>3, <2>4, <2>5
  <2>6. CASE nPc = "regist" /\ x = Head(mNetQueue)
    <3>1. rest = mNetQueue
      BY <1>1, <2>1, <2>2, <2>6
    <3>2. nPc' = "regist" /\ Head(mNetQueue)' = x
      BY <1>2, <2>6, <3>1, Registrants
    <3> QED BY <2>4, <2>6, <3>2
  <2> QED BY <2>2, <2>5, <2>6
<1>4. ASSUME NEW x \in Range(mNetQueue'), x.op = "OP_DROP"
      PROVE  \E c \in Clients : conn'[c].mConnID = x.conn /\ conn'[c].mClosed /\ conn'[c].fd = None
  <2>1. CASE x = e
    BY <1>4, <2>1
  <2>2. CASE x # e
    <3>1. x \in Range(mNetQueue)
      BY <1>1, <1>2, <2>2
    <3>2. PICK c \in Clients : conn[c].mConnID = x.conn /\ conn[c].mClosed /\ conn[c].fd = None
      BY <1>4, <3>1 DEF IInv, Drops
    <3> QED BY <3>2
  <2> QED BY <2>1, <2>2
<1>5. Accepts'
  BY <1>3 DEF Accepts
<1>6. Drops'
  BY <1>4 DEF Drops
<1> QED BY <1>1, <1>2, <1>5, <1>6

(* What has been received or is to be sent may change, and which handler   *)
(* the driver is in.                                                       *)
LEMMA BuffersOnly ==
  ASSUME IInv, Types', ended' # "exists", active' \subseteq active,
         \A c \in Clients :
           /\ conn'[c].object = conn[c].object /\ conn'[c].mConnID = conn[c].mConnID
           /\ conn'[c].fd = conn[c].fd /\ conn'[c].mClosed = conn[c].mClosed
           /\ conn[c].object = "none" => conn'[c] = conn[c]
           /\ Len(conn'[c].mRecved) < FrameLength,
         UNCHANGED <<mEventsInfo, mConns, mMaxID, backlog, peerClosed>>,
         dPc \in {"unregister", "refuse"} => UNCHANGED <<dPc, dConn>>,
         Driving', Serving', Accepts', Drops'
  PROVE  IInv'
<1>1. EventsHaveOwners'
  BY Registrants DEF IInv, EventsHaveOwners, Registered
<1>2. Descriptors'
  BY DEF IInv, Descriptors
<1>3. Objects'
  <2>1. ASSUME NEW c \in Clients
        PROVE  /\ conn[c] = NoConnection => conn'[c] = NoConnection
               /\ conn'[c].mClosed => conn'[c].fd = None \/ (dPc' \in {"unregister", "refuse"} /\ dConn' = c)
    BY DEF NoConnection, IInv, Objects
  <2> QED BY <2>1 DEF IInv, Objects
<1>4. Table'
  BY Registrants DEF IInv, Table
<1> QED BY <1>1, <1>2, <1>3, <1>4 DEF IInv

LEMMA ReadingKeeps ==
  ASSUME IInv, ended = "no", PreRecv \/ RecvPart \/ RecvRest \/ ReadNotOkay
  PROVE  IInv'
<1> USE ConnectionAssumption
<1> DEFINE c == dConn
<1>1. /\ c \in Clients /\ conn[c] \in Object /\ conn[c].object # "none" /\ stream[c] \in Seq(Nat)
      /\ conn[c].mConnID \in 0 .. mMaxID - 1 /\ conn[c].mRecved \in Seq(Nat)
      /\ dPc \in {"header", "body", "read"}
  BY Registrants, ZenonT(40) DEF PreRecv, RecvPart, RecvRest, ReadNotOkay, IInv, Types, Objects, Object
<1>m. Missing(c) \in Nat \ {0}
  <2>1. Len(conn[c].mRecved) \in Nat /\ FrameLength \in Nat
    BY <1>1 DEF FrameLength
  <2>2. Len(conn[c].mRecved) < FrameLength
    BY <1>1 DEF IInv, Objects
  <2> QED BY <2>1, <2>2 DEF Missing
<1>2. PICK r \in Seq(Nat) : conn' = [conn EXCEPT ![c].mRecved = r] /\ Len(r) < FrameLength
  <2>1. CASE PreRecv
    <3>1. conn[c].mRecved \o SubSeq(stream[c], 1, HEAD_LENGTH) \in Seq(Nat)
      BY <1>1, <2>1, SMTT(30) DEF PreRecv
    <3>2. conn[c].mRecved = <<>> /\ dPc = "header"
      BY <1>1, <2>1 DEF PreRecv, IInv, Driving, Types
    <3>3. HEAD_LENGTH < FrameLength
      BY DEF FrameLength
    <3>4. Len(conn[c].mRecved \o SubSeq(stream[c], 1, HEAD_LENGTH)) = HEAD_LENGTH
      BY <1>1, <2>1, <3>2 DEF PreRecv
    <3> QED BY <2>1, <3>1, <3>3, <3>4 DEF PreRecv, Receive
  <2>2. CASE RecvPart
    <3>1. conn[c].mRecved \o SubSeq(stream[c], 1, Len(stream[c])) \in Seq(Nat)
      BY <1>1
    <3>2. Len(conn[c].mRecved \o SubSeq(stream[c], 1, Len(stream[c])))
            = Len(conn[c].mRecved) + Len(stream[c])
      <4>1. \A a, s \in Seq(Nat) : Len(a \o SubSeq(s, 1, Len(s))) = Len(a) + Len(s)
        <5>1. \A s \in Seq(Nat) : Len(s) \in 0 .. Len(s)
          OBVIOUS
        <5> QED BY <5>1, Taking
      <4> QED BY <1>1, <4>1
    <3>3. Len(conn[c].mRecved) + Len(stream[c]) < FrameLength
      <4>1. Len(conn[c].mRecved) \in Nat /\ Len(stream[c]) \in Nat /\ FrameLength \in Nat
        BY <1>1 DEF FrameLength
      <4>2. Len(stream[c]) < FrameLength - Len(conn[c].mRecved)
        BY <2>2 DEF RecvPart, Missing
      <4>3. \A i, j, k \in Nat : i < k - j => j + i < k
        OBVIOUS
      <4> QED BY <4>1, <4>2, <4>3
    <3> QED BY <2>2, <3>1, <3>2, <3>3 DEF RecvPart, Receive
  <2>3. CASE RecvRest \/ ReadNotOkay
    <3>1. <<>> \in Seq(Nat) /\ Len(<<>>) = 0 /\ FrameLength > 0
      BY DEF FrameLength
    <3> QED BY <2>3, <3>1 DEF RecvRest, ReadNotOkay, ResetRecv
  <2> QED BY <2>1, <2>2, <2>3
<1>3. /\ conn' \in [Clients -> Object]
      /\ \A d \in Clients :
           /\ conn'[d].object = conn[d].object /\ conn'[d].mConnID = conn[d].mConnID
           /\ conn'[d].fd = conn[d].fd /\ conn'[d].mClosed = conn[d].mClosed
           /\ conn'[d].mToSendMsg = conn[d].mToSendMsg
           /\ conn[d].object = "none" => conn'[d] = conn[d]
           /\ Len(conn'[d].mRecved) < FrameLength
  <2>1. conn'[c].mRecved = r
    BY <1>1, <1>2 DEF IInv, Types, Object
  <2>2. \A d \in Clients : Len(conn[d].mRecved) < FrameLength
    BY DEF IInv, Objects
  <2> QED BY <1>1, <1>2, <2>1, <2>2 DEF IInv, Types, Object
<1>4. stream' \in [Clients -> Seq(Nat)]
  <2>1. \A n \in Nat : n <= Len(stream[c]) => SubSeq(stream[c], n + 1, Len(stream[c])) \in Seq(Nat)
    BY <1>1
  <2>2. CASE PreRecv
    BY <2>1, <2>2 DEF PreRecv, Receive, IInv, Types
  <2>3. CASE RecvPart
    <3>1. Len(stream[c]) \in Nat
      BY <1>1
    <3> QED BY <2>1, <2>3, <3>1, SMTT(30) DEF RecvPart, Receive, IInv, Types
  <2>4. CASE RecvRest
    <3>1. SubSeq(stream[c], Missing(c) + 1, Len(stream[c])) \in Seq(Nat)
      BY <1>1, <1>m, <2>1, <2>4 DEF RecvRest
    <3> QED BY <2>4, <3>1 DEF RecvRest, IInv, Types
  <2>5. CASE ReadNotOkay
    BY <2>5 DEF ReadNotOkay, peers, IInv, Types
  <2> QED BY <2>2, <2>3, <2>4, <2>5
<1>5. PICK e \in NetContexts :
        /\ mNetQueue' = mNetQueue \/ mNetQueue' = Append(mNetQueue, e)
        /\ e.op # "OP_ACCEPT"
        /\ e.op = "OP_DROP" => ReadNotOkay /\ e.conn = conn[c].mConnID
  <2>1. CASE PreRecv \/ RecvPart
    <3>1. Recv(0, <<>>) \in NetContexts /\ Recv(0, <<>>).op = "OP_RECV"
      <4>1. <<>> \in Seq(Nat)
        OBVIOUS
      <4> QED BY <4>1 DEF Recv, NetContexts
    <3> QED BY <2>1, <3>1 DEF PreRecv, RecvPart, queues
  <2>2. CASE RecvRest
    <3> DEFINE units == conn[c].mRecved \o SubSeq(stream[c], 1, Missing(c))
               e == Recv(conn[c].mConnID, units)
    <3>1. Missing(c) \in Int /\ Missing(c) <= Len(stream[c])
      BY <1>1, <1>m, <2>2 DEF RecvRest
    <3>2. units \in Seq(Nat)
      BY <1>1, <3>1
    <3>3. e \in NetContexts /\ e.op = "OP_RECV"
      BY <1>1, <3>2 DEF Recv, NetContexts
    <3> QED BY <2>2, <3>3 DEF RecvRest
  <2>3. CASE ReadNotOkay
    <3>1. Drop(conn[c].mConnID) \in NetContexts /\ Drop(conn[c].mConnID).conn = conn[c].mConnID
          /\ Drop(conn[c].mConnID).op = "OP_DROP"
      BY <1>1 DEF Drop, NetContexts, IInv, Types
    <3> QED BY <2>3, <3>1 DEF ReadNotOkay
  <2> QED BY <2>1, <2>2, <2>3
<1>6. ReadNotOkay => conn[c].mClosed /\ conn[c].fd = None
  BY <1>1 DEF ReadNotOkay, IInv, Objects
<1>7. /\ UNCHANGED <<mWorkerQueue, backlog, written, peerClosed, sends, received, mEventsInfo,
                     active, nPc, taken, mConns, mMaxID, ended>>
      /\ \/ dPc' = "loop" /\ dConn' = None
         \/ dPc' = "body" /\ dConn' = c /\ ~conn[c].mClosed
  BY DEF PreRecv, RecvPart, RecvRest, ReadNotOkay, BackToLoop, queues, peers, service, IInv, Driving,
         Types
<1>8. /\ IsQueue(mNetQueue') /\ Range(mNetQueue') \subseteq NetContexts
      /\ Accepts' /\ Drops'
      /\ mNetQueue # <<>> => mNetQueue' # <<>> /\ Head(mNetQueue)' = Head(mNetQueue)
  <2>1. nPc = "regist" => conn'[Head(mNetQueue).socket].fd \in Fds
    BY <1>3, Registrants DEF IInv, Serving
  <2>2. e.op = "OP_DROP" => \E d \in Clients : /\ conn'[d].mConnID = e.conn
                                               /\ conn'[d].mClosed /\ conn'[d].fd = None
    BY <1>1, <1>3, <1>5, <1>6
  <2> QED BY <1>3, <1>5, <1>7, <2>1, <2>2, QueueKeeps
<1>9. Types'
  <2>1. dConn' \in Clients \cup {None} /\ (dPc' = "loop" <=> dConn' = None)
        /\ dPc' \in {"loop", "body"}
    BY <1>1, <1>7
  <2> QED BY <2>1, <1>3, <1>4, <1>7, <1>8 DEF IInv, Types
<1>10. Driving'
  BY <1>1, <1>3, <1>7 DEF Driving
<1>11. Serving'
  BY <1>3, <1>7, <1>8, Registrants DEF IInv, Serving, NextIs
<1> QED BY <1>1, <1>3, <1>7, <1>8, <1>9, <1>10, <1>11, BuffersOnly DEF IInv, EventsHaveOwners

LEMMA UnRegistered ==
  ASSUME IInv, NEW fd \in Fds, NEW kinds \in SUBSET Kinds, UnRegist(fd, kinds)
  PROVE  /\ mEventsInfo' \in [Fds -> [Kinds -> Clients \cup {None}]]
         /\ \A f \in Fds, k \in Kinds :
              mEventsInfo'[f][k] = IF f = fd /\ k \in kinds THEN None ELSE mEventsInfo[f][k]
         /\ active' \subseteq active
         /\ \A e \in active' : mEventsInfo'[e[1]][e[2]] # None
<1>1. /\ mEventsInfo' = [mEventsInfo EXCEPT ![fd] =
                          [k \in Kinds |-> IF k \in kinds THEN None ELSE @[k]]]
      /\ active' = active \ ({fd} \X kinds)
  BY DEF UnRegist
<1>2. mEventsInfo \in [Fds -> [Kinds -> Clients \cup {None}]] /\ active \subseteq Fds \X Kinds
  BY DEF IInv, Types
<1>3. mEventsInfo' \in [Fds -> [Kinds -> Clients \cup {None}]]
  BY <1>1, <1>2
<1>4. \A f \in Fds, k \in Kinds :
        mEventsInfo'[f][k] = IF f = fd /\ k \in kinds THEN None ELSE mEventsInfo[f][k]
  BY <1>1, <1>2
<1>5. \A e \in active' : mEventsInfo'[e[1]][e[2]] # None
  <2>1. ASSUME NEW e \in active'
        PROVE  mEventsInfo'[e[1]][e[2]] # None
    <3>1. e \in active /\ e \in Fds \X Kinds /\ e \notin {fd} \X kinds
      BY <1>1, <1>2
    <3>2. e[1] \in Fds /\ e[2] \in Kinds /\ ~(e[1] = fd /\ e[2] \in kinds)
      BY <3>1
    <3> QED BY <1>4, <3>1, <3>2, Registrants
  <2> QED BY <2>1
<1> QED BY <1>1, <1>3, <1>4, <1>5

LEMMA EndOfStreamKeeps ==
  ASSUME IInv, ended = "no", EndOfStream \/ RefuseLength
  PROVE  IInv'
<1> USE ConnectionAssumption
<1> DEFINE c == dConn
<1>1. /\ c \in Clients /\ conn[c] \in Object /\ ~conn[c].mClosed
      /\ conn[c].object = "live" /\ conn[c].fd \in Fds
  BY Registrants, SMTT(30) DEF EndOfStream, RefuseLength, IInv, Types, Driving, Objects, Object
<1>2. /\ stream' = [stream EXCEPT ![c] = <<>>]
      /\ \/ conn' = [conn EXCEPT ![c].mClosed = TRUE]
         \/ conn' = [conn EXCEPT ![c].mClosed = TRUE, ![c].refused = TRUE]
      /\ dPc' \in {"unregister", "refuse"} /\ (dPc' = "unregister" => c \in peerClosed)
      /\ dPc \in {"header", "body"}
      /\ UNCHANGED <<mNetQueue, mWorkerQueue, backlog, written, peerClosed, sends, received, dConn,
                     nPc, taken, mConns, mMaxID, ended>>
  BY DEF EndOfStream, RefuseLength, queues, service
<1>3. /\ mEventsInfo' \in [Fds -> [Kinds -> Clients \cup {None}]]
      /\ \A f \in Fds, k \in Kinds :
           mEventsInfo'[f][k] = IF f = conn[c].fd /\ k = "read" THEN None ELSE mEventsInfo[f][k]
      /\ active' \subseteq active
      /\ \A e \in active' : mEventsInfo'[e[1]][e[2]] # None
  <2>1. {"read"} \in SUBSET Kinds /\ UnRegist(conn[c].fd, {"read"})
    BY DEF EndOfStream, RefuseLength, Kinds
  <2> QED BY <1>1, <2>1, UnRegistered
<1>4. /\ conn' \in [Clients -> Object] /\ conn'[c].mClosed
      /\ \A d \in Clients :
           /\ conn'[d].object = conn[d].object /\ conn'[d].mConnID = conn[d].mConnID
           /\ conn'[d].fd = conn[d].fd /\ conn'[d].mRecved = conn[d].mRecved
           /\ conn'[d].mToSendMsg = conn[d].mToSendMsg
           /\ d # c => conn'[d] = conn[d]
  <2> DEFINE t == [conn[c] EXCEPT !.mClosed = TRUE]
             u == [t EXCEPT !.refused = TRUE]
  <2>1. /\ t \in Object /\ t.mClosed
        /\ t.object = conn[c].object /\ t.mConnID = conn[c].mConnID /\ t.fd = conn[c].fd
        /\ t.mRecved = conn[c].mRecved /\ t.mToSendMsg = conn[c].mToSendMsg
    BY <1>1 DEF Object
  <2>2. conn \in [Clients -> Object]
    BY DEF IInv, Types
  <2>3. conn' = [conn EXCEPT ![c] = t] \/ conn' = [conn EXCEPT ![c] = u]
    BY <1>1, <1>2, <2>2
  <2> HIDE DEF t
  <2>4. /\ u \in Object /\ u.mClosed
        /\ u.object = t.object /\ u.mConnID = t.mConnID /\ u.fd = t.fd
        /\ u.mRecved = t.mRecved /\ u.mToSendMsg = t.mToSendMsg
    BY <2>1 DEF Object
  <2> HIDE DEF u
  <2> QED BY <1>1, <2>1, <2>2, <2>3, <2>4
<1>5. Types'
  <2>1. stream' \in [Clients -> Seq(Nat)]
    BY <1>2 DEF IInv, Types
  <2> QED BY <1>1, <1>2, <1>3, <1>4, <2>1 DEF IInv, Types
<1>6. EventsHaveOwners'
  BY <1>2, <1>3, <1>4, Registrants DEF IInv, EventsHaveOwners, Registered
<1>7. Descriptors' /\ Table'
  BY <1>2, <1>4, Registrants DEF IInv, Descriptors, Table
<1>8. Objects'
  <2>1. c \notin backlog
    BY <1>1 DEF IInv, Objects, NoConnection
  <2>2. Len(conn[c].mRecved) < FrameLength
    BY <1>1 DEF IInv, Objects
  <2>3. ASSUME NEW d \in Clients \ {c}
        PROVE  conn'[d].mClosed => conn'[d].fd = None
    BY <1>2, <1>4, <2>3 DEF IInv, Objects
  <2> QED BY <1>1, <1>2, <1>4, <2>1, <2>2, <2>3 DEF IInv, Objects
<1>9. Driving'
  BY <1>1, <1>2, <1>3, <1>4 DEF Driving, Kinds
<1>10. Serving'
  <2>1. nPc = "regist" =>
          LET tcp == conn'[Head(mNetQueue).socket] IN
          /\ tcp.object = "live" /\ tcp.fd \in Fds /\ tcp.mToSendMsg = <<>>
          /\ mEventsInfo'[tcp.fd]["write"] = None
    BY <1>3, <1>4, Registrants DEF IInv, Serving, Kinds
  <2> QED BY <1>2, <2>1 DEF IInv, Serving, NextIs
<1>11. Accepts' /\ Drops'
  <2>1. \A x \in Range(mNetQueue) : x.op = "OP_ACCEPT" => x.socket \in Clients
    BY DEF IInv, Types, NetContexts
  <2>2. Accepts'
    BY <1>2, <1>4, <2>1 DEF IInv, Accepts
  <2>3. \A d \in Clients : conn[d].mClosed => conn'[d].mClosed
    BY <1>4
  <2>4. Drops'
    BY <1>2, <1>4, <2>3 DEF IInv, Drops
  <2> QED BY <2>2, <2>4
<1> QED BY <1>5, <1>6, <1>7, <1>8, <1>9, <1>10, <1>11 DEF IInv

(* A connection gives up its events, its descriptor and its messages, and  *)
(* its drop is reported, or not.                                           *)
LEMMA ClosingKeeps ==
  ASSUME IInv, NEW c \in Clients, NEW rest,
         conn[c].object = "live", conn[c].fd \in Fds,
         nPc = "regist" => Head(mNetQueue).socket # c,
         conn' \in [Clients -> Object],
         \A d \in Clients \ {c} : conn'[d] = conn[d],
         conn'[c].object = "live", conn'[c].mConnID = conn[c].mConnID, conn'[c].fd = None,
         conn'[c].mClosed, Len(conn'[c].mRecved) < FrameLength,
         mEventsInfo' \in [Fds -> [Kinds -> Clients \cup {None}]],
         \A f \in Fds, k \in Kinds :
           mEventsInfo'[f][k] = IF f = conn[c].fd THEN None ELSE mEventsInfo[f][k],
         active' \subseteq active,
         \A e \in active' : mEventsInfo'[e[1]][e[2]] # None,
         \/ rest = mNetQueue /\ nPc' = nPc
         \/ mNetQueue # <<>> /\ rest = Tail(mNetQueue) /\ nPc' = "idle",
         mNetQueue' \in {rest, Append(rest, Drop(conn[c].mConnID))},
         \/ dPc' = "loop" /\ dConn' = None
         \/ UNCHANGED <<dPc, dConn>> /\ (dConn = c => dPc \in Kinds),
         dPc \in {"unregister", "refuse"} /\ dPc' = "loop" => dConn = c,
         received' \in [Clients -> Seq(Nat)],
         UNCHANGED <<mWorkerQueue, peers, mConns, mMaxID, ended>>
  PROVE  IInv'
<1> USE ConnectionAssumption
<1>1. conn[c].mConnID \in 0 .. mMaxID - 1 /\ conn[c].mConnID \in Nat /\ conn[c] \in Object
  BY DEF IInv, Types, Objects
<1> DEFINE e == Drop(conn[c].mConnID)
<1>2. e \in NetContexts /\ e.op = "OP_DROP" /\ e.conn = conn[c].mConnID
  BY <1>1 DEF Drop, NetContexts
<1> HIDE DEF e
<1>0. \A d \in Clients :
        /\ conn'[d].object = conn[d].object /\ conn'[d].mConnID = conn[d].mConnID
        /\ Len(conn'[d].mRecved) < FrameLength
        /\ d # c => conn'[d].fd = conn[d].fd /\ conn'[d].mClosed = conn[d].mClosed
  <2>1. ASSUME NEW d \in Clients \ {c}
        PROVE  conn'[d] = conn[d] /\ Len(conn[d].mRecved) < FrameLength
    BY DEF IInv, Objects
  <2> QED BY <2>1
<1>3. \A d \in Clients : conn[d].object = "none" => d # c
  OBVIOUS
<1>4. nPc = "regist" => /\ Head(mNetQueue).socket \in Clients \ {c}
                        /\ conn'[Head(mNetQueue).socket] = conn[Head(mNetQueue).socket]
  BY Registrants
<1>5. /\ IsQueue(mNetQueue') /\ Range(mNetQueue') \subseteq NetContexts
      /\ Accepts' /\ Drops'
      /\ rest = mNetQueue /\ mNetQueue # <<>> =>
           mNetQueue' # <<>> /\ Head(mNetQueue)' = Head(mNetQueue)
  <2>1. mNetQueue' = rest \/ mNetQueue' = Append(rest, e)
    BY DEF e
  <2>2. nPc = "regist" => conn'[Head(mNetQueue).socket].fd \in Fds
    BY <1>4 DEF IInv, Serving
  <2>3. \E d \in Clients : conn'[d].mConnID = e.conn /\ conn'[d].mClosed /\ conn'[d].fd = None
    BY <1>2
  <2>4. \A d \in Clients :
           /\ conn'[d].mConnID = conn[d].mConnID
           /\ conn[d].object = "none" => conn'[d].object = "none" /\ conn'[d].fd = conn[d].fd
           /\ conn[d].mClosed /\ conn[d].fd = None => conn'[d].mClosed /\ conn'[d].fd = None
    BY <1>3
  <2>5. \/ rest = mNetQueue /\ (nPc = "regist" => nPc' = "regist")
        \/ mNetQueue # <<>> /\ rest = Tail(mNetQueue) /\ nPc' = "idle"
    OBVIOUS
  <2> QED BY <1>2, <2>1, <2>2, <2>3, <2>4, <2>5, QueueKeeps
<1>6. Types'
  <2>1. /\ dPc' \in {"loop", "read", "write", "header", "body", "unregister", "refuse"}
        /\ dConn' \in Clients \cup {None} /\ (dPc' = "loop" <=> dConn' = None)
        /\ nPc' \in {"idle", "regist", "write"} /\ active' \subseteq Fds \X Kinds
    BY ZenonT(40) DEF IInv, Types
  <2> QED BY <1>5, <2>1 DEF IInv, Types, peers
<1>7. \A f \in Fds, k \in Kinds : mEventsInfo'[f][k] # None =>
         mEventsInfo'[f][k] \in Clients \ {c} /\ mEventsInfo'[f][k] = mEventsInfo[f][k]
  BY Registrants
<1>8. EventsHaveOwners'
  <2>1. \A f \in Fds, k \in Kinds :
          mEventsInfo'[f][k] # None =>
            conn'[mEventsInfo'[f][k]].object = "live" /\ conn'[mEventsInfo'[f][k]].fd = f
    <3>1. ASSUME NEW f \in Fds, NEW k \in Kinds, mEventsInfo'[f][k] # None
          PROVE  conn'[mEventsInfo'[f][k]].object = "live" /\ conn'[mEventsInfo'[f][k]].fd = f
      <4>1. /\ mEventsInfo'[f][k] \in Clients \ {c} /\ mEventsInfo'[f][k] = mEventsInfo[f][k]
            /\ conn[mEventsInfo[f][k]].object = "live" /\ conn[mEventsInfo[f][k]].fd = f
        BY <1>7, <3>1, Registrants
      <4> QED BY <4>1
    <3> QED BY <3>1
  <2>2. ended' # "exists"
    BY DEF IInv, EventsHaveOwners
  <2> QED BY <2>1, <2>2 DEF EventsHaveOwners, Registered
<1>9. Descriptors'
  <2>1. ASSUME NEW d \in Clients, NEW f \in Clients,
               conn'[d].fd = conn'[f].fd, conn'[d].fd # None
        PROVE  d = f
    <3>1. d # c /\ f # c
      BY <2>1
    <3>2. conn[d].fd = conn[f].fd /\ conn[d].fd # None
      BY <1>0, <2>1, <3>1
    <3> QED BY <3>2 DEF IInv, Descriptors
  <2> QED BY <2>1 DEF Descriptors
<1>10. Objects'
  <2>1. c \notin backlog
    BY DEF IInv, Objects, NoConnection
  <2>2. ASSUME NEW d \in Clients \ {c}
        PROVE  conn'[d].mClosed => conn'[d].fd = None \/ (dPc' \in {"unregister", "refuse"} /\ dConn' = d)
    BY <1>0, ZenonT(40) DEF IInv, Objects
  <2>3. conn[c].mConnID \in DOMAIN mConns
    BY DEF IInv, Objects
  <2>4. ASSUME NEW d \in Clients \ {c}
        PROVE  conn'[d] = conn[d] /\ (d \in backlog => conn[d] = NoConnection)
    BY DEF IInv, Objects
  <2>5. ASSUME NEW d \in Clients \ {c}, conn[d].object = "none"
        PROVE  /\ conn[d].mConnID = None /\ ~conn[d].mClosed /\ conn[d].mSent = 0
               /\ conn[d].mRecved = <<>> /\ conn[d].mToSendMsg = <<>>
    BY <2>5 DEF IInv, Objects
  <2>6. ASSUME NEW d \in Clients
        PROVE  /\ conn'[d].object # "none" => conn'[d].mConnID \in 0 .. mMaxID - 1
               /\ conn'[d].object = "live" =>
                    conn'[d].mConnID \in DOMAIN mConns /\ (conn'[d].mClosed \/ conn'[d].fd \in Fds)
               /\ conn'[d].object = "deleted" =>
                    conn'[d].mClosed /\ conn'[d].mConnID \notin DOMAIN mConns
    <3>1. CASE d = c
      BY <1>1, <2>3, <3>1
    <3>2. CASE d # c
      <4>1. conn'[d] = conn[d]
        BY <3>2
      <4> QED BY <4>1 DEF IInv, Objects
    <3> QED BY <3>1, <3>2
  <2> QED BY <1>0, <1>3, <2>1, <2>2, <2>4, <2>5, <2>6 DEF Objects, peers
<1>11. Table'
  <2>1. ASSUME NEW id \in DOMAIN mConns
        PROVE  conn'[mConns[id]].mConnID = id /\ conn'[mConns[id]].object = "live"
    <3>1. mConns[id] \in Clients /\ conn[mConns[id]].mConnID = id /\ conn[mConns[id]].object = "live"
      BY Registrants
    <3> QED BY <1>0, <3>1
  <2>2. ASSUME NEW d \in Clients, conn'[d].mConnID \in DOMAIN mConns
        PROVE  mConns[conn'[d].mConnID] = d
    <3>1. conn'[d].mConnID = conn[d].mConnID
      BY <1>0
    <3> QED BY <2>2, <3>1 DEF IInv, Table
  <2> QED BY <2>1, <2>2 DEF Table
<1>12. Driving'
  <2>1. CASE dPc' = "loop" /\ dConn' = None
    BY <2>1 DEF Driving
  <2>2. CASE UNCHANGED <<dPc, dConn>> /\ dConn = c
    BY <2>2, ConnectionAssumption DEF Driving, Kinds
  <2>3. CASE UNCHANGED <<dPc, dConn>> /\ dConn # c
    <3>1. dConn # None => dConn \in Clients \ {c}
      BY <2>3 DEF IInv, Types
    <3>2. dPc \in {"unregister", "refuse"} => dConn # None /\ conn[dConn].fd \in Fds
      BY <3>1 DEF IInv, Driving, Types
    <3> QED BY <2>3, <3>1, <3>2 DEF IInv, Driving, Kinds, peers
  <2> QED BY <2>1, <2>2, <2>3
<1>13. Serving'
  <2>1. CASE rest = mNetQueue /\ nPc' = nPc
    BY <1>4, <1>5, <2>1, Registrants DEF IInv, Serving, NextIs, Kinds
  <2>2. CASE nPc' = "idle"
    BY <2>2 DEF Serving
  <2> QED BY <2>1, <2>2
<1> QED BY <1>5, <1>6, <1>8, <1>9, <1>10, <1>11, <1>12, <1>13 DEF IInv

LEMMA UnRegistAndReportKeeps ==
  ASSUME IInv, ended = "no", UnRegistAndReport \/ UnRegistSilently
  PROVE  IInv'
<1> USE ConnectionAssumption
<1> DEFINE c == dConn
<1>1. /\ dPc \in {"unregister", "refuse"} /\ c \in Clients /\ conn[c] \in Object
      /\ conn[c].object = "live" /\ conn[c].fd \in Fds /\ mEventsInfo[conn[c].fd]["read"] = None
      /\ Len(conn[c].mRecved) < FrameLength
  BY Registrants DEF UnRegistAndReport, UnRegistSilently, IInv, Types, Driving, Objects
<1>2. /\ \/ conn' = [conn EXCEPT ![c] = ResetRecv(Closed(@))]
         \/ conn' = [conn EXCEPT ![c] = Closed(@)]
      /\ mNetQueue' \in {mNetQueue, Append(mNetQueue, Drop(conn[c].mConnID))}
      /\ dPc' = "loop" /\ dConn' = None
      /\ UNCHANGED <<mWorkerQueue, peers, received, nPc, taken, mConns, mMaxID, ended>>
  BY DEF UnRegistAndReport, UnRegistSilently, BackToLoop, service, queues
<1>3. /\ mEventsInfo' \in [Fds -> [Kinds -> Clients \cup {None}]]
      /\ \A f \in Fds, k \in Kinds :
           mEventsInfo'[f][k] = IF f = conn[c].fd /\ k \in {"write"} THEN None ELSE mEventsInfo[f][k]
      /\ active' \subseteq active
      /\ \A e \in active' : mEventsInfo'[e[1]][e[2]] # None
  <2>1. {"write"} \in SUBSET Kinds /\ UnRegist(conn[c].fd, {"write"})
    BY DEF UnRegistAndReport, UnRegistSilently, Kinds
  <2> QED BY <1>1, <2>1, UnRegistered
<1>4. \A f \in Fds, k \in Kinds :
        mEventsInfo'[f][k] = IF f = conn[c].fd THEN None ELSE mEventsInfo[f][k]
  BY <1>1, <1>3 DEF Kinds
<1>5. nPc = "regist" => Head(mNetQueue).socket # c
  BY <1>1 DEF UnRegistAndReport, UnRegistSilently, Registered, IInv, Serving
<1>6. /\ conn' \in [Clients -> Object]
      /\ conn'[c].object = "live" /\ conn'[c].mConnID = conn[c].mConnID /\ conn'[c].fd = None
      /\ conn'[c].mClosed /\ conn'[c].mRecved \in {<<>>, conn[c].mRecved}
      /\ \A d \in Clients \ {c} : conn'[d] = conn[d]
  <2> DEFINE t == Closed(conn[c])
             u == ResetRecv(t)
  <2>1. <<>> \in Seq(Nat)
    OBVIOUS
  <2>2. /\ t \in Object /\ t.mClosed /\ t.fd = None
        /\ t.object = conn[c].object /\ t.mConnID = conn[c].mConnID /\ t.mRecved = conn[c].mRecved
    BY <1>1, <2>1 DEF Closed, Object
  <2>3. conn \in [Clients -> Object] /\ (conn' = [conn EXCEPT ![c] = t] \/ conn' = [conn EXCEPT ![c] = u])
    BY <1>1, <1>2 DEF IInv, Types
  <2> HIDE DEF t
  <2>4. /\ u \in Object /\ u.mClosed /\ u.fd = None
        /\ u.object = t.object /\ u.mConnID = t.mConnID /\ u.mRecved = <<>>
    BY <2>1, <2>2 DEF ResetRecv, Object
  <2> HIDE DEF u
  <2> QED BY <1>1, <2>2, <2>3, <2>4
<1>7. Len(conn'[c].mRecved) < FrameLength
  <2>1. Len(<<>>) = 0 /\ 0 < FrameLength
    BY DEF FrameLength
  <2> QED BY <1>1, <1>6, <2>1
<1>8. received' \in [Clients -> Seq(Nat)]
  BY <1>2 DEF IInv, Types
<1> QED BY <1>1, <1>2, <1>3, <1>4, <1>5, <1>6, <1>7, <1>8, ClosingKeeps

LEMMA SendingSome ==
  ASSUME NEW tcp \in Object, NEW n \in Nat, tcp.mToSendMsg # <<>>
  PROVE  /\ Sent(tcp, n) \in Object
         /\ Sent(tcp, n).object = tcp.object /\ Sent(tcp, n).mConnID = tcp.mConnID
         /\ Sent(tcp, n).fd = tcp.fd /\ Sent(tcp, n).mClosed = tcp.mClosed
         /\ Sent(tcp, n).mRecved = tcp.mRecved
         /\ IF tcp.mSent + n = MessageLength
            THEN Sent(tcp, n).mSent = 0 /\ Sent(tcp, n).mToSendMsg = Tail(tcp.mToSendMsg)
            ELSE Sent(tcp, n).mSent = tcp.mSent + n /\ Sent(tcp, n).mToSendMsg = tcp.mToSendMsg
<1>1. tcp.mToSendMsg \in Seq(Nat) /\ tcp.mSent \in Nat
  BY DEF Object
<1>2. Tail(tcp.mToSendMsg) \in Seq(Nat) /\ tcp.mSent + n \in Nat
  BY <1>1, HeadTailProperties
<1>3. CASE tcp.mSent + n = MessageLength
  <2>1. Sent(tcp, n) = [tcp EXCEPT !.mSent = 0, !.mToSendMsg = Tail(tcp.mToSendMsg)]
    BY <1>3 DEF Sent
  <2> DEFINE t == [tcp EXCEPT !.mSent = 0]
             u == [t EXCEPT !.mToSendMsg = Tail(tcp.mToSendMsg)]
  <2>2. /\ t \in Object /\ t.mSent = 0
        /\ t.object = tcp.object /\ t.mConnID = tcp.mConnID /\ t.fd = tcp.fd
        /\ t.mClosed = tcp.mClosed /\ t.mRecved = tcp.mRecved
    BY DEF Object
  <2>3. Sent(tcp, n) = u
    BY <2>1
  <2> HIDE DEF t
  <2>4. /\ u \in Object /\ u.mSent = t.mSent /\ u.mToSendMsg = Tail(tcp.mToSendMsg)
        /\ u.object = t.object /\ u.mConnID = t.mConnID /\ u.fd = t.fd
        /\ u.mClosed = t.mClosed /\ u.mRecved = t.mRecved
    BY <1>2, <2>2 DEF Object
  <2> HIDE DEF u
  <2> QED BY <1>3, <2>2, <2>3, <2>4
<1>4. CASE tcp.mSent + n # MessageLength
  <2>1. Sent(tcp, n) = [tcp EXCEPT !.mSent = tcp.mSent + n]
    BY <1>4 DEF Sent
  <2> QED BY <1>2, <1>4, <2>1 DEF Object
<1> QED BY <1>3, <1>4

LEMMA WritingKeeps ==
  ASSUME IInv, ended = "no", NEW c \in Clients, NEW rest, WriteData(c, rest),
         \/ rest = mNetQueue /\ nPc' = nPc
         \/ nPc = "write" /\ mNetQueue # <<>> /\ rest = Tail(mNetQueue) /\ nPc' = "idle",
         \/ dPc = "write" /\ dPc' = "loop" /\ dConn' = None
         \/ UNCHANGED <<dPc, dConn>> /\ MutexFree(c),
         UNCHANGED <<mWorkerQueue, peers, mConns, mMaxID>>
  PROVE  IInv'
<1> USE ConnectionAssumption
<1>1. conn[c] \in Object /\ conn[c].mToSendMsg \in Seq(Nat) /\ conn[c].mSent \in Nat
  BY DEF IInv, Types, Object
<1>2. HasMessage(c) => /\ conn[c].object = "live" /\ conn[c].fd \in Fds
                       /\ Head(conn[c].mToSendMsg) \in Nat /\ Tail(conn[c].mToSendMsg) \in Seq(Nat)
                       /\ nPc = "regist" => Head(mNetQueue).socket # c
  <2>1. ASSUME HasMessage(c)
        PROVE  /\ conn[c].object = "live" /\ conn[c].fd \in Fds
               /\ nPc = "regist" => Head(mNetQueue).socket # c
    BY <1>1, <2>1 DEF HasMessage, IInv, Objects, Serving, Object
  <2>2. HasMessage(c) => Head(conn[c].mToSendMsg) \in Nat /\ Tail(conn[c].mToSendMsg) \in Seq(Nat)
    BY <1>1, HeadTailProperties DEF HasMessage
  <2> QED BY <2>1, <2>2
<1>3. dPc \in {"unregister", "refuse"} => UNCHANGED <<dPc, dConn>>
  OBVIOUS
<1>4. dPc' = "loop" => dConn' = None
  BY DEF IInv, Types
<1>5. ASSUME UNCHANGED <<mEventsInfo, active>>, ended' # "exists",
             \/ mNetQueue' = rest
             \/ mNetQueue' = mNetQueue /\ ended' # "no",
             conn' \in [Clients -> Object], received' \in [Clients -> Seq(Nat)],
             \A d \in Clients :
               /\ conn'[d].object = conn[d].object /\ conn'[d].mConnID = conn[d].mConnID
               /\ conn'[d].fd = conn[d].fd /\ conn'[d].mClosed = conn[d].mClosed
               /\ conn'[d].mRecved = conn[d].mRecved
               /\ conn[d].object = "none" => conn'[d] = conn[d]
               /\ conn[d].mToSendMsg = <<>> => conn'[d].mToSendMsg = <<>>
      PROVE  IInv'
  <2>1. PICK kept \in {mNetQueue, rest} : mNetQueue' = kept
    BY <1>5
  <2>3. Recv(0, <<>>) \in NetContexts /\ Recv(0, <<>>).op = "OP_RECV"
    <3>1. <<>> \in Seq(Nat)
      OBVIOUS
    <3> QED BY <3>1 DEF Recv, NetContexts
  <2>4. nPc = "regist" => conn'[Head(mNetQueue).socket].fd \in Fds
    BY <1>5, Registrants DEF IInv, Serving
  <2>5. \/ kept = mNetQueue /\ (nPc = "regist" => nPc' = "regist")
        \/ mNetQueue # <<>> /\ kept = Tail(mNetQueue) /\ nPc' = "idle"
    BY <2>1
  <2>6. \A d \in Clients :
          /\ conn'[d].mConnID = conn[d].mConnID
          /\ conn[d].object = "none" => conn'[d].object = "none" /\ conn'[d].fd = conn[d].fd
          /\ conn[d].mClosed /\ conn[d].fd = None => conn'[d].mClosed /\ conn'[d].fd = None
    BY <1>5
  <2>7. IsQueue(mNetQueue') /\ Range(mNetQueue') \subseteq NetContexts /\ Accepts' /\ Drops'
    <3> DEFINE e == Recv(0, <<>>)
    <3>1. e \in NetContexts /\ e.op = "OP_RECV"
      BY <2>3
    <3> HIDE DEF e
    <3> QED BY <2>1, <2>4, <2>5, <2>6, <3>1, QueueKeeps
  <2>8. Types'
    <3>1. /\ dPc' \in {"loop", "read", "write", "header", "body", "unregister", "refuse"}
          /\ dConn' \in Clients \cup {None} /\ (dPc' = "loop" <=> dConn' = None)
          /\ nPc' \in {"idle", "regist", "write"}
      BY DEF IInv, Types
    <3> QED BY <1>5, <2>7, <3>1 DEF IInv, Types, peers
  <2>9. Driving'
    <3>1. dPc' # "loop" => dPc' = dPc /\ dConn' = dConn /\ dConn \in Clients
      BY Registrants
    <3> QED BY <1>4, <1>5, <3>1, SMTT(30) DEF IInv, Driving, Types, peers
  <2>10. Serving'
    <3>1. CASE nPc' = "idle"
      BY <3>1 DEF Serving
    <3>2. CASE nPc' # "idle"
      <4>1. nPc' = nPc /\ mNetQueue' = mNetQueue
        BY <2>1, <3>2
      <4> QED BY <1>5, <4>1, Registrants DEF IInv, Serving, NextIs
    <3> QED BY <3>1, <3>2
  <2>11. \A d \in Clients : Len(conn'[d].mRecved) < FrameLength
    BY <1>5 DEF IInv, Objects
  <2> QED BY <1>3, <1>5, <2>7, <2>8, <2>9, <2>10, <2>11, BuffersOnly DEF peers
<1>6. CASE NothingToWrite(c, rest) \/ WriteKills(c)
  <2>1. /\ UNCHANGED <<conn, received, mEventsInfo, active>>
        /\ mNetQueue' = rest \/ (mNetQueue' = mNetQueue /\ ended' # "no")
        /\ ended' \in {ended, "sigpipe"}
    BY <1>6 DEF NothingToWrite, WriteKills
  <2>2. conn' \in [Clients -> Object] /\ received' \in [Clients -> Seq(Nat)]
    BY <2>1 DEF IInv, Types
  <2> QED BY <1>5, <2>1, <2>2
<1>7. CASE WriteSome(c, rest)
  <2>1. PICK n \in 1 .. MessageLength - conn[c].mSent :
          /\ conn' = [conn EXCEPT ![c] = Sent(conn[c], n)]
          /\ received' = IF c \in peerClosed THEN received
                         ELSE [received EXCEPT ![c] =
                                 @ \o [i \in 1 .. n |-> Head(conn[c].mToSendMsg)]]
    BY <1>7 DEF WriteSome
  <2>2. HasMessage(c) /\ mNetQueue' = rest /\ UNCHANGED <<mEventsInfo, active, ended>>
    BY <1>7 DEF WriteSome
  <2>3. n \in Nat
    BY <1>1, <2>1
  <2>4. /\ conn' \in [Clients -> Object]
        /\ \A d \in Clients :
             /\ conn'[d].object = conn[d].object /\ conn'[d].mConnID = conn[d].mConnID
             /\ conn'[d].fd = conn[d].fd /\ conn'[d].mClosed = conn[d].mClosed
             /\ conn'[d].mRecved = conn[d].mRecved
             /\ d # c => conn'[d] = conn[d]
    <3>1. /\ Sent(conn[c], n) \in Object /\ Sent(conn[c], n).object = conn[c].object
          /\ Sent(conn[c], n).mConnID = conn[c].mConnID /\ Sent(conn[c], n).fd = conn[c].fd
          /\ Sent(conn[c], n).mClosed = conn[c].mClosed /\ Sent(conn[c], n).mRecved = conn[c].mRecved
      BY <1>1, <2>2, <2>3, SendingSome DEF HasMessage
    <3>2. conn \in [Clients -> Object]
      BY DEF IInv, Types
    <3> QED BY <2>1, <3>1, <3>2
  <2>5. received' \in [Clients -> Seq(Nat)]
    <3>1. received[c] \in Seq(Nat) /\ received \in [Clients -> Seq(Nat)]
      BY DEF IInv, Types
    <3>2. [i \in 1 .. n |-> Head(conn[c].mToSendMsg)] \in Seq(Nat)
      BY <1>2, <2>2, <2>3
    <3>3. received[c] \o [i \in 1 .. n |-> Head(conn[c].mToSendMsg)] \in Seq(Nat)
      BY <3>1, <3>2
    <3> QED BY <2>1, <3>1, <3>3
  <2>6. conn[c].object # "none" /\ conn[c].mToSendMsg # <<>>
    BY <1>2, <2>2 DEF HasMessage
  <2> QED BY <1>5, <2>2, <2>4, <2>5, <2>6
<1>8. CASE WriteFails(c, rest)
  <2>1. /\ HasMessage(c) /\ c \in peerClosed
        /\ conn' = [conn EXCEPT ![c] = Closed([@ EXCEPT !.mSent = 0])]
        /\ UnRegist(conn[c].fd, Kinds)
        /\ mNetQueue' = Append(rest, Drop(conn[c].mConnID))
        /\ UNCHANGED <<received, ended>>
    BY <1>8 DEF WriteFails
  <2>2. /\ conn' \in [Clients -> Object]
        /\ conn'[c].object = conn[c].object /\ conn'[c].mConnID = conn[c].mConnID
        /\ conn'[c].fd = None /\ conn'[c].mClosed /\ conn'[c].mRecved = conn[c].mRecved
        /\ \A d \in Clients \ {c} : conn'[d] = conn[d]
    <3>1. <<>> \in Seq(Nat)
      OBVIOUS
    <3> QED BY <1>1, <2>1, <3>1 DEF Closed, IInv, Types, Object
  <2>3. Len(conn'[c].mRecved) < FrameLength
    BY <2>2 DEF IInv, Objects
  <2>4. /\ mEventsInfo' \in [Fds -> [Kinds -> Clients \cup {None}]]
        /\ \A f \in Fds, k \in Kinds :
             mEventsInfo'[f][k] = IF f = conn[c].fd THEN None ELSE mEventsInfo[f][k]
        /\ active' \subseteq active
        /\ \A e \in active' : mEventsInfo'[e[1]][e[2]] # None
    <3>1. Kinds \in SUBSET Kinds
      OBVIOUS
    <3> QED BY <1>2, <2>1, <3>1, UnRegistered
  <2>5. received' \in [Clients -> Seq(Nat)]
    BY <2>1 DEF IInv, Types
  <2>6. \/ dPc' = "loop" /\ dConn' = None
        \/ UNCHANGED <<dPc, dConn>> /\ (dConn = c => dPc \in Kinds)
    BY Registrants DEF MutexFree, IInv, Types, Kinds
  <2>7. dPc \in {"unregister", "refuse"} /\ dPc' = "loop" => dConn = c
    OBVIOUS
  <2>8. /\ \/ rest = mNetQueue /\ nPc' = nPc
           \/ mNetQueue # <<>> /\ rest = Tail(mNetQueue) /\ nPc' = "idle"
        /\ conn'[c].object = "live"
        /\ UNCHANGED <<mWorkerQueue, peers, mConns, mMaxID, ended>>
    BY <1>2, <2>1, <2>2
  <2>9. conn[c].object = "live" /\ conn[c].fd \in Fds
        /\ (nPc = "regist" => Head(mNetQueue).socket # c)
    BY <1>2, <2>1
  <2> QED BY <2>1, <2>2, <2>3, <2>4, <2>5, <2>6, <2>7, <2>8, <2>9, ClosingKeeps
<1> QED BY <1>6, <1>7, <1>8 DEF WriteData

-----------------------------------------------------------------------------
(* The NetService's steps.                                                 *)
LEMMA RegistWriteEventKeeps ==
  ASSUME IInv, ended = "no", RegistWriteEvent
  PROVE  IInv'
<1> USE ConnectionAssumption
<1> DEFINE c == Head(mNetQueue).socket
<1>1. /\ mNetQueue # <<>> /\ c \in Clients /\ conn[c].object = "live" /\ conn[c].fd \in Fds
      /\ mEventsInfo[conn[c].fd]["write"] = None /\ nPc = "regist"
  BY Registrants DEF RegistWriteEvent, IInv, Serving
<1>2. /\ mEventsInfo' = [mEventsInfo EXCEPT ![conn[c].fd]["write"] = c]
      /\ mNetQueue' = Tail(mNetQueue) /\ nPc' = "idle"
      /\ UNCHANGED <<mWorkerQueue, peers, received, conn, active, dPc, dConn, taken, mConns, mMaxID,
                     ended>>
  BY <1>1, SMTT(30) DEF RegistWriteEvent, Regist, Registered, driver
<1>3. /\ mEventsInfo' \in [Fds -> [Kinds -> Clients \cup {None}]]
      /\ \A f \in Fds, k \in Kinds :
           mEventsInfo'[f][k] = IF f = conn[c].fd /\ k = "write" THEN c ELSE mEventsInfo[f][k]
  BY <1>1, <1>2 DEF IInv, Types, Kinds
<1>4. IsQueue(mNetQueue') /\ Range(mNetQueue') \subseteq NetContexts /\ Accepts' /\ Drops'
  <2> DEFINE e == Recv(0, <<>>)
  <2>1. e \in NetContexts /\ e.op = "OP_RECV"
    <3>1. <<>> \in Seq(Nat)
      OBVIOUS
    <3> QED BY <3>1 DEF Recv, NetContexts
  <2>2. conn'[Head(mNetQueue).socket].fd \in Fds
    BY <1>1, <1>2, SMTT(30)
  <2> HIDE DEF e
  <2> QED BY <1>1, <1>2, <2>1, <2>2, QueueKeeps
<1>5. Types'
  BY <1>2, <1>3, <1>4, SMTT(30) DEF IInv, Types, peers
<1>6. EventsHaveOwners'
  <2>1. \A f \in Fds, k \in Kinds : mEventsInfo'[f][k] # None =>
            conn[mEventsInfo'[f][k]].object = "live" /\ conn[mEventsInfo'[f][k]].fd = f
    BY <1>1, <1>3, Registrants
  <2>2. \A e \in active : mEventsInfo'[e[1]][e[2]] # None
    BY <1>1, <1>3, Registrants
  <2> QED BY <1>2, <2>1, <2>2, ZenonT(40) DEF IInv, EventsHaveOwners, Registered
<1>7. Descriptors' /\ Table' /\ Objects'
  BY <1>2 DEF IInv, Descriptors, Table, Objects, peers
<1>8. Driving'
  BY <1>1, <1>2, <1>3, Registrants DEF IInv, Driving, Kinds, peers
<1>9. Serving'
  BY <1>2 DEF Serving
<1> QED BY <1>4, <1>5, <1>6, <1>7, <1>8, <1>9 DEF IInv

LEMMA ForwardingKeeps ==
  ASSUME IInv, ended = "no", ForwardRecv \/ SendDiscarded
  PROVE  IInv'
<1> USE ConnectionAssumption
<1>1. /\ mNetQueue # <<>> /\ mNetQueue' = Tail(mNetQueue) /\ nPc = "idle"
      /\ mWorkerQueue' = mWorkerQueue \/ mWorkerQueue' = Append(mWorkerQueue, Head(mNetQueue))
      /\ UNCHANGED <<peers, received, conn, mEventsInfo, active, dPc, dConn, nPc, taken, mConns, mMaxID,
                     ended>>
  BY DEF ForwardRecv, SendDiscarded, NextContextIs, NextIs, driver, service
<1>2. IsQueue(mWorkerQueue')
  <2>1. IsQueue(mWorkerQueue)
    BY DEF IInv, Types
  <2>2. IsQueue(Append(mWorkerQueue, Head(mNetQueue)))
    BY <2>1, AppendToQueue
  <2> QED BY <1>1, <2>1, <2>2
<1>3. IsQueue(mNetQueue') /\ Range(mNetQueue') \subseteq NetContexts /\ Accepts' /\ Drops'
  <2> DEFINE e == Recv(0, <<>>)
  <2>1. e \in NetContexts /\ e.op = "OP_RECV"
    <3>1. <<>> \in Seq(Nat)
      OBVIOUS
    <3> QED BY <3>1 DEF Recv, NetContexts
  <2> HIDE DEF e
  <2> QED BY <1>1, <2>1, QueueKeeps
<1>4. Types'
  BY <1>1, <1>2, <1>3 DEF IInv, Types, peers
<1>5. EventsHaveOwners' /\ Descriptors' /\ Table' /\ Objects' /\ Driving'
  BY <1>1 DEF IInv, EventsHaveOwners, Registered, Descriptors, Table, Objects, Driving, peers
<1>6. Serving'
  BY <1>1 DEF Serving
<1> QED BY <1>3, <1>4, <1>5, <1>6 DEF IInv

LEMMA SendEnqueuedKeeps ==
  ASSUME IInv, ended = "no", SendEnqueued
  PROVE  IInv'
<1> USE ConnectionAssumption
<1> DEFINE x == Head(mNetQueue)
           c == mConns[x.conn]
<1>1. /\ mNetQueue # <<>> /\ x.op = "OP_SEND" /\ x.conn \in DOMAIN mConns /\ nPc = "idle"
      /\ conn' = [conn EXCEPT ![c].mToSendMsg = Append(@, x.msg)]
      /\ nPc' = "write"
      /\ UNCHANGED <<mNetQueue, mWorkerQueue, peers, received, mEventsInfo, active, dPc, dConn, taken,
                     mConns, mMaxID, ended>>
  BY DEF SendEnqueued, NextContextIs, NextIs, driver, queues
<1>2. x.msg \in Nat /\ c \in Clients /\ conn[c] \in Object /\ conn[c].object = "live"
  <2>1. x \in NetContexts
    BY <1>1, TailOfQueue DEF IInv, Types
  <2> QED BY <1>1, <2>1, Registrants, ZenonT(40) DEF NetContexts, IInv, Types
<1>3. Append(conn[c].mToSendMsg, x.msg) \in Seq(Nat)
  <2>1. conn[c].mToSendMsg \in Seq(Nat)
    BY <1>2 DEF Object
  <2> QED BY <1>2, <2>1
<1> HIDE DEF x, c
<1>4. /\ conn' \in [Clients -> Object]
      /\ \A d \in Clients :
           /\ conn'[d].object = conn[d].object /\ conn'[d].mConnID = conn[d].mConnID
           /\ conn'[d].fd = conn[d].fd /\ conn'[d].mClosed = conn[d].mClosed
           /\ conn'[d].mRecved = conn[d].mRecved
           /\ conn[d].object = "none" => conn'[d] = conn[d]
  BY <1>1, <1>2, <1>3 DEF IInv, Types, Object
<1>5. Types'
  BY <1>1, <1>4 DEF IInv, Types, peers
<1>6. Driving'
  <2>1. dConn # None => dConn \in Clients
    BY DEF IInv, Types
  <2> QED BY <1>1, <1>4, <2>1 DEF IInv, Driving, peers
<1>7. Serving'
  BY <1>1 DEF Serving, NextIs, x
<1>8. Accepts' /\ Drops'
  <2>1. \A y \in Range(mNetQueue) : y.op = "OP_ACCEPT" => y.socket \in Clients
    BY DEF IInv, Types, NetContexts
  <2>2. Accepts'
    BY <1>1, <1>4, <2>1 DEF IInv, Accepts
  <2>3. Drops'
    BY <1>1, <1>4 DEF IInv, Drops
  <2> QED BY <2>2, <2>3
<1>9. \A d \in Clients : Len(conn'[d].mRecved) < FrameLength
  BY <1>4 DEF IInv, Objects
<1> QED BY <1>1, <1>4, <1>5, <1>6, <1>7, <1>8, <1>9, BuffersOnly DEF IInv, EventsHaveOwners, peers

LEMMA WritesKeep ==
  ASSUME IInv, ended = "no", ServiceWrites \/ DriverWrites
  PROVE  IInv'
<1>1. CASE ServiceWrites
  <2>1. nPc = "write" /\ mNetQueue # <<>> /\ mConns[Head(mNetQueue).conn] \in Clients
    BY <1>1, Registrants DEF ServiceWrites
  <2>2. /\ MutexFree(mConns[Head(mNetQueue).conn])
        /\ WriteData(mConns[Head(mNetQueue).conn], Tail(mNetQueue))
        /\ nPc' = "idle"
        /\ UNCHANGED <<mWorkerQueue, peers, dPc, dConn, mConns, mMaxID>>
    BY <1>1 DEF ServiceWrites
  <2> QED BY <2>1, <2>2, WritingKeeps
<1>2. CASE DriverWrites
  <2>1. dPc = "write" /\ dConn \in Clients
    BY <1>2, Registrants DEF DriverWrites
  <2>2. /\ WriteData(dConn, mNetQueue) /\ nPc' = nPc
        /\ dPc' = "loop" /\ dConn' = None
        /\ UNCHANGED <<mWorkerQueue, peers, mConns, mMaxID>>
    BY <1>2 DEF DriverWrites, BackToLoop
  <2> QED BY <2>1, <2>2, WritingKeeps
<1> QED BY <1>1, <1>2

LEMMA AcceptConnectionKeeps ==
  ASSUME IInv, ended = "no", AcceptConnection
  PROVE  IInv'
<1> USE ConnectionAssumption
<1> DEFINE x == Head(mNetQueue)
           c == x.socket
<1>1. /\ mNetQueue # <<>> /\ x.op = "OP_ACCEPT" /\ nPc = "idle" /\ x \in Range(mNetQueue)
      /\ c \in Clients /\ conn[c].fd \in Fds /\ conn[c].object = "none" /\ conn[c] \in Object
  <2>1. mNetQueue # <<>> /\ x.op = "OP_ACCEPT" /\ nPc = "idle"
    BY DEF AcceptConnection, NextContextIs, NextIs
  <2>2. x \in Range(mNetQueue) /\ x \in NetContexts
    BY <2>1, TailOfQueue DEF IInv, Types
  <2>3. c \in Clients
    BY <2>1, <2>2 DEF NetContexts
  <2> QED BY <2>1, <2>2, <2>3 DEF IInv, Accepts, Types
<1>2. mEventsInfo[conn[c].fd]["read"] = None /\ mEventsInfo[conn[c].fd]["write"] = None
  BY <1>1, Registrants, SMTT(30) DEF IInv, Descriptors, Kinds
<1>3. /\ conn' = [conn EXCEPT ![c].object = "live", ![c].mConnID = mMaxID]
      /\ mConns' = [id \in DOMAIN mConns \cup {mMaxID} |-> IF id = mMaxID THEN c ELSE mConns[id]]
      /\ mEventsInfo' = [mEventsInfo EXCEPT ![conn[c].fd]["read"] = c]
      /\ mMaxID' = mMaxID + 1 /\ nPc' = "regist"
      /\ UNCHANGED <<mNetQueue, mWorkerQueue, peers, received, active, dPc, dConn, taken, ended>>
  BY <1>2 DEF AcceptConnection, Regist, Registered, driver, queues
<1>4. mMaxID \in Nat /\ mMaxID + 1 \in Nat
  BY DEF IInv, Types
<1>5. /\ conn' \in [Clients -> Object]
      /\ conn'[c].object = "live" /\ conn'[c].mConnID = mMaxID /\ conn'[c].fd = conn[c].fd
      /\ conn'[c].mClosed = conn[c].mClosed /\ conn'[c].mRecved = conn[c].mRecved
      /\ conn'[c].mToSendMsg = conn[c].mToSendMsg /\ conn'[c].mSent = conn[c].mSent
      /\ \A d \in Clients \ {c} : conn'[d] = conn[d]
  <2> DEFINE t == [conn[c] EXCEPT !.object = "live"]
             u == [t EXCEPT !.mConnID = mMaxID]
  <2>1. conn' = [conn EXCEPT ![c] = u]
    BY <1>1, <1>3 DEF IInv, Types
  <2>2. /\ t \in Object /\ t.object = "live" /\ t.fd = conn[c].fd /\ t.mClosed = conn[c].mClosed
        /\ t.mRecved = conn[c].mRecved /\ t.mToSendMsg = conn[c].mToSendMsg /\ t.mSent = conn[c].mSent
    BY <1>1 DEF Object
  <2> HIDE DEF t
  <2>3. /\ u \in Object /\ u.object = t.object /\ u.mConnID = mMaxID
        /\ u.fd = t.fd /\ u.mClosed = t.mClosed
        /\ u.mRecved = t.mRecved /\ u.mToSendMsg = t.mToSendMsg /\ u.mSent = t.mSent
    BY <1>4, <2>2 DEF Object
  <2> HIDE DEF u
  <2> QED BY <1>1, <2>1, <2>2, <2>3, SMTT(30) DEF IInv, Types
<1>6. /\ conn[c].mConnID = None /\ ~conn[c].mClosed /\ conn[c].mToSendMsg = <<>>
      /\ Len(conn[c].mRecved) < FrameLength /\ c \notin backlog
  <2>1. c \in backlog => conn[c].fd = None
    BY <1>1 DEF IInv, Objects, NoConnection
  <2> QED BY <1>1, <2>1 DEF IInv, Objects
<1>7. \A f \in Fds, k \in Kinds :
        mEventsInfo'[f][k] = IF f = conn[c].fd /\ k = "read" THEN c ELSE mEventsInfo[f][k]
  BY <1>1, <1>3 DEF IInv, Types, Kinds
<1> HIDE DEF x
<1>8. /\ DOMAIN mConns' = DOMAIN mConns \cup {mMaxID} /\ mConns'[mMaxID] = c
      /\ \A id \in DOMAIN mConns : mConns'[id] = mConns[id] /\ mConns[id] \in Clients \ {c} /\ id # mMaxID
      /\ mMaxID \notin DOMAIN mConns
  <2>1. mMaxID \notin DOMAIN mConns
    BY <1>4 DEF IInv, Types
  <2>2. \A id \in DOMAIN mConns : mConns[id] \in Clients \ {c}
    BY <1>1, Registrants, SMTT(30)
  <2> QED BY <1>3, <2>1, <2>2
<1>9. Types'
  <2>1. mEventsInfo' \in [Fds -> [Kinds -> Clients \cup {None}]]
    BY <1>1, <1>3 DEF IInv, Types, Kinds
  <2>2. DOMAIN mConns' \subseteq 0 .. mMaxID' - 1
    BY <1>3, <1>4, <1>8 DEF IInv, Types
  <2>3. mConns' \in [DOMAIN mConns' -> Clients]
    BY <1>1, <1>3, <1>8
  <2> QED BY <1>3, <1>4, <1>5, <2>1, <2>2, <2>3 DEF IInv, Types, peers
<1>10. EventsHaveOwners'
  <2>1. ASSUME NEW f \in Fds, NEW k \in Kinds, mEventsInfo'[f][k] # None
        PROVE  conn'[mEventsInfo'[f][k]].object = "live" /\ conn'[mEventsInfo'[f][k]].fd = f
    <3>1. CASE f = conn[c].fd /\ k = "read"
      BY <1>1, <1>5, <1>7, <3>1
    <3>2. CASE ~(f = conn[c].fd /\ k = "read")
      <4>1. /\ mEventsInfo'[f][k] = mEventsInfo[f][k] /\ mEventsInfo[f][k] \in Clients
            /\ conn[mEventsInfo[f][k]].object = "live" /\ conn[mEventsInfo[f][k]].fd = f
        BY <1>7, <2>1, <3>2, Registrants
      <4>2. mEventsInfo[f][k] \in Clients \ {c}
        BY <1>1, <4>1
      <4>3. conn'[mEventsInfo[f][k]] = conn[mEventsInfo[f][k]]
        BY <1>5, <4>2
      <4> QED BY <4>1, <4>3
    <3> QED BY <3>1, <3>2
  <2>2. \A e \in active : mEventsInfo'[e[1]][e[2]] # None
    BY <1>1, <1>7, Registrants
  <2> QED BY <1>3, <2>1, <2>2 DEF IInv, EventsHaveOwners, Registered
<1>11. Descriptors'
  <2>1. \A d \in Clients : conn'[d].fd = conn[d].fd
    BY <1>5
  <2> QED BY <2>1 DEF IInv, Descriptors
<1>12. Objects'
  <2>1. /\ conn'[c].mConnID \in 0 .. mMaxID' - 1
        /\ conn'[c].mConnID \in DOMAIN mConns'
    BY <1>3, <1>4, <1>5, <1>8
  <2>2. ASSUME NEW d \in Clients \ {c}
        PROVE  /\ conn'[d] = conn[d]
               /\ conn[d].object # "none" => conn[d].mConnID \in 0 .. mMaxID' - 1 /\ conn[d].mConnID # mMaxID
    BY <1>3, <1>4, <1>5 DEF IInv, Objects
  <2>3. ASSUME NEW d \in Clients
        PROVE  (LET tcp == conn[d] IN
                /\ tcp.object = "none" => /\ tcp.mConnID = None /\ ~tcp.mClosed /\ tcp.mSent = 0
                                          /\ tcp.mRecved = <<>> /\ tcp.mToSendMsg = <<>>
                /\ tcp.object # "none" => tcp.mConnID \in 0 .. mMaxID - 1
                /\ tcp.object = "live" => tcp.mConnID \in DOMAIN mConns /\ (tcp.mClosed \/ tcp.fd \in Fds)
                /\ tcp.object = "deleted" => tcp.mClosed /\ tcp.mConnID \notin DOMAIN mConns
                /\ tcp.mClosed => tcp.fd = None \/ (dPc \in {"unregister", "refuse"} /\ dConn = d)
                /\ d \in backlog => tcp = NoConnection
                /\ Len(tcp.mRecved) < FrameLength)'
    <3>1. CASE d = c
      BY <1>1, <1>3, <1>5, <1>6, <2>1, <3>1 DEF peers
    <3>2. CASE d # c
      <4>1. conn'[d] = conn[d]
        BY <2>2, <3>2
      <4>2. conn[d].object = "deleted" => conn[d].mConnID \notin DOMAIN mConns'
        BY <1>8, <2>2, <3>2 DEF IInv, Objects
      <4> QED BY <1>3, <1>8, <2>2, <3>2, <4>1, <4>2 DEF IInv, Objects, peers
    <3> QED BY <3>1, <3>2
  <2> QED BY <2>3 DEF Objects
<1>13. Table'
  <2>1. ASSUME NEW id \in DOMAIN mConns'
        PROVE  conn'[mConns'[id]].mConnID = id /\ conn'[mConns'[id]].object = "live"
    <3>1. CASE id = mMaxID
      BY <1>5, <1>8, <3>1
    <3>2. CASE id # mMaxID
      <4>1. id \in DOMAIN mConns /\ mConns'[id] = mConns[id] /\ mConns[id] \in Clients \ {c}
        BY <1>8, <3>2
      <4>2. conn'[mConns[id]] = conn[mConns[id]]
        BY <1>5, <4>1
      <4> QED BY <4>1, <4>2, Registrants
    <3> QED BY <3>1, <3>2
  <2>2. ASSUME NEW d \in Clients, conn'[d].mConnID \in DOMAIN mConns'
        PROVE  mConns'[conn'[d].mConnID] = d
    <3>1. CASE d = c
      BY <1>5, <1>8, <3>1
    <3>2. CASE d # c
      <4>1. conn'[d] = conn[d]
        BY <1>5, <3>2
      <4>2. conn[d].mConnID # mMaxID
        BY <1>4 DEF IInv, Objects
      <4>3. conn[d].mConnID \in DOMAIN mConns
        BY <1>8, <2>2, <4>1, <4>2, SMTT(30)
      <4> QED BY <1>8, <4>1, <4>3 DEF IInv, Table
    <3> QED BY <3>1, <3>2
  <2> QED BY <2>1, <2>2 DEF Table
<1>14. Driving'
  <2>1. dConn # None => dConn \in Clients \ {c} /\ conn'[dConn] = conn[dConn]
    BY <1>1, <1>5 DEF IInv, Types, Driving
  <2>2. dPc \in {"unregister", "refuse"} => dConn # None /\ conn[dConn].fd # conn[c].fd
    BY <1>1, <2>1, SMTT(30) DEF IInv, Types, Driving, Descriptors
  <2> QED BY <1>3, <1>7, <2>1, <2>2 DEF IInv, Driving, Kinds, peers
<1>15. Serving'
  BY <1>1, <1>2, <1>3, <1>5, <1>6, <1>7, ZenonT(40) DEF Serving, NextIs, x, Kinds
<1>16. Accepts'
  <2>1. ASSUME NEW y \in Range(mNetQueue), y.op = "OP_ACCEPT"
        PROVE  /\ conn'[y.socket].fd \in Fds
               /\ conn'[y.socket].object = "none" \/ y = x
               /\ ~Before(mNetQueue, y, y)
    <3>1. y.socket \in Clients /\ y = Accept(y.socket)
      BY <2>1 DEF IInv, Types, NetContexts, Accept
    <3>2. x = Accept(c)
      BY <1>1 DEF IInv, Types, NetContexts, Accept
    <3>3. y # x => y.socket # c
      BY <3>1, <3>2
    <3>4. conn[y.socket].fd \in Fds /\ conn[y.socket].object = "none" /\ ~Before(mNetQueue, y, y)
      BY <1>1, <2>1 DEF IInv, Accepts
    <3> QED BY <1>5, <3>1, <3>3, <3>4
  <2> QED BY <1>3, <2>1 DEF Accepts, x
<1>17. Drops'
  <2>1. ASSUME NEW y \in Range(mNetQueue), y.op = "OP_DROP"
        PROVE  \E d \in Clients : conn'[d].mConnID = y.conn /\ conn'[d].mClosed /\ conn'[d].fd = None
    <3>1. PICK d \in Clients : conn[d].mConnID = y.conn /\ conn[d].mClosed /\ conn[d].fd = None
      BY <2>1 DEF IInv, Drops
    <3>2. d # c
      BY <1>6, <3>1
    <3> QED BY <1>5, <3>1, <3>2
  <2> QED BY <1>3, <2>1 DEF Drops
<1> QED BY <1>9, <1>10, <1>11, <1>12, <1>13, <1>14, <1>15, <1>16, <1>17 DEF IInv

LEMMA DropConnectionKeeps ==
  ASSUME IInv, ended = "no", DropConnection
  PROVE  IInv'
<1> USE ConnectionAssumption
<1> DEFINE x == Head(mNetQueue)
           id == x.conn
           mine == {c \in Clients : id \in DOMAIN mConns /\ mConns[id] = c}
<1>1. /\ mNetQueue # <<>> /\ x.op = "OP_DROP" /\ nPc = "idle"
      /\ \A c \in mine : MutexFree(c)
      /\ conn' = [c \in Clients |-> IF c \in mine THEN [conn[c] EXCEPT !.object = "deleted"]
                                    ELSE conn[c]]
      /\ mConns' = [i \in DOMAIN mConns \ {id} |-> mConns[i]]
      /\ mWorkerQueue' = Append(mWorkerQueue, Drop(id))
      /\ mNetQueue' = Tail(mNetQueue)
      /\ UNCHANGED <<peers, received, mEventsInfo, active, dPc, dConn, nPc, taken, mMaxID, ended>>
  BY DEF DropConnection, NextContextIs, NextIs, driver
<1>2. x \in Range(mNetQueue) /\ IsQueue(mWorkerQueue')
  <2>1. IsQueue(mNetQueue) /\ IsQueue(mWorkerQueue)
    BY DEF IInv, Types
  <2>2. x \in Range(mNetQueue)
    BY <1>1, <2>1, TailOfQueue
  <2>3. IsQueue(Append(mWorkerQueue, Drop(id)))
    BY <2>1, AppendToQueue
  <2> QED BY <1>1, <2>2, <2>3
<1>3. PICK dropped \in Clients : /\ conn[dropped].mConnID = id
                                 /\ conn[dropped].mClosed /\ conn[dropped].fd = None
  BY <1>1, <1>2 DEF IInv, Drops
<1>4. \A c \in mine : /\ conn[c].mConnID = id /\ conn[c].object = "live" /\ conn[c].mClosed
                      /\ conn[c].fd = None /\ conn[c] \in Object
  <2>1. \A c \in mine : c = dropped
    BY <1>3 DEF IInv, Table
  <2>2. \A c \in mine : conn[c].mConnID = id /\ conn[c].object = "live"
    BY Registrants
  <2> QED BY <1>3, <2>1, <2>2 DEF IInv, Types
<1> DEFINE gone(c) == c \in mine
<1>5. /\ conn' \in [Clients -> Object]
      /\ \A c \in Clients :
           /\ conn'[c].object = IF gone(c) THEN "deleted" ELSE conn[c].object
           /\ conn'[c].mConnID = conn[c].mConnID /\ conn'[c].fd = conn[c].fd
           /\ conn'[c].mClosed = conn[c].mClosed /\ conn'[c].mRecved = conn[c].mRecved
           /\ conn'[c].mToSendMsg = conn[c].mToSendMsg
           /\ ~gone(c) => conn'[c] = conn[c]
  <2>1. \A c \in Clients : conn[c] \in Object
    BY DEF IInv, Types
  <2>2. ASSUME NEW c \in Clients
        PROVE  [conn[c] EXCEPT !.object = "deleted"] \in Object
    <3>1. conn[c] \in Object
      BY <2>1
    <3> QED BY <3>1 DEF Object
  <2>3. ASSUME NEW c \in Clients
        PROVE  LET t == [conn[c] EXCEPT !.object = "deleted"] IN
               /\ t.object = "deleted" /\ t.mConnID = conn[c].mConnID /\ t.fd = conn[c].fd
               /\ t.mClosed = conn[c].mClosed /\ t.mRecved = conn[c].mRecved
               /\ t.mToSendMsg = conn[c].mToSendMsg
    BY <2>1 DEF Object
  <2> QED BY <1>1, <2>1, <2>2, <2>3
<1>6. \A c \in Clients : gone(c) <=> conn[c].mConnID = id /\ id \in DOMAIN mConns
  BY Registrants DEF IInv, Table
<1>7. IsQueue(mNetQueue') /\ Range(mNetQueue') \subseteq NetContexts /\ Accepts' /\ Drops'
  <2> DEFINE e == Recv(0, <<>>)
  <2>1. e \in NetContexts /\ e.op = "OP_RECV"
    <3>1. <<>> \in Seq(Nat)
      OBVIOUS
    <3> QED BY <3>1 DEF Recv, NetContexts
  <2> HIDE DEF e
  <2>2. \A c \in Clients :
          /\ conn'[c].mConnID = conn[c].mConnID
          /\ conn[c].object = "none" => conn'[c].object = "none" /\ conn'[c].fd = conn[c].fd
          /\ conn[c].mClosed /\ conn[c].fd = None => conn'[c].mClosed /\ conn'[c].fd = None
    BY <1>4, <1>5
  <2>3. mNetQueue # <<>> /\ nPc' = "idle" /\ nPc = "idle" /\ mNetQueue' = Tail(mNetQueue)
    BY <1>1
  <2> QED BY <2>1, <2>2, <2>3, QueueKeeps
<1> HIDE DEF x, id, mine, gone
<1>8. DOMAIN mConns' = DOMAIN mConns \ {id} /\ \A i \in DOMAIN mConns' : mConns'[i] = mConns[i]
  BY <1>1
<1>9. Types'
  <2>1. mConns' \in [DOMAIN mConns' -> Clients] /\ DOMAIN mConns' \subseteq 0 .. mMaxID - 1
    BY <1>1, <1>8, Registrants
  <2> QED BY <1>1, <1>2, <1>5, <1>7, <2>1 DEF IInv, Types, peers
<1>10. EventsHaveOwners'
  <2>1. ASSUME NEW f \in Fds, NEW k \in Kinds, mEventsInfo[f][k] # None
        PROVE  conn'[mEventsInfo[f][k]].object = "live" /\ conn'[mEventsInfo[f][k]].fd = f
    <3>1. /\ mEventsInfo[f][k] \in Clients
          /\ conn[mEventsInfo[f][k]].object = "live" /\ conn[mEventsInfo[f][k]].fd = f
      BY <2>1, Registrants
    <3>2. ~gone(mEventsInfo[f][k])
      BY <1>4, <3>1 DEF gone
    <3> QED BY <1>5, <3>1, <3>2
  <2> QED BY <1>1, <2>1 DEF IInv, EventsHaveOwners, Registered
<1>11. Descriptors'
  BY <1>5 DEF IInv, Descriptors
<1>12. Objects'
  <2>1. ASSUME NEW c \in Clients
        PROVE  (LET tcp == conn[c] IN
                /\ tcp.object = "none" => /\ tcp.mConnID = None /\ ~tcp.mClosed /\ tcp.mSent = 0
                                          /\ tcp.mRecved = <<>> /\ tcp.mToSendMsg = <<>>
                /\ tcp.object # "none" => tcp.mConnID \in 0 .. mMaxID - 1
                /\ tcp.object = "live" => tcp.mConnID \in DOMAIN mConns /\ (tcp.mClosed \/ tcp.fd \in Fds)
                /\ tcp.object = "deleted" => tcp.mClosed /\ tcp.mConnID \notin DOMAIN mConns
                /\ tcp.mClosed => tcp.fd = None \/ (dPc \in {"unregister", "refuse"} /\ dConn = c)
                /\ c \in backlog => tcp = NoConnection
                /\ Len(tcp.mRecved) < FrameLength)'
    <3>1. CASE gone(c)
      <4>1. conn[c].object = "live" /\ conn[c].mConnID = id /\ conn[c].mClosed /\ conn[c].fd = None
        BY <1>4, <3>1 DEF gone
      <4>2. /\ conn[c].mConnID \in 0 .. mMaxID - 1 /\ c \notin backlog
            /\ Len(conn[c].mRecved) < FrameLength
        BY <4>1 DEF IInv, Objects, NoConnection
      <4>3. /\ conn'[c].object = "deleted" /\ conn'[c].mConnID = id /\ conn'[c].fd = None
            /\ conn'[c].mClosed /\ Len(conn'[c].mRecved) < FrameLength
            /\ conn'[c].mConnID \in 0 .. mMaxID - 1
        BY <1>5, <3>1, <4>1, <4>2
      <4>4. mMaxID' = mMaxID /\ backlog' = backlog
        BY <1>1 DEF peers
      <4>5. id \notin DOMAIN mConns'
        BY <1>8
      <4> QED BY <4>2, <4>3, <4>4, <4>5
    <3>2. CASE ~gone(c)
      <4>1. conn'[c] = conn[c]
        BY <1>5, <3>2
      <4>2. /\ conn[c].object = "live" => conn[c].mConnID \in DOMAIN mConns'
            /\ conn[c].object = "deleted" => conn[c].mConnID \notin DOMAIN mConns'
        BY <1>6, <1>8, <3>2 DEF IInv, Objects
      <4> QED BY <1>1, <4>1, <4>2 DEF IInv, Objects, peers
    <3> QED BY <3>1, <3>2
  <2> QED BY <2>1 DEF Objects
<1>13. Table'
  <2>1. ASSUME NEW i \in DOMAIN mConns'
        PROVE  conn'[mConns'[i]].mConnID = i /\ conn'[mConns'[i]].object = "live"
    <3>1. /\ i \in DOMAIN mConns /\ i # id /\ mConns'[i] = mConns[i] /\ mConns[i] \in Clients
          /\ conn[mConns[i]].mConnID = i /\ conn[mConns[i]].object = "live"
      BY <1>8, Registrants
    <3>2. ~gone(mConns[i])
      BY <1>6, <3>1
    <3> QED BY <1>5, <3>1, <3>2
  <2>2. ASSUME NEW c \in Clients, conn'[c].mConnID \in DOMAIN mConns'
        PROVE  mConns'[conn'[c].mConnID] = c
    BY <1>5, <1>8, <2>2 DEF IInv, Table
  <2> QED BY <2>1, <2>2 DEF Table
<1>14. Driving'
  <2>1. dConn # None => dConn \in Clients
    BY DEF IInv, Types
  <2>2. dPc \in {"unregister", "refuse"} => ~gone(dConn)
    <3>1. gone(dConn) => MutexFree(dConn)
      BY <1>1 DEF gone
    <3> QED BY <3>1 DEF MutexFree
  <2>3. dConn # None => conn'[dConn].object # "none"
    BY <1>5, <2>1 DEF IInv, Driving
  <2> QED BY <1>1, <1>5, <2>1, <2>2, <2>3 DEF IInv, Driving, peers
<1>15. Serving'
  BY <1>1 DEF Serving
<1> QED BY <1>7, <1>9, <1>10, <1>11, <1>12, <1>13, <1>14, <1>15 DEF IInv

LEMMA InductiveIInv == IInv /\ [Next]_vars => IInv'
<1> SUFFICES ASSUME IInv, [Next]_vars
             PROVE  IInv'
  OBVIOUS
<1>1. CASE Next
  <2>1. CASE Environment
    BY <1>1, <2>1, EnvironmentKeeps DEF Next
  <2>2. CASE DriverStep
    <3>1. ASSUME NEW c \in Clients, AcceptSocket(c)
          PROVE  IInv'
      BY <1>1, <3>1, AcceptSocketKeeps DEF Next
    <3>2. CASE Poll \/ Dispatch \/ EnterReadData
      BY <1>1, <3>2, PollKeeps, DispatchKeeps, EnterReadDataKeeps DEF Next
    <3>3. CASE ReadNotOkay \/ PreRecv \/ RecvPart \/ RecvRest
      BY <1>1, <3>3, ReadingKeeps DEF Next
    <3>4. CASE EndOfStream \/ RefuseLength \/ UnRegistAndReport \/ UnRegistSilently
      BY <1>1, <3>4, EndOfStreamKeeps, UnRegistAndReportKeeps DEF Next
    <3>5. CASE UnRegistAborts \/ Crash
      BY <1>1, <3>5, EndingKeeps DEF Next
    <3>6. CASE DriverWrites
      BY <1>1, <3>6, WritesKeep DEF Next
    <3> QED BY <2>2, <3>1, <3>2, <3>3, <3>4, <3>5, <3>6 DEF DriverStep
  <2>3. CASE ServiceStep
    <3>1. CASE AcceptConnection \/ RegistWriteEvent
      BY <1>1, <3>1, AcceptConnectionKeeps, RegistWriteEventKeeps DEF Next
    <3>2. CASE ForwardRecv \/ SendDiscarded
      BY <1>1, <3>2, ForwardingKeeps DEF Next
    <3>3. CASE SendEnqueued \/ ServiceWrites
      BY <1>1, <3>3, SendEnqueuedKeeps, WritesKeep DEF Next
    <3>4. CASE DropConnection
      BY <1>1, <3>4, DropConnectionKeeps DEF Next
    <3> QED BY <2>3, <3>1, <3>2, <3>3, <3>4 DEF ServiceStep
  <2> QED BY <1>1, <2>1, <2>2, <2>3 DEF Next
<1>2. CASE UNCHANGED vars
  <2> USE <1>2 DEF vars, queues, peers, driver, service
  <2>1. Types' /\ EventsHaveOwners' /\ Descriptors' /\ Objects' /\ Table'
    BY DEF IInv, Types, EventsHaveOwners, Registered, Descriptors, Objects, Table
  <2>2. Driving' /\ Serving' /\ Accepts' /\ Drops'
    BY DEF IInv, Driving, Serving, NextIs, Accepts, Drops
  <2> QED BY <2>1, <2>2 DEF IInv
<1> QED BY <1>1, <1>2

(* Every event the driver may run belongs to a connection that exists and  *)
(* owns the descriptor, and no event is registered twice: whoever uses a   *)
(* descriptor again, and however the two threads take turns.               *)
THEOREM EventsAlwaysHaveOwners == Spec => []EventsHaveOwners
<1>1. Spec => []IInv
  BY InitIInv, InductiveIInv, PTL DEF Spec
<1>2. IInv => EventsHaveOwners
  BY DEF IInv
<1> QED BY <1>1, <1>2, PTL

-----------------------------------------------------------------------------
(* Who can be closed, and by whom.                                         *)
DriverAlone == ~WritesFail /\ dPc \in Kinds => ~conn[dConn].mClosed

LEMMA WritingCloses ==
  ASSUME IInv, NEW c \in Clients, NEW rest, WriteData(c, rest),
         NEW d \in Clients, ~conn[d].mClosed, conn'[d].mClosed
  PROVE  WritesFail
<1>1. CASE WriteSome(c, rest)
  <2>1. PICK n \in 1 .. MessageLength - conn[c].mSent : conn' = [conn EXCEPT ![c] = Sent(conn[c], n)]
    BY <1>1 DEF WriteSome
  <2>2. n \in Nat /\ conn \in [Clients -> Object] /\ conn[c].mToSendMsg # <<>>
    <3>1. conn \in [Clients -> Object] /\ conn[c].mToSendMsg # <<>>
      BY <1>1 DEF WriteSome, HasMessage, IInv, Types
    <3>2. conn[c].mSent \in Nat /\ MessageLength \in Nat
      BY <3>1, ConnectionAssumption DEF Object
    <3> QED BY <2>1, <3>1, <3>2
  <2>3. Sent(conn[c], n).mClosed = conn[c].mClosed
    BY <2>2, SendingSome
  <2> QED BY <2>1, <2>2, <2>3
<1> QED BY <1>1 DEF WriteData, NothingToWrite, WriteFails, WriteKills

(* Only the end of a stream, or a write that fails, closes a connection.   *)
LEMMA Closers ==
  ASSUME IInv, Next, NEW c \in Clients, ~conn[c].mClosed, conn'[c].mClosed
  PROVE  \/ dPc \in {"header", "body", "unregister", "refuse"} /\ dConn = c
         \/ WritesFail
<1>1. CASE Environment
  BY <1>1 DEF Environment
<1>2. CASE DriverStep
  <2>1. CASE Poll \/ Dispatch \/ EnterReadData \/ UnRegistAborts \/ Crash
    BY <2>1 DEF Poll, Dispatch, EnterReadData, UnRegistAborts, Crash
  <2>2. CASE \E d \in Clients : AcceptSocket(d)
    <3>1. PICK d \in Clients, fd \in Fds : conn' = [conn EXCEPT ![d].fd = fd]
      BY <2>2 DEF AcceptSocket
    <3> QED BY <3>1 DEF IInv, Types, Object
  <2>3. CASE ReadNotOkay
    BY <2>3, Registrants, ZenonT(40) DEF ReadNotOkay, ResetRecv, IInv, Types, Object
  <2>4. CASE PreRecv \/ RecvPart \/ RecvRest \/ EndOfStream \/ RefuseLength \/ UnRegistAndReport
               \/ UnRegistSilently
    <3>1. dPc \in {"header", "body", "unregister", "refuse"}
      BY <2>4 DEF PreRecv, RecvPart, RecvRest, EndOfStream, RefuseLength, UnRegistAndReport,
                  UnRegistSilently
    <3>2. \A d \in Clients : d # dConn => conn'[d] = conn[d]
      BY <2>4 DEF PreRecv, RecvPart, RecvRest, EndOfStream, RefuseLength, UnRegistAndReport,
                  UnRegistSilently, Receive, IInv, Types
    <3> QED BY <3>1, <3>2
  <2>5. CASE DriverWrites
    <3>1. dConn \in Clients /\ WriteData(dConn, mNetQueue)
      BY <2>5, Registrants DEF DriverWrites
    <3> QED BY <3>1, WritingCloses
  <2> QED BY <1>2, <2>1, <2>2, <2>3, <2>4, <2>5 DEF DriverStep
<1>3. CASE ServiceStep
  <2>1. CASE RegistWriteEvent \/ ForwardRecv \/ SendDiscarded
    BY <2>1 DEF RegistWriteEvent, ForwardRecv, SendDiscarded
  <2>2. CASE AcceptConnection
    <3>1. conn' = [conn EXCEPT ![Head(mNetQueue).socket].object = "live",
                               ![Head(mNetQueue).socket].mConnID = mMaxID]
      BY <2>2 DEF AcceptConnection
    <3> QED BY <3>1 DEF IInv, Types, Object
  <2>3. CASE SendEnqueued
    BY <2>3, ZenonT(40) DEF SendEnqueued, IInv, Types, Object
  <2>4. CASE ServiceWrites
    <3>1. mConns[Head(mNetQueue).conn] \in Clients
          /\ WriteData(mConns[Head(mNetQueue).conn], Tail(mNetQueue))
      BY <2>4, Registrants DEF ServiceWrites
    <3> QED BY <3>1, WritingCloses
  <2>5. CASE DropConnection
    <3>1. conn'[c] \in {conn[c], [conn[c] EXCEPT !.object = "deleted"]}
      BY <2>5 DEF DropConnection
    <3>2. conn[c] \in Object
      BY DEF IInv, Types
    <3>3. [conn[c] EXCEPT !.object = "deleted"].mClosed = conn[c].mClosed
      BY <3>2 DEF Object
    <3> QED BY <3>1, <3>3
  <2> QED BY <1>3, <2>1, <2>2, <2>3, <2>4, <2>5 DEF ServiceStep
<1> QED BY <1>1, <1>2, <1>3 DEF Next

LEMMA DriverStaysAlone == IInv /\ DriverAlone /\ [Next]_vars => DriverAlone'
<1> SUFFICES ASSUME IInv, DriverAlone, [Next]_vars, ~WritesFail, dPc' \in Kinds
             PROVE  ~conn'[dConn'].mClosed
  BY DEF DriverAlone
<1> USE ConnectionAssumption
<1>1. CASE Dispatch
  <2>1. PICK e \in active : dConn' = mEventsInfo[e[1]][e[2]]
    BY <1>1 DEF Dispatch
  <2>2. dConn' \in Clients /\ conn[dConn'].fd # None /\ dPc = "loop" /\ conn' = conn
    BY <1>1, <2>1, ActivesAreRegistered DEF Dispatch
  <2> QED BY <2>2 DEF IInv, Objects
<1>2. CASE Next /\ ~Dispatch
  <2>1. dPc' = dPc /\ dConn' = dConn
    <3>1. CASE Environment
      BY <3>1 DEF Environment, driver
    <3>2. CASE DriverStep
      BY <1>2, <3>2, SMTT(30) DEF DriverStep, Poll, AcceptSocket, EnterReadData, ReadNotOkay, PreRecv, RecvPart,
         RecvRest, EndOfStream, RefuseLength, UnRegistAndReport, UnRegistSilently, UnRegistAborts,
         DriverWrites, Crash, BackToLoop, driver, Kinds
    <3>3. CASE ServiceStep
      BY <3>3 DEF ServiceStep, AcceptConnection, RegistWriteEvent, ForwardRecv, SendDiscarded,
         SendEnqueued, ServiceWrites, DropConnection, driver
    <3> QED BY <1>2, <3>1, <3>2, <3>3 DEF Next
  <2>2. dConn \in Clients /\ ~conn[dConn].mClosed
    BY <2>1, Registrants DEF DriverAlone, Kinds
  <2> QED BY <1>2, <2>1, <2>2, Closers DEF Kinds
<1>3. CASE UNCHANGED vars
  BY <1>3 DEF vars, driver, DriverAlone
<1> QED BY <1>1, <1>2, <1>3

(* If no write fails, the driver never enters a connection that has been   *)
(* deleted: only the driver itself closes connections, and what it has     *)
(* closed wakes it no more.                                                *)
THEOREM DriverAlwaysEntersLive == ~WritesFail => (Spec => []DriverEntersLiveOnly)
<1> SUFFICES ASSUME ~WritesFail
             PROVE  Spec => []DriverEntersLiveOnly
  OBVIOUS
<1>1. Init => DriverAlone
  BY DEF Init, DriverAlone, Kinds
<1>2. IInv /\ DriverAlone => DriverEntersLiveOnly
  BY Registrants DEF IInv, Types, Objects, Driving, DriverAlone, DriverEntersLiveOnly, Kinds, Object
<1>3. Spec => [](IInv /\ DriverAlone)
  BY <1>1, InitIInv, InductiveIInv, DriverStaysAlone, PTL DEF Spec
<1> QED BY <1>2, <1>3, PTL


-----------------------------------------------------------------------------
(* What the steps that neither enqueue nor write leave as it is.           *)
BuffersStay ==
  /\ received' = received
  /\ \A c \in Clients :
       /\ conn'[c].mSent = conn[c].mSent
       /\ conn[c].mClosed => conn'[c].mClosed
       /\ \/ conn'[c].mToSendMsg = conn[c].mToSendMsg
          \/ conn'[c].mToSendMsg = <<>> /\ conn'[c].mClosed

QueueMoves ==
  \/ mNetQueue' = mNetQueue /\ sends' = sends
  \/ /\ mNetQueue # <<>> /\ mNetQueue' = Tail(mNetQueue) /\ sends' = sends
     /\ nPc # "write"
  \/ \E e \in NetContexts :
       /\ mNetQueue' = Append(mNetQueue, e)
       /\ \/ e.op # "OP_SEND" /\ sends' = sends
          \/ e.op = "OP_SEND" /\ sends' = sends + 1 /\ e.msg = sends + 1

ServiceStays ==
  \/ nPc = "write" /\ nPc' = "write" /\ mConns' = mConns
  \/ nPc # "write" /\ nPc' # "write"

LEMMA DroppedIsKnown ==
  ASSUME IInv, NEW c \in Clients, conn[c].object # "none"
  PROVE  Drop(conn[c].mConnID) \in NetContexts /\ Drop(conn[c].mConnID).op = "OP_DROP"
<1>1. conn[c].mConnID \in Nat
  <2>1. conn[c].mConnID \in 0 .. mMaxID - 1 /\ mMaxID \in Nat
    BY DEF IInv, Types, Objects
  <2> QED BY <2>1
<1> QED BY <1>1 DEF Drop, NetContexts

LEMMA EnvironmentIsQuiet ==
  ASSUME IInv, Environment
  PROVE  BuffersStay /\ QueueMoves /\ ServiceStays
<1>1. received' = received /\ conn' = conn /\ nPc' = nPc /\ mConns' = mConns
  BY DEF Environment, service
<1>2. CASE mNetQueue' = mNetQueue /\ sends' = sends
  BY <1>1, <1>2 DEF BuffersStay, QueueMoves, ServiceStays
<1>3. CASE \E id \in 0 .. mMaxID : WorkerSends(id)
  <2>1. PICK id \in 0 .. mMaxID : WorkerSends(id)
    BY <1>3
  <2>2. id \in Nat /\ sends \in Nat
    BY <2>1 DEF IInv, Types
  <2>3. /\ Send(id, sends + 1) \in NetContexts
        /\ Send(id, sends + 1).op = "OP_SEND" /\ Send(id, sends + 1).msg = sends + 1
    BY <2>2 DEF Send, NetContexts
  <2> QED BY <1>1, <2>1, <2>3 DEF WorkerSends, BuffersStay, QueueMoves, ServiceStays
<1> QED BY <1>2, <1>3 DEF Environment, queues, PeerConnects, PeerSends, PeerEnds

LEMMA DriverIsQuiet ==
  ASSUME IInv, ended = "no", DriverStep, ~DriverWrites
  PROVE  BuffersStay /\ QueueMoves /\ ServiceStays
<1>1. received' = received /\ nPc' = nPc /\ mConns' = mConns /\ sends' = sends
  BY DEF DriverStep, Poll, Dispatch, AcceptSocket, EnterReadData, ReadNotOkay, PreRecv, RecvPart,
         RecvRest, EndOfStream, RefuseLength, UnRegistAndReport, UnRegistSilently, UnRegistAborts,
         Crash, peers, service
<1>2. ServiceStays
  BY <1>1 DEF ServiceStays
<1>3. conn \in [Clients -> Object]
  BY DEF IInv, Types
<1>4. CASE Poll \/ Dispatch \/ EnterReadData \/ UnRegistAborts \/ Crash
  <2>1. conn' = conn /\ mNetQueue' = mNetQueue
    BY <1>4 DEF Poll, Dispatch, EnterReadData, UnRegistAborts, Crash, queues
  <2> QED BY <1>1, <1>2, <2>1 DEF BuffersStay, QueueMoves
<1>5. CASE \E c \in Clients : AcceptSocket(c)
  <2>1. PICK c \in Clients, fd \in Fds : /\ conn' = [conn EXCEPT ![c].fd = fd]
                                         /\ mNetQueue' = Append(mNetQueue, Accept(c))
    BY <1>5 DEF AcceptSocket
  <2>2. Accept(c) \in NetContexts /\ Accept(c).op # "OP_SEND"
    BY DEF Accept, NetContexts
  <2>3. BuffersStay
    BY <1>1, <1>3, <2>1 DEF BuffersStay, Object
  <2> QED BY <1>1, <1>2, <2>1, <2>2, <2>3 DEF QueueMoves
<1>6. CASE ReadNotOkay
  <2>1. dConn \in Clients /\ conn[dConn].object # "none"
    BY <1>6, Registrants DEF ReadNotOkay
  <2>2. BuffersStay
    BY <1>1, <1>3, <1>6, <2>1 DEF ReadNotOkay, ResetRecv, BuffersStay, Object
  <2> QED BY <1>1, <1>2, <1>6, <2>1, <2>2, DroppedIsKnown DEF ReadNotOkay, QueueMoves
<1>7. CASE PreRecv \/ RecvPart
  <2>1. mNetQueue' = mNetQueue
    BY <1>7 DEF PreRecv, RecvPart, queues
  <2>2. \E r : conn' = [conn EXCEPT ![dConn].mRecved = r]
    BY <1>7 DEF PreRecv, RecvPart, Receive
  <2>3. BuffersStay
    BY <1>1, <1>3, <2>2 DEF BuffersStay, Object
  <2> QED BY <1>1, <1>2, <2>1, <2>3 DEF QueueMoves
<1>8. CASE RecvRest
  <2>1. IInv'
    BY <1>8, ReadingKeeps
  <2> DEFINE e == Recv(conn[dConn].mConnID,
                       conn[dConn].mRecved \o SubSeq(stream[dConn], 1, Missing(dConn)))
  <2>2. mNetQueue' = Append(mNetQueue, e)
    BY <1>8 DEF RecvRest
  <2>3. e.op # "OP_SEND"
    BY DEF Recv
  <2>4. e \in Range(mNetQueue')
    BY <2>2, AppendToQueue DEF IInv, Types
  <2>5. e \in NetContexts
    BY <2>1, <2>4 DEF IInv, Types
  <2>6. BuffersStay
    BY <1>1, <1>3, <1>8 DEF RecvRest, ResetRecv, BuffersStay, Object
  <2> HIDE DEF e
  <2> QED BY <1>1, <1>2, <2>2, <2>3, <2>5, <2>6 DEF QueueMoves
<1>9. CASE EndOfStream \/ RefuseLength
  <2>1. /\ \/ conn' = [conn EXCEPT ![dConn].mClosed = TRUE]
           \/ conn' = [conn EXCEPT ![dConn].mClosed = TRUE, ![dConn].refused = TRUE]
        /\ mNetQueue' = mNetQueue
    BY <1>9 DEF EndOfStream, RefuseLength, queues
  <2>2. BuffersStay
    <3>1. \A c \in Clients :
            /\ conn'[c].mSent = conn[c].mSent /\ conn'[c].mToSendMsg = conn[c].mToSendMsg
            /\ conn[c].mClosed => conn'[c].mClosed
      <4>1. CASE conn' = [conn EXCEPT ![dConn].mClosed = TRUE]
        BY <1>3, <4>1 DEF Object
      <4>2. CASE conn' = [conn EXCEPT ![dConn].mClosed = TRUE, ![dConn].refused = TRUE]
        BY <1>3, <4>2 DEF Object
      <4> QED BY <2>1, <4>1, <4>2
    <3> QED BY <1>1, <3>1 DEF BuffersStay
  <2> QED BY <1>1, <1>2, <2>1, <2>2 DEF QueueMoves
<1>10. CASE UnRegistAndReport
  <2>1. dConn \in Clients /\ conn[dConn].object # "none"
    BY <1>10, Registrants DEF UnRegistAndReport
  <2>2. conn' = [conn EXCEPT ![dConn] = ResetRecv(Closed(@))]
    BY <1>10 DEF UnRegistAndReport
  <2>3. BuffersStay
    BY <1>1, <1>3, <2>1, <2>2 DEF ResetRecv, Closed, BuffersStay, Object
  <2> QED BY <1>1, <1>2, <1>10, <2>1, <2>3, DroppedIsKnown DEF UnRegistAndReport, QueueMoves
<1>11. CASE UnRegistSilently
  <2>1. dConn \in Clients /\ mNetQueue' = mNetQueue
    BY <1>11, Registrants DEF UnRegistSilently, queues
  <2>2. conn' = [conn EXCEPT ![dConn] = Closed(@)]
    BY <1>11 DEF UnRegistSilently
  <2>3. BuffersStay
    BY <1>1, <1>3, <2>1, <2>2 DEF Closed, BuffersStay, Object
  <2> QED BY <1>1, <1>2, <2>1, <2>3 DEF QueueMoves
<1> QED BY <1>4, <1>5, <1>6, <1>7, <1>8, <1>9, <1>10, <1>11 DEF DriverStep

LEMMA ServiceIsQuiet ==
  ASSUME IInv, ServiceStep, ~SendEnqueued, ~ServiceWrites
  PROVE  BuffersStay /\ QueueMoves /\ ServiceStays
<1>1. received' = received /\ sends' = sends
  BY DEF ServiceStep, AcceptConnection, RegistWriteEvent, ForwardRecv, SendDiscarded,
         DropConnection, peers
<1>2. nPc # "write" /\ nPc' # "write"
  BY DEF ServiceStep, AcceptConnection, RegistWriteEvent, ForwardRecv, SendDiscarded,
         DropConnection, NextContextIs, service
<1>3. conn \in [Clients -> Object]
  BY DEF IInv, Types
<1>4. mNetQueue' = mNetQueue \/ (mNetQueue # <<>> /\ mNetQueue' = Tail(mNetQueue))
  <2>1. CASE AcceptConnection
    BY <2>1 DEF AcceptConnection, queues
  <2>2. CASE RegistWriteEvent
    BY <2>2, Registrants DEF RegistWriteEvent
  <2>3. CASE ForwardRecv \/ SendDiscarded \/ DropConnection
    BY <2>3 DEF ForwardRecv, SendDiscarded, DropConnection, NextContextIs, NextIs
  <2> QED BY <2>1, <2>2, <2>3 DEF ServiceStep
<1>5. BuffersStay
  <2>1. CASE AcceptConnection
    <3>1. conn' = [conn EXCEPT ![Head(mNetQueue).socket].object = "live",
                               ![Head(mNetQueue).socket].mConnID = mMaxID]
      BY <2>1 DEF AcceptConnection
    <3> QED BY <1>1, <1>3, <3>1 DEF BuffersStay, Object
  <2>2. CASE RegistWriteEvent \/ ForwardRecv \/ SendDiscarded
    <3>1. conn' = conn
      BY <2>2 DEF RegistWriteEvent, ForwardRecv, SendDiscarded
    <3> QED BY <1>1, <3>1 DEF BuffersStay
  <2>3. CASE DropConnection
    <3>1. \A c \in Clients : conn'[c] \in {conn[c], [conn[c] EXCEPT !.object = "deleted"]}
      BY <2>3 DEF DropConnection
    <3>2. \A c \in Clients : LET d == [conn[c] EXCEPT !.object = "deleted"] IN
            d.mSent = conn[c].mSent /\ d.mClosed = conn[c].mClosed /\ d.mToSendMsg = conn[c].mToSendMsg
      BY <1>3 DEF Object
    <3> QED BY <1>1, <3>1, <3>2 DEF BuffersStay
  <2> QED BY <2>1, <2>2, <2>3 DEF ServiceStep
<1> QED BY <1>1, <1>2, <1>4, <1>5 DEF QueueMoves, ServiceStays

-----------------------------------------------------------------------------
(* What the NetService is about to write is all there is to write.         *)
Unsent ==
  ended = "no" =>
    \A c \in Clients : ~conn[c].mClosed =>
      /\ conn[c].mSent = 0
      /\ \/ conn[c].mToSendMsg = <<>>
         \/ /\ nPc = "write" /\ mConns[Head(mNetQueue).conn] = c
            /\ Tail(conn[c].mToSendMsg) = <<>>

LEMMA HeadIsKept ==
  ASSUME IInv, QueueMoves, ServiceStays, nPc = "write"
  PROVE  nPc' = "write" /\ mConns' = mConns /\ Head(mNetQueue)' = Head(mNetQueue)
<1>1. mNetQueue # <<>> /\ nPc' = "write" /\ mConns' = mConns
  BY Registrants DEF ServiceStays
<1>2. CASE mNetQueue' = mNetQueue
  BY <1>1, <1>2
<1>3. CASE \E e \in NetContexts : mNetQueue' = Append(mNetQueue, e)
  BY <1>1, <1>3, NetQueueGrows
<1> QED BY <1>1, <1>2, <1>3 DEF QueueMoves

LEMMA WritingLeavesNothing ==
  ASSUME IInv, Unsent, ended = "no", ~ShortWrites,
         NEW c \in Clients, NEW rest, WriteData(c, rest),
         \/ rest = mNetQueue /\ nPc' = nPc /\ mConns' = mConns
         \/ nPc' = "idle" /\ nPc = "write" /\ mConns[Head(mNetQueue).conn] = c
  PROVE  Unsent'
<1> USE ConnectionAssumption
<1>1. conn \in [Clients -> Object] /\ conn[c] \in Object /\ MessageLength \in Nat \ {0}
  BY DEF IInv, Types
<1>2. ASSUME rest = mNetQueue, nPc = "write", ~WriteKills(c)
      PROVE  Head(mNetQueue') = Head(mNetQueue)
  <2>1. mNetQueue # <<>> /\ IsQueue(mNetQueue)
    BY <1>2, Registrants DEF IInv, Types
  <2>2. mNetQueue' = mNetQueue \/ mNetQueue' = Append(mNetQueue, Drop(conn[c].mConnID))
    BY <1>2 DEF WriteData, NothingToWrite, WriteSome, WriteFails
  <2> QED BY <2>1, <2>2, HeadStays
<1>3. ASSUME ~WriteKills(c),
             \A d \in Clients \ {c} : conn'[d] = conn[d],
             conn'[c].mClosed \/ (conn'[c].mSent = 0 /\ conn'[c].mToSendMsg = <<>>)
      PROVE  Unsent'
  <2> SUFFICES ASSUME NEW d \in Clients \ {c}, ~conn[d].mClosed, conn[d].mToSendMsg # <<>>
               PROVE  nPc' = "write" /\ mConns'[Head(mNetQueue').conn] = d
    BY <1>3 DEF Unsent
  <2>1. nPc = "write" /\ mConns[Head(mNetQueue).conn] = d
    BY DEF Unsent
  <2> QED BY <1>2, <1>3, <2>1
<1>4. CASE NothingToWrite(c, rest)
  <2>1. conn' = conn /\ ~HasMessage(c) /\ ~WriteKills(c)
    BY <1>4 DEF NothingToWrite, WriteKills
  <2>2. conn'[c].mClosed \/ (conn'[c].mSent = 0 /\ conn'[c].mToSendMsg = <<>>)
    BY <2>1 DEF HasMessage, Unsent
  <2> QED BY <1>3, <2>1, <2>2
<1>5. CASE WriteSome(c, rest)
  <2>1. PICK n \in 1 .. MessageLength - conn[c].mSent :
          n = MessageLength - conn[c].mSent /\ conn' = [conn EXCEPT ![c] = Sent(conn[c], n)]
    BY <1>5 DEF WriteSome
  <2>2. ~conn[c].mClosed /\ conn[c].mToSendMsg # <<>> /\ ~WriteKills(c)
    BY <1>5 DEF WriteSome, HasMessage, WriteKills
  <2>3. conn[c].mSent = 0 /\ Tail(conn[c].mToSendMsg) = <<>>
    BY <2>2 DEF Unsent
  <2>4. n \in Nat /\ conn[c].mSent + n = MessageLength
    BY <1>1, <2>1, <2>3
  <2>5. Sent(conn[c], n).mSent = 0 /\ Sent(conn[c], n).mToSendMsg = <<>>
    BY <1>1, <2>2, <2>3, <2>4, SendingSome
  <2> QED BY <1>1, <1>3, <2>1, <2>2, <2>5
<1>6. CASE WriteFails(c, rest)
  <2>1. conn' = [conn EXCEPT ![c] = Closed([@ EXCEPT !.mSent = 0])]
    BY <1>6 DEF WriteFails
  <2>2. Closed([conn[c] EXCEPT !.mSent = 0]).mClosed
    BY <1>1 DEF Closed, Object
  <2>3. ~WriteKills(c)
    BY <1>6 DEF WriteFails, WriteKills
  <2> QED BY <1>1, <1>3, <2>1, <2>2, <2>3
<1>7. CASE WriteKills(c)
  BY <1>7 DEF WriteKills, Unsent
<1> QED BY <1>4, <1>5, <1>6, <1>7 DEF WriteData

LEMMA UnsentStays == IInv /\ Unsent /\ ~ShortWrites /\ [Next]_vars => Unsent'
<1> SUFFICES ASSUME IInv, Unsent, ~ShortWrites, [Next]_vars
             PROVE  Unsent'
  OBVIOUS
<1>1. ASSUME ended = "no", BuffersStay, QueueMoves, ServiceStays
      PROVE  Unsent'
  BY <1>1, HeadIsKept DEF Unsent, BuffersStay, ServiceStays
<1>2. CASE ended = "no" /\ SendEnqueued
  <2>1. /\ nPc = "idle" /\ nPc' = "write" /\ mConns' = mConns /\ mNetQueue' = mNetQueue
        /\ Head(mNetQueue) \in Range(mNetQueue) /\ Head(mNetQueue).op = "OP_SEND"
        /\ Head(mNetQueue).conn \in DOMAIN mConns
    BY <1>2, TailOfQueue DEF SendEnqueued, NextContextIs, NextIs, queues, IInv, Types
  <2> DEFINE c == mConns[Head(mNetQueue).conn]
             m == Head(mNetQueue).msg
  <2>2. c \in Clients /\ conn \in [Clients -> Object]
    BY <2>1, Registrants DEF IInv, Types
  <2>3. conn' = [conn EXCEPT ![c].mToSendMsg = Append(@, m)]
    BY <1>2 DEF SendEnqueued
  <2> HIDE DEF c, m
  <2>4. \A d \in Clients : /\ conn'[d].mClosed = conn[d].mClosed
                           /\ conn'[d].mSent = conn[d].mSent
                           /\ d # c => conn'[d].mToSendMsg = conn[d].mToSendMsg
                           /\ d = c => conn'[d].mToSendMsg = Append(conn[d].mToSendMsg, m)
    BY <2>2, <2>3 DEF Object
  <2>5. Tail(Append(<<>>, m)) = <<>>
    OBVIOUS
  <2>6. mConns'[Head(mNetQueue').conn] = c
    BY <2>1 DEF c
  <2> QED BY <1>2, <2>1, <2>4, <2>5, <2>6 DEF Unsent
<1>3. CASE ended = "no" /\ ServiceWrites
  <2> DEFINE c == mConns[Head(mNetQueue).conn]
  <2>1. c \in Clients /\ WriteData(c, Tail(mNetQueue)) /\ nPc = "write" /\ nPc' = "idle"
    BY <1>3, Registrants DEF ServiceWrites
  <2> QED BY <1>3, <2>1, WritingLeavesNothing
<1>4. CASE ended = "no" /\ DriverWrites
  <2>1. dConn \in Clients /\ WriteData(dConn, mNetQueue) /\ nPc' = nPc /\ mConns' = mConns
    BY <1>4, Registrants DEF DriverWrites
  <2> QED BY <1>4, <2>1, WritingLeavesNothing
<1>5. CASE UNCHANGED vars
  BY <1>5 DEF vars, queues, service, Unsent
<1> QED BY <1>1, <1>2, <1>3, <1>4, <1>5, EnvironmentIsQuiet, DriverIsQuiet, ServiceIsQuiet DEF Next

(* If send() takes whole messages, the NetService leaves nothing unsent    *)
(* when it is done with a context: WriteData writes one message for each   *)
(* one enqueued, and if the driver was faster there is none left to write. *)
THEOREM NothingEverLeftUnsent == ~ShortWrites => (Spec => []NothingLeftUnsent)
<1> SUFFICES ASSUME ~ShortWrites
             PROVE  Spec => []NothingLeftUnsent
  OBVIOUS
<1>1. Init => Unsent
  BY DEF Init, Unsent, NoConnection
<1>2. Unsent => NothingLeftUnsent
  BY DEF Unsent, NothingLeftUnsent
<1>3. Spec => [](IInv /\ Unsent)
  BY <1>1, InitIInv, InductiveIInv, UnsentStays, PTL DEF Spec
<1> QED BY <1>2, <1>3, PTL

-----------------------------------------------------------------------------
(* Arithmetic: what \div says of the units of one message.                 *)
LEMMA ProductGrows ==
  ASSUME NEW L \in Nat \ {0}, NEW a \in Int, NEW b \in Int, a < b
  PROVE  L * a + L <= L * b
<1>1. L * (b - a) >= L
  <2>1. b - a >= 1
    OBVIOUS
  <2> QED BY <2>1, SMTT(30)
<1> QED BY <1>1, SMTT(30)

LEMMA Blocks ==
  ASSUME NEW L \in Nat \ {0}, NEW k \in Nat, NEW w \in Nat, w = L * k
  PROVE  /\ \A i \in 1 .. w : (i - 1) \div L \in Int /\ (i - 1) \div L < k
         /\ \A i \in w + 1 .. w + L : (i - 1) \div L = k
<1>1. ASSUME NEW i \in Nat \ {0}
      PROVE  LET d == (i - 1) \div L IN d \in Int /\ L * d <= i - 1 /\ i - 1 < L * d + L
  <2>1. i - 1 \in Nat
    OBVIOUS
  <2> QED BY <2>1, SMTT(30)
<1>2. ASSUME NEW i \in Nat \ {0}, NEW d \in Int, L * d <= i - 1, i - 1 < L * d + L
      PROVE  /\ i <= w => d < k
             /\ w < i /\ i <= w + L => d = k
  <2>1. L * d \in Int /\ L * k \in Int
    OBVIOUS
  <2>2. i <= w => ~(k < d) /\ d # k
    BY <1>2, <2>1, ProductGrows
  <2>3. w < i => ~(d < k)
    BY <1>2, <2>1, ProductGrows
  <2>4. i <= w + L => ~(k < d)
    BY <1>2, <2>1, ProductGrows
  <2> QED BY <2>2, <2>3, <2>4
<1>3. \A i \in 1 .. w + L : i \in Nat \ {0}
  OBVIOUS
<1> QED BY <1>1, <1>2, <1>3

-----------------------------------------------------------------------------
(* The Worker numbers what it sends; each message is on its way to the     *)
(* NetService, or with its connection, or received, and behind those       *)
(* before it.                                                              *)
IsSend(x) == x.op = "OP_SEND"

SendsInOrder ==
  /\ \A x, y \in Range(mNetQueue) :
       IsSend(x) /\ IsSend(y) /\ Before(mNetQueue, x, y) => x.msg < y.msg
  /\ \A x \in Range(mNetQueue) : IsSend(x) => x.msg <= sends
  /\ \A c \in Clients : \A n \in Range(conn[c].mToSendMsg) \cup Range(received[c]) :
       /\ n <= sends
       /\ \A y \in Range(mNetQueue) :
            IsSend(y) => n < y.msg \/ (nPc = "write" /\ y = Head(mNetQueue)) \/ ended # "no"
  /\ \A c \in Clients : \A m, n \in Range(conn[c].mToSendMsg) :
       Before(conn[c].mToSendMsg, m, n) => m < n

(* A peer that is there, and whose connection is not closed, has whole     *)
(* messages, mSent units of the next one, and only later ones to come.     *)
Whole(c) == Len(received[c]) - conn[c].mSent

Present == {c \in Clients : c \notin peerClosed /\ ~conn[c].mClosed}

Receiving ==
  \A c \in Present :
    /\ conn[c].mSent < MessageLength /\ (conn[c].mSent # 0 => conn[c].mToSendMsg # <<>>)
    /\ \E k \in Nat : Whole(c) = MessageLength * k
    /\ \A i \in 1 .. Whole(c) : \A n \in Range(conn[c].mToSendMsg) : received[c][i] < n
    /\ \A i \in Whole(c) + 1 .. Len(received[c]) : received[c][i] = Head(conn[c].mToSendMsg)

MInv == SendsInOrder /\ Receiving /\ MessagesIntact

LEMMA Numbers ==
  ASSUME IInv
  PROVE  /\ sends \in Nat
         /\ \A x \in Range(mNetQueue) : IsSend(x) => x.msg \in Nat
         /\ \A c \in Clients : /\ conn[c].mToSendMsg \in Seq(Nat) /\ received[c] \in Seq(Nat)
                               /\ IsQueue(conn[c].mToSendMsg) /\ IsQueue(received[c])
                               /\ Range(conn[c].mToSendMsg) \subseteq Nat
                               /\ Range(received[c]) \subseteq Nat
                               /\ conn[c].mSent \in Nat
<1>1. \A x \in Range(mNetQueue) : IsSend(x) => x.msg \in Nat
  <2> SUFFICES ASSUME NEW x \in Range(mNetQueue), IsSend(x)
               PROVE  x.msg \in Nat
    OBVIOUS
  <2>1. x \in NetContexts /\ x.op = "OP_SEND"
    BY DEF IInv, Types, IsSend
  <2> QED BY <2>1 DEF NetContexts
<1>2. \A c \in Clients : conn[c].mToSendMsg \in Seq(Nat) /\ received[c] \in Seq(Nat)
                         /\ conn[c].mSent \in Nat
  BY DEF IInv, Types, Object
<1> QED BY <1>1, <1>2, AnySeqIsQueue DEF IInv, Types

(* A write by the driver, or neither a write nor an enqueue.               *)
LEMMA OrderStays ==
  ASSUME IInv, SendsInOrder, ended = "no", QueueMoves, ServiceStays,
         \A c \in Clients :
           /\ Range(conn'[c].mToSendMsg) \subseteq Range(conn[c].mToSendMsg)
           /\ Range(received'[c]) \subseteq Range(conn[c].mToSendMsg) \cup Range(received[c])
           /\ \A m, n : Before(conn'[c].mToSendMsg, m, n) => Before(conn[c].mToSendMsg, m, n)
  PROVE  SendsInOrder'
<1> DEFINE Ours(c) == Range(conn[c].mToSendMsg) \cup Range(received[c])
<1>1. \A c \in Clients : \A n \in Range(conn'[c].mToSendMsg) \cup Range(received'[c]) : n \in Ours(c)
  OBVIOUS
<1>2. \A c \in Clients : \A m, n \in Range(conn'[c].mToSendMsg) :
        Before(conn'[c].mToSendMsg, m, n) => m < n
  BY DEF SendsInOrder
<1>3. \A c \in Clients : \A n \in Ours(c) :
        /\ n \in Nat /\ n <= sends
        /\ \A y \in Range(mNetQueue) : IsSend(y) => n < y.msg \/ (nPc = "write" /\ y = Head(mNetQueue))
  BY Numbers DEF SendsInOrder
<1> HIDE DEF Ours
<1>4. nPc = "write" => nPc' = "write" /\ Head(mNetQueue)' = Head(mNetQueue)
  BY HeadIsKept
<1>5. CASE mNetQueue' = mNetQueue /\ sends' = sends
  BY <1>1, <1>2, <1>3, <1>4, <1>5 DEF SendsInOrder
<1>6. CASE /\ mNetQueue # <<>> /\ mNetQueue' = Tail(mNetQueue) /\ sends' = sends
           /\ nPc # "write"
  <2>1. /\ Range(mNetQueue') \subseteq Range(mNetQueue)
        /\ \A x, y : Before(mNetQueue', x, y) => Before(mNetQueue, x, y)
    BY <1>6, NetQueueShrinks
  <2> QED BY <1>1, <1>2, <1>3, <1>6, <2>1 DEF SendsInOrder
<1>7. ASSUME NEW e \in NetContexts, mNetQueue' = Append(mNetQueue, e),
             \/ e.op # "OP_SEND" /\ sends' = sends
             \/ e.op = "OP_SEND" /\ sends' = sends + 1 /\ e.msg = sends + 1
      PROVE  SendsInOrder'
  <2>1. /\ Range(mNetQueue') = Range(mNetQueue) \cup {e}
        /\ \A x, y : Before(mNetQueue', x, y)
                       => Before(mNetQueue, x, y) \/ (x \in Range(mNetQueue) /\ y = e)
    BY <1>7, NetQueueGrows
  <2>2. sends \in Nat /\ sends' \in Nat /\ sends <= sends' /\ (IsSend(e) => e.msg = sends' /\ sends < e.msg)
    BY <1>7, Numbers DEF IsSend
  <2>3. \A x \in Range(mNetQueue) : IsSend(x) => x.msg \in Nat /\ x.msg <= sends
    BY Numbers DEF SendsInOrder
  <2>4. \A x, y \in Range(mNetQueue') :
          IsSend(x) /\ IsSend(y) /\ Before(mNetQueue', x, y) => x.msg < y.msg
    <3> SUFFICES ASSUME NEW x \in Range(mNetQueue'), NEW y \in Range(mNetQueue'),
                        IsSend(x), IsSend(y), Before(mNetQueue', x, y)
                 PROVE  x.msg < y.msg
      OBVIOUS
    <3>1. CASE Before(mNetQueue, x, y)
      <4>1. x \in Range(mNetQueue) /\ y \in Range(mNetQueue)
        BY <3>1, BeforeIsInQueue
      <4> QED BY <3>1, <4>1 DEF SendsInOrder
    <3>2. CASE x \in Range(mNetQueue) /\ y = e
      BY <3>2, <2>2, <2>3
    <3> QED BY <2>1, <3>1, <3>2
  <2>5. \A x \in Range(mNetQueue') : IsSend(x) => x.msg <= sends'
    BY <2>1, <2>2, <2>3
  <2>6. \A c \in Clients : \A n \in Ours(c) :
          /\ n <= sends'
          /\ \A y \in Range(mNetQueue') :
               IsSend(y) => n < y.msg \/ (nPc' = "write" /\ y = Head(mNetQueue'))
    BY <1>3, <1>4, <2>1, <2>2
  <2> QED BY <1>1, <1>2, <2>4, <2>5, <2>6 DEF SendsInOrder
<1> QED BY <1>5, <1>6, <1>7 DEF QueueMoves

LEMMA QuietOrder ==
  ASSUME IInv, SendsInOrder, ended = "no", BuffersStay, QueueMoves, ServiceStays
  PROVE  SendsInOrder'
<1>1. \A c \in Clients : conn'[c].mToSendMsg = conn[c].mToSendMsg \/ conn'[c].mToSendMsg = <<>>
  BY DEF BuffersStay
<1>2. \A c \in Clients : received'[c] = received[c]
  BY DEF BuffersStay
<1> QED BY <1>1, <1>2, EmptyQueue, OrderStays

(* What WriteData does to the messages that wait and that are received.    *)
LEMMA WritesTheNext ==
  ASSUME IInv, NEW c \in Clients, NEW rest, WriteData(c, rest)
  PROVE  \A d \in Clients :
           /\ Range(conn'[d].mToSendMsg) \subseteq Range(conn[d].mToSendMsg)
           /\ Range(received'[d]) \subseteq Range(conn[d].mToSendMsg) \cup Range(received[d])
           /\ \A m, n : Before(conn'[d].mToSendMsg, m, n) => Before(conn[d].mToSendMsg, m, n)
<1> USE ConnectionAssumption
<1>1. conn \in [Clients -> Object] /\ received \in [Clients -> Seq(Nat)] /\ conn[c] \in Object
  BY DEF IInv, Types
<1>2. CASE NothingToWrite(c, rest) \/ WriteKills(c)
  BY <1>2 DEF NothingToWrite, WriteKills
<1>3. CASE WriteFails(c, rest)
  <2>1. conn' = [conn EXCEPT ![c] = Closed([@ EXCEPT !.mSent = 0])] /\ received' = received
    BY <1>3 DEF WriteFails
  <2>2. Closed([conn[c] EXCEPT !.mSent = 0]).mToSendMsg = <<>>
    BY <1>1 DEF Closed, Object
  <2>3. \A d \in Clients : conn'[d].mToSendMsg = conn[d].mToSendMsg \/ conn'[d].mToSendMsg = <<>>
    BY <1>1, <2>1, <2>2
  <2> QED BY <2>1, <2>3, EmptyQueue
<1>4. CASE WriteSome(c, rest)
  <2>1. PICK n \in 1 .. MessageLength - conn[c].mSent :
          /\ conn' = [conn EXCEPT ![c] = Sent(conn[c], n)]
          /\ received' = IF c \in peerClosed THEN received
                         ELSE [received EXCEPT ![c] =
                                 @ \o [i \in 1 .. n |-> Head(conn[c].mToSendMsg)]]
    BY <1>4 DEF WriteSome
  <2> DEFINE q == conn[c].mToSendMsg
             piece == [i \in 1 .. n |-> Head(q)]
  <2>2. q # <<>> /\ IsQueue(q) /\ q \in Seq(Nat) /\ conn[c].mSent \in Nat
    BY <1>4, Numbers DEF WriteSome, HasMessage
  <2>3. n \in Nat /\ Head(q) \in Range(q)
    BY <2>1, <2>2, TailOfQueue
  <2>4. piece \in Seq({Head(q)})
    BY <2>3
  <2>5. Range(received[c] \o piece) \subseteq Range(received[c]) \cup Range(q)
    <3>1. IsQueue(piece) /\ Range(piece) \subseteq Range(q)
      BY <2>3, <2>4, AnySeqIsQueue
    <3>2. IsQueue(received[c])
      BY Numbers
    <3> HIDE DEF piece
    <3> QED BY <3>1, <3>2, ConcatOfQueues
  <2>6. Sent(conn[c], n).mToSendMsg \in {q, Tail(q)}
    BY <1>1, <2>2, <2>3, SendingSome
  <2>7. /\ Range(Tail(q)) \subseteq Range(q)
        /\ \A x, y : Before(Tail(q), x, y) => Before(q, x, y)
    BY <2>2, TailOfQueue
  <2>8. conn'[c].mToSendMsg \in {q, Tail(q)} /\ \A d \in Clients \ {c} : conn'[d] = conn[d]
    BY <1>1, <2>1, <2>6
  <2>9. received'[c] \in {received[c], received[c] \o piece}
        /\ \A d \in Clients \ {c} : received'[d] = received[d]
    BY <1>1, <2>1
  <2> HIDE DEF piece, q
  <2>10. /\ Range(conn'[c].mToSendMsg) \subseteq Range(q)
         /\ Range(received'[c]) \subseteq Range(q) \cup Range(received[c])
         /\ \A x, y : Before(conn'[c].mToSendMsg, x, y) => Before(q, x, y)
    BY <2>5, <2>7, <2>8, <2>9
  <2> QED BY <2>8, <2>9, <2>10 DEF q
<1> QED BY <1>2, <1>3, <1>4 DEF WriteData

LEMMA DriverOrder ==
  ASSUME IInv, SendsInOrder, ended = "no", DriverWrites
  PROVE  SendsInOrder'
<1>1. dConn \in Clients /\ WriteData(dConn, mNetQueue)
  BY Registrants DEF DriverWrites
<1>2. QueueMoves
  <2>1. sends' = sends
    BY DEF DriverWrites, peers
  <2>2. WriteFails(dConn, mNetQueue) => conn[dConn].object # "none"
    BY <1>1, Registrants DEF DriverWrites
  <2> QED BY <1>1, <2>1, <2>2, DroppedIsKnown
          DEF WriteData, NothingToWrite, WriteSome, WriteFails, WriteKills, QueueMoves
<1>3. ServiceStays
  BY DEF DriverWrites, ServiceStays
<1> QED BY <1>1, <1>2, <1>3, WritesTheNext, OrderStays

LEMMA ServiceOrder ==
  ASSUME IInv, SendsInOrder, ended = "no", ServiceWrites
  PROVE  SendsInOrder'
<1> DEFINE c == mConns[Head(mNetQueue).conn]
<1>1. /\ nPc = "write" /\ nPc' = "idle" /\ sends' = sends /\ mNetQueue # <<>>
      /\ c \in Clients /\ WriteData(c, Tail(mNetQueue))
  BY Registrants DEF ServiceWrites, peers
<1> HIDE DEF c
<1>2. \A d \in Clients :
        /\ Range(conn'[d].mToSendMsg) \subseteq Range(conn[d].mToSendMsg)
        /\ Range(received'[d]) \subseteq Range(conn[d].mToSendMsg) \cup Range(received[d])
        /\ \A m, n : Before(conn'[d].mToSendMsg, m, n) => Before(conn[d].mToSendMsg, m, n)
  BY <1>1, WritesTheNext
<1>3. \A d \in Clients : \A n \in Range(conn'[d].mToSendMsg) \cup Range(received'[d]) :
        /\ n <= sends
        /\ \A y \in Range(mNetQueue) : IsSend(y) => n < y.msg \/ y = Head(mNetQueue)
  BY <1>2 DEF SendsInOrder
<1>4. \A d \in Clients : \A m, n \in Range(conn'[d].mToSendMsg) :
        Before(conn'[d].mToSendMsg, m, n) => m < n
  BY <1>2 DEF SendsInOrder
<1>5. CASE mNetQueue' = mNetQueue /\ ended' # "no"
  BY <1>1, <1>3, <1>4, <1>5 DEF SendsInOrder
<1>6. ASSUME NEW e, e.op = "OP_DROP",
             mNetQueue' = Tail(mNetQueue) \/ mNetQueue' = Append(Tail(mNetQueue), e)
      PROVE  SendsInOrder'
  <2>1. /\ IsQueue(Tail(mNetQueue)) /\ Range(Tail(mNetQueue)) \subseteq Range(mNetQueue)
        /\ \A x, y : Before(Tail(mNetQueue), x, y) => Before(mNetQueue, x, y)
        /\ \A y \in Range(Tail(mNetQueue)) : Before(mNetQueue, Head(mNetQueue), y)
    BY <1>1, TailOfQueue DEF IInv, Types
  <2>2. /\ \A y \in Range(mNetQueue') : IsSend(y) => y \in Range(Tail(mNetQueue))
        /\ \A x, y : IsSend(y) /\ Before(mNetQueue', x, y) => Before(Tail(mNetQueue), x, y)
    <3>1. CASE mNetQueue' = Tail(mNetQueue)
      BY <3>1
    <3>2. CASE mNetQueue' = Append(Tail(mNetQueue), e)
      <4>1. /\ Range(mNetQueue') = Range(Tail(mNetQueue)) \cup {e}
            /\ \A x, y : Before(mNetQueue', x, y)
                 => Before(Tail(mNetQueue), x, y) \/ (x \in Range(Tail(mNetQueue)) /\ y = e)
        BY <2>1, <3>2, AppendToQueue
      <4>2. ~IsSend(e)
        BY <1>6 DEF IsSend
      <4> QED BY <4>1, <4>2
    <3> QED BY <1>6, <3>1, <3>2
  <2>3. \A y \in Range(mNetQueue') : IsSend(y) =>
          y \in Range(mNetQueue) /\ y.msg \in Nat /\ y # Head(mNetQueue)
    <3> SUFFICES ASSUME NEW y \in Range(mNetQueue'), IsSend(y), y = Head(mNetQueue)
                 PROVE  FALSE
      BY <2>1, <2>2, Numbers
    <3>1. Before(mNetQueue, y, y) /\ y \in Range(mNetQueue)
      BY <2>1, <2>2
    <3>2. y.msg < y.msg /\ y.msg \in Nat
      BY <3>1, Numbers DEF SendsInOrder
    <3> QED BY <3>2
  <2>4. \A x, y \in Range(mNetQueue') :
          IsSend(x) /\ IsSend(y) /\ Before(mNetQueue', x, y) => x.msg < y.msg
    BY <2>1, <2>2, <2>3 DEF SendsInOrder
  <2>5. \A x \in Range(mNetQueue') : IsSend(x) => x.msg <= sends'
    BY <1>1, <2>3 DEF SendsInOrder
  <2>6. \A d \in Clients : \A n \in Range(conn'[d].mToSendMsg) \cup Range(received'[d]) :
          n <= sends' /\ \A y \in Range(mNetQueue') : IsSend(y) => n < y.msg
    BY <1>1, <1>3, <2>3
  <2> QED BY <1>4, <2>4, <2>5, <2>6 DEF SendsInOrder
<1>7. Drop(conn[c].mConnID).op = "OP_DROP"
  BY DEF Drop
<1> QED BY <1>1, <1>5, <1>6, <1>7 DEF WriteData, NothingToWrite, WriteSome, WriteFails, WriteKills

LEMMA Enqueueing ==
  ASSUME IInv, SendEnqueued
  PROVE  LET h == Head(mNetQueue)
             c == mConns[h.conn]
         IN  /\ nPc = "idle" /\ nPc' = "write" /\ h \in Range(mNetQueue) /\ IsSend(h)
             /\ \A y \in Range(mNetQueue) : y = h \/ Before(mNetQueue, h, y)
             /\ c \in Clients
             /\ \A d \in Clients :
                  /\ conn'[d].mSent = conn[d].mSent /\ conn'[d].mClosed = conn[d].mClosed
                  /\ d # c => conn'[d].mToSendMsg = conn[d].mToSendMsg
             /\ conn'[c].mToSendMsg = Append(conn[c].mToSendMsg, h.msg)
             /\ UNCHANGED <<mNetQueue, received, sends, mConns, peerClosed, ended>>
<1> DEFINE h == Head(mNetQueue)
           c == mConns[h.conn]
<1>1. /\ nPc = "idle" /\ nPc' = "write" /\ mNetQueue # <<>> /\ IsSend(h)
      /\ h.conn \in DOMAIN mConns
      /\ UNCHANGED <<mNetQueue, received, sends, mConns, peerClosed, ended>>
      /\ conn' = [conn EXCEPT ![c].mToSendMsg = Append(@, h.msg)]
  BY DEF SendEnqueued, NextContextIs, NextIs, IsSend, queues, peers
<1>2. h \in Range(mNetQueue) /\ \A y \in Range(mNetQueue) : y = h \/ Before(mNetQueue, h, y)
  BY <1>1, TailOfQueue DEF IInv, Types
<1>3. c \in Clients /\ conn \in [Clients -> Object]
  BY <1>1, Registrants DEF IInv, Types
<1> HIDE DEF c, h
<1>4. \A d \in Clients :
        /\ conn'[d].mSent = conn[d].mSent /\ conn'[d].mClosed = conn[d].mClosed
        /\ d # c => conn'[d].mToSendMsg = conn[d].mToSendMsg
        /\ d = c => conn'[d].mToSendMsg = Append(conn[d].mToSendMsg, h.msg)
  BY <1>1, <1>3 DEF Object
<1> QED BY <1>1, <1>2, <1>3, <1>4 DEF c, h

LEMMA EnqueuedOrder ==
  ASSUME IInv, SendsInOrder, ended = "no", SendEnqueued
  PROVE  SendsInOrder'
<1> DEFINE h == Head(mNetQueue)
           c == mConns[h.conn]
<1>1. /\ nPc = "idle" /\ nPc' = "write" /\ h \in Range(mNetQueue) /\ IsSend(h)
      /\ \A y \in Range(mNetQueue) : y = h \/ Before(mNetQueue, h, y)
      /\ c \in Clients
      /\ \A d \in Clients : d # c => conn'[d].mToSendMsg = conn[d].mToSendMsg
      /\ conn'[c].mToSendMsg = Append(conn[c].mToSendMsg, h.msg)
      /\ UNCHANGED <<mNetQueue, received, sends, mConns, peerClosed, ended>>
  BY Enqueueing, ZenonT(40)
<1>2. /\ h.msg \in Nat /\ h.msg <= sends
      /\ \A y \in Range(mNetQueue) : IsSend(y) => h.msg < y.msg \/ y = h
  BY <1>1, Numbers, ZenonT(40) DEF SendsInOrder
<1>3. \A d \in Clients : \A n \in Range(conn[d].mToSendMsg) \cup Range(received[d]) :
        n <= sends /\ \A y \in Range(mNetQueue) : IsSend(y) => n < y.msg
  BY <1>1 DEF SendsInOrder
<1>5. h = Head(mNetQueue)
  OBVIOUS
<1> HIDE DEF h, c
<1>4. /\ Range(conn'[c].mToSendMsg) = Range(conn[c].mToSendMsg) \cup {h.msg}
      /\ \A m, n : Before(conn'[c].mToSendMsg, m, n)
           => Before(conn[c].mToSendMsg, m, n) \/ (m \in Range(conn[c].mToSendMsg) /\ n = h.msg)
  <2>1. IsQueue(conn[c].mToSendMsg)
    BY <1>1, Numbers
  <2> QED BY <1>1, <2>1, AppendToQueue
<1>6. \A d \in Clients : \A n \in Range(conn'[d].mToSendMsg) \cup Range(received'[d]) :
        n <= sends /\ \A y \in Range(mNetQueue) : IsSend(y) => n < y.msg \/ y = h
  BY <1>1, <1>2, <1>3, <1>4
<1>7. \A d \in Clients : \A m, n \in Range(conn'[d].mToSendMsg) :
        Before(conn'[d].mToSendMsg, m, n) => m < n
  <2> SUFFICES ASSUME NEW m, NEW n, Before(conn'[c].mToSendMsg, m, n)
               PROVE  m < n
    BY <1>1 DEF SendsInOrder
  <2>1. CASE Before(conn[c].mToSendMsg, m, n)
    <3>1. m \in Range(conn[c].mToSendMsg) /\ n \in Range(conn[c].mToSendMsg)
      BY <2>1, BeforeIsInQueue
    <3> QED BY <1>1, <2>1, <3>1 DEF SendsInOrder
  <2>2. CASE m \in Range(conn[c].mToSendMsg) /\ n = h.msg
    BY <1>1, <1>3, <2>2
  <2> QED BY <1>4, <2>1, <2>2
<1> QED BY <1>1, <1>5, <1>6, <1>7, SMTT(30) DEF SendsInOrder

LEMMA PeersStayEnded ==
  ASSUME Next
  PROVE  peerClosed \subseteq peerClosed'
<1>1. CASE Environment
  BY <1>1 DEF Environment, PeerConnects, PeerSends, PeerEnds, WorkerSends
<1>2. CASE DriverStep
  BY <1>2, SMTT(30) DEF DriverStep, Poll, Dispatch, AcceptSocket, EnterReadData, ReadNotOkay, PreRecv, RecvPart,
     RecvRest, EndOfStream, RefuseLength, UnRegistAndReport, UnRegistSilently, UnRegistAborts,
     DriverWrites, Crash, peers
<1>3. CASE ServiceStep
  BY <1>3 DEF ServiceStep, AcceptConnection, RegistWriteEvent, ForwardRecv, SendDiscarded,
     SendEnqueued, ServiceWrites, DropConnection, peers
<1> QED BY <1>1, <1>2, <1>3 DEF Next

LEMMA QuietReceiving ==
  ASSUME IInv', Receiving, MessagesIntact, BuffersStay, peerClosed \subseteq peerClosed'
  PROVE  Receiving' /\ MessagesIntact'
<1>2. \A c \in Present' :
        /\ c \in Present /\ received'[c] = received[c]
        /\ conn'[c].mSent = conn[c].mSent /\ conn'[c].mToSendMsg = conn[c].mToSendMsg
  BY DEF BuffersStay, Present
<1>3. Receiving'
  BY <1>2, SMTT(30) DEF Receiving, Whole
<1>4. MessagesIntact'
  BY DEF BuffersStay, MessagesIntact
<1> QED BY <1>3, <1>4

LEMMA EnqueuedReceiving ==
  ASSUME IInv, SendsInOrder, Receiving, MessagesIntact, ended = "no", SendEnqueued
  PROVE  Receiving' /\ MessagesIntact'
<1> DEFINE h == Head(mNetQueue)
           c == mConns[h.conn]
<1>1. /\ nPc = "idle" /\ h \in Range(mNetQueue) /\ IsSend(h) /\ c \in Clients
      /\ \A d \in Clients : /\ conn'[d].mSent = conn[d].mSent
                            /\ conn'[d].mClosed = conn[d].mClosed
                            /\ d # c => conn'[d].mToSendMsg = conn[d].mToSendMsg
      /\ conn'[c].mToSendMsg = Append(conn[c].mToSendMsg, h.msg)
      /\ received' = received /\ peerClosed' = peerClosed
  BY Enqueueing
<1> HIDE DEF h, c
<1>2. IsQueue(conn[c].mToSendMsg) /\ received[c] \in Seq(Nat) /\ conn[c].mSent \in Nat
  BY <1>1, Numbers
<1>3. /\ Range(conn'[c].mToSendMsg) = Range(conn[c].mToSendMsg) \cup {h.msg}
      /\ conn'[c].mToSendMsg # <<>>
  BY <1>1, <1>2, AppendToQueue
<1>4. conn[c].mToSendMsg # <<>> => Head(conn'[c].mToSendMsg) = Head(conn[c].mToSendMsg)
  BY <1>1, <1>2, HeadStays
<1>5. \A n \in Range(received[c]) : n < h.msg
  BY <1>1 DEF SendsInOrder
<1>6. \A i \in 1 .. Len(received[c]) : received[c][i] \in Range(received[c])
  BY <1>2 DEF Range
<1>7. \A i \in 1 .. Whole(c) : received[c][i] < h.msg
  BY <1>2, <1>5, <1>6 DEF Whole
<1>8. \A d \in Clients : Whole(d)' = Whole(d)
  BY <1>1 DEF Whole
<1>9. c \in Present =>
        \A i \in Whole(c) + 1 .. Len(received[c]) : received[c][i] = Head(conn'[c].mToSendMsg)
  <2> SUFFICES ASSUME c \in Present, NEW i \in Whole(c) + 1 .. Len(received[c])
               PROVE  received[c][i] = Head(conn'[c].mToSendMsg)
    OBVIOUS
  <2>1. received[c][i] = Head(conn[c].mToSendMsg)
    BY <1>1 DEF Receiving
  <2>2. Len(received[c]) \in Nat
    BY <1>2
  <2>3. conn[c].mSent # 0
    BY <1>2, <2>2 DEF Whole
  <2>4. conn[c].mToSendMsg # <<>>
    BY <1>1, <2>3 DEF Receiving
  <2> QED BY <1>4, <2>1, <2>4
<1>10. ASSUME NEW d \in Present
       PROVE  /\ conn'[d].mSent < MessageLength /\ (conn'[d].mSent # 0 => conn'[d].mToSendMsg # <<>>)
              /\ \E k \in Nat : Whole(d) = MessageLength * k
              /\ \A i \in 1 .. Whole(d) : \A n \in Range(conn'[d].mToSendMsg) : received[d][i] < n
              /\ \A i \in Whole(d) + 1 .. Len(received[d]) :
                   received[d][i] = Head(conn'[d].mToSendMsg)
  <2>1. CASE d # c
    <3>1. conn'[d].mSent = conn[d].mSent /\ conn'[d].mToSendMsg = conn[d].mToSendMsg
      BY <1>1, <2>1 DEF Present
    <3> QED BY <3>1 DEF Receiving
  <2>2. CASE d = c
    <3>1. /\ conn[c].mSent < MessageLength /\ \E k \in Nat : Whole(c) = MessageLength * k
          /\ \A i \in 1 .. Whole(c) : \A n \in Range(conn[c].mToSendMsg) : received[c][i] < n
      BY <2>2 DEF Receiving
    <3>2. \A i \in 1 .. Whole(c) : \A n \in Range(conn'[c].mToSendMsg) : received[c][i] < n
      BY <1>3, <1>7, <3>1
    <3>3. \A i \in Whole(c) + 1 .. Len(received[c]) : received[c][i] = Head(conn'[c].mToSendMsg)
      BY <1>9, <2>2
    <3>4. conn'[c].mSent < MessageLength /\ conn'[c].mToSendMsg # <<>>
      BY <1>1, <1>3, <3>1
    <3> QED BY <2>2, <3>1, <3>2, <3>3, <3>4
  <2> QED BY <2>1, <2>2
<1>12. Receiving'
  <2> SUFFICES ASSUME NEW d \in Present
               PROVE  /\ conn'[d].mSent < MessageLength
                      /\ conn'[d].mSent # 0 => conn'[d].mToSendMsg # <<>>
                      /\ \E k \in Nat : Whole(d)' = MessageLength * k
                      /\ \A i \in 1 .. Whole(d)' : \A n \in Range(conn'[d].mToSendMsg) :
                           received'[d][i] < n
                      /\ \A i \in Whole(d)' + 1 .. Len(received'[d]) :
                           received'[d][i] = Head(conn'[d].mToSendMsg)
    BY <1>1 DEF Receiving, Present
  <2>1. Whole(d)' = Whole(d) /\ received'[d] = received[d]
    BY <1>1, <1>8 DEF Present
  <2> QED BY <1>10, <2>1
<1>13. MessagesIntact'
  BY <1>1 DEF MessagesIntact
<1> QED BY <1>12, <1>13

LEMMA Parts ==
  ASSUME NEW a \in Nat, NEW b \in Nat, NEW n \in Nat, NEW i \in a + 1 .. b + n
  PROVE  (i \in a + 1 .. b /\ i \in 1 .. b) \/ i \in b + 1 .. b + n
  OBVIOUS

(* MessagesIntact, of one peer.                                            *)
InBlocks(q, L) ==
  \A i, j \in DOMAIN q :
    /\ (i - 1) \div L = (j - 1) \div L => q[i] = q[j]
    /\ (i - 1) \div L < (j - 1) \div L => q[i] < q[j]

(* new is got with n more units of the message x, of which at most L are   *)
(* there then; before it there are k messages, w units.                    *)
Piece(L, k, got, new, w, n, x) ==
  /\ L \in Nat \ {0} /\ k \in Nat /\ got \in Seq(Nat) /\ new \in Seq(Nat)
  /\ w \in Nat /\ n \in Nat /\ x \in Nat
  /\ w = L * k /\ w <= Len(got) /\ Len(got) + n <= w + L
  /\ DOMAIN new = 1 .. Len(got) + n /\ Len(new) = Len(got) + n
  /\ \A i \in 1 .. Len(got) : new[i] = got[i]
  /\ \A i \in Len(got) + 1 .. Len(got) + n : new[i] = x
  /\ \A i \in 1 .. w : got[i] < x
  /\ \A i \in w + 1 .. Len(got) : got[i] = x
  /\ InBlocks(got, L)

LEMMA PieceReceived ==
  ASSUME NEW L, NEW k, NEW got, NEW new, NEW w, NEW n, NEW x, Piece(L, k, got, new, w, n, x)
  PROVE  /\ \A i \in w + 1 .. Len(new) : new[i] = x
         /\ \A i \in 1 .. w : new[i] = got[i]
         /\ InBlocks(new, L)
<1>0. /\ L \in Nat \ {0} /\ k \in Nat /\ got \in Seq(Nat) /\ new \in Seq(Nat)
      /\ w \in Nat /\ n \in Nat /\ x \in Nat
      /\ w = L * k /\ w <= Len(got) /\ Len(got) + n <= w + L
      /\ DOMAIN new = 1 .. Len(got) + n /\ Len(new) = Len(got) + n
      /\ \A i \in 1 .. Len(got) : new[i] = got[i]
      /\ \A i \in Len(got) + 1 .. Len(got) + n : new[i] = x
      /\ \A i \in 1 .. w : got[i] < x
      /\ \A i \in w + 1 .. Len(got) : got[i] = x
      /\ InBlocks(got, L)
  BY DEF Piece
<1> USE <1>0
<1>1. Len(got) \in Nat /\ DOMAIN got = 1 .. Len(got)
  OBVIOUS
<1>2. \A i \in w + 1 .. Len(new) : new[i] = x
  <2> SUFFICES ASSUME NEW i \in w + 1 .. Len(got) + n
               PROVE  new[i] = x
    OBVIOUS
  <2>1. (i \in w + 1 .. Len(got) /\ i \in 1 .. Len(got)) \/ i \in Len(got) + 1 .. Len(got) + n
    BY <1>1, Parts
  <2>2. CASE i \in w + 1 .. Len(got) /\ i \in 1 .. Len(got)
    <3>1. new[i] = got[i]
      BY <2>2
    <3>2. got[i] = x
      BY <2>2
    <3> QED BY <3>1, <3>2
  <2>3. CASE i \in Len(got) + 1 .. Len(got) + n
    BY <2>3
  <2> QED BY <2>1, <2>2, <2>3
<1>3. \A i \in 1 .. w : i \in 1 .. Len(got) /\ new[i] = got[i]
  BY <1>1, SMTT(30)
<1>4. /\ \A i \in 1 .. w : (i - 1) \div L \in Int /\ (i - 1) \div L < k
      /\ \A i \in w + 1 .. w + L : (i - 1) \div L = k
  BY Blocks
<1>5. ASSUME NEW i \in DOMAIN new, NEW j \in DOMAIN new
      PROVE  /\ (i - 1) \div L = (j - 1) \div L => new[i] = new[j]
             /\ (i - 1) \div L < (j - 1) \div L => new[i] < new[j]
  <2> DEFINE b(m) == (m - 1) \div L
  <2>1. \A m \in DOMAIN new : m \in 1 .. w \/ (m \in w + 1 .. w + L /\ m \in w + 1 .. Len(new))
    BY <1>1, SMTT(30)
  <2>2. \A m \in 1 .. w : b(m) \in Int /\ b(m) < k /\ new[m] = got[m] /\ got[m] < x /\ m \in DOMAIN got
    BY <1>1, <1>3, <1>4
  <2>3. \A m \in DOMAIN new : m \notin 1 .. w => b(m) = k /\ new[m] = x
    BY <1>2, <1>4, <2>1
  <2>4. /\ b(i) = b(j) /\ i \in DOMAIN got /\ j \in DOMAIN got => got[i] = got[j]
        /\ b(i) < b(j) /\ i \in DOMAIN got /\ j \in DOMAIN got => got[i] < got[j]
    BY DEF InBlocks
  <2> HIDE DEF b
  <2>5. CASE i \in 1 .. w /\ j \in 1 .. w
    <3>1. /\ new[i] = got[i] /\ new[j] = got[j] /\ i \in DOMAIN got /\ j \in DOMAIN got
      BY <2>2, <2>5
    <3>2. (b(i) = b(j) => new[i] = new[j]) /\ (b(i) < b(j) => new[i] < new[j])
      BY <2>4, <3>1
    <3> QED BY <3>2 DEF b
  <2>6. CASE i \in 1 .. w /\ j \notin 1 .. w
    <3>1. b(i) \in Int /\ b(i) < k /\ b(j) = k /\ new[i] < new[j]
      BY <2>2, <2>3, <2>6
    <3>2. b(i) # b(j) /\ new[i] < new[j]
      BY <3>1
    <3>3. (b(i) = b(j) => new[i] = new[j]) /\ (b(i) < b(j) => new[i] < new[j])
      BY <3>2
    <3> QED BY <3>3 DEF b
  <2>7. CASE i \notin 1 .. w /\ j \in 1 .. w
    <3>1. b(j) \in Int /\ b(j) < k /\ b(i) = k
      BY <2>2, <2>3, <2>7
    <3>2. b(i) # b(j) /\ ~(b(i) < b(j))
      BY <3>1, SMTT(30)
    <3>3. (b(i) = b(j) => new[i] = new[j]) /\ (b(i) < b(j) => new[i] < new[j])
      BY <3>2
    <3> QED BY <3>3 DEF b
  <2>8. CASE i \notin 1 .. w /\ j \notin 1 .. w
    <3>1. b(i) = k /\ b(j) = k /\ new[i] = new[j]
      BY <2>3, <2>8
    <3> QED BY <3>1 DEF b
  <2> QED BY <2>5, <2>6, <2>7, <2>8
<1> QED BY <1>2, <1>3, <1>5 DEF InBlocks

LEMMA PieceAppended ==
  ASSUME NEW got \in Seq(Nat), NEW n \in Nat, NEW x, NEW piece \in Seq(Nat),
         Len(piece) = n, \A i \in 1 .. n : piece[i] = x
  PROVE  /\ got \o piece \in Seq(Nat) /\ Len(got \o piece) = Len(got) + n
         /\ DOMAIN (got \o piece) = 1 .. Len(got) + n
         /\ \A i \in 1 .. Len(got) : (got \o piece)[i] = got[i]
         /\ \A i \in Len(got) + 1 .. Len(got) + n : (got \o piece)[i] = x
<1>1. Len(got) \in Nat
  OBVIOUS
<1>2. ASSUME NEW i \in Len(got) + 1 .. Len(got) + n
      PROVE  i - Len(got) \in 1 .. n /\ i \in 1 .. Len(got) + n /\ ~(i <= Len(got))
  BY <1>1
<1>3. got \o piece \in Seq(Nat) /\ Len(got \o piece) = Len(got) + n
  OBVIOUS
<1>4. \A i \in 1 .. Len(got) + n :
        (got \o piece)[i] = IF i <= Len(got) THEN got[i] ELSE piece[i - Len(got)]
  OBVIOUS
<1> DEFINE all == got \o piece
<1> HIDE DEF all
<1>5. DOMAIN all = 1 .. Len(got) + n
  BY <1>3 DEF all
<1>6. \A i \in 1 .. Len(got) : all[i] = got[i]
  BY <1>1, <1>4 DEF all
<1>7. ASSUME NEW i \in Len(got) + 1 .. Len(got) + n
      PROVE  all[i] = x
  BY <1>2, <1>4, <1>7 DEF all
<1> QED BY <1>3, <1>5, <1>6, <1>7 DEF all

LEMMA OneMore ==
  ASSUME NEW L \in Nat, NEW k \in Nat
  PROVE  L * (k + 1) = L * k + L /\ k + 1 \in Nat
  OBVIOUS

LEMMA PieceIsReceived ==
  ASSUME IInv, SendsInOrder, Receiving, MessagesIntact,
         NEW c \in Clients, c \in Present, HasMessage(c),
         NEW n \in 1 .. MessageLength - conn[c].mSent,
         conn'[c] = Sent(conn[c], n),
         received'[c] = received[c] \o [i \in 1 .. n |-> Head(conn[c].mToSendMsg)]
  PROVE  /\ conn'[c].mSent < MessageLength /\ (conn'[c].mSent # 0 => conn'[c].mToSendMsg # <<>>)
         /\ \E k \in Nat : Len(received'[c]) - conn'[c].mSent = MessageLength * k
         /\ \A i \in 1 .. Len(received'[c]) - conn'[c].mSent :
              \A m \in Range(conn'[c].mToSendMsg) : received'[c][i] < m
         /\ \A i \in Len(received'[c]) - conn'[c].mSent + 1 .. Len(received'[c]) :
              received'[c][i] = Head(conn'[c].mToSendMsg)
         /\ InBlocks(received'[c], MessageLength)
<1> DEFINE L == MessageLength
           q == conn[c].mToSendMsg
           got == received[c]
           new == received'[c]
           x == Head(q)
           w == Whole(c)
           s == conn[c].mSent
<1>1. /\ L \in Nat \ {0} /\ got \in Seq(Nat) /\ q \in Seq(Nat) /\ q # <<>> /\ s \in Nat /\ s < L
      /\ IsQueue(q) /\ conn[c] \in Object
  BY ConnectionAssumption, Numbers DEF HasMessage, Receiving, IInv, Types
<1>2. /\ n \in Nat \ {0} /\ s + n <= L /\ Len(got) \in Nat
  BY <1>1
<1>3. PICK k \in Nat : w = L * k
  BY DEF Receiving
<1>4. w \in Nat /\ w <= Len(got) /\ Len(got) = w + s
  <2>1. w = Len(got) - s
    BY DEF Whole
  <2>2. L * k \in Nat
    BY <1>1
  <2> HIDE DEF w, got, s, L
  <2> QED BY <1>1, <1>2, <1>3, <2>1, <2>2
<1>5. /\ x \in Nat /\ x \in Range(q)
      /\ \A m \in Range(Tail(q)) : m \in Range(q) /\ x < m
  <2>1. x \in Range(q) /\ Range(Tail(q)) \subseteq Range(q)
        /\ \A m \in Range(Tail(q)) : Before(q, x, m)
    BY <1>1, TailOfQueue
  <2>2. Range(q) \subseteq Nat
    BY Numbers
  <2> QED BY <2>1, <2>2 DEF SendsInOrder
<1>6. /\ new \in Seq(Nat) /\ Len(new) = Len(got) + n /\ DOMAIN new = 1 .. Len(got) + n
      /\ \A i \in 1 .. Len(got) : new[i] = got[i]
      /\ \A i \in Len(got) + 1 .. Len(got) + n : new[i] = x
  <2> DEFINE piece == [i \in 1 .. n |-> x]
  <2>1. piece \in Seq(Nat) /\ Len(piece) = n /\ \A i \in 1 .. n : piece[i] = x
    BY <1>2, <1>5
  <2>2. new = got \o piece
    OBVIOUS
  <2> HIDE DEF new, got, x, piece
  <2>3. got \in Seq(Nat) /\ n \in Nat
    BY <1>1, <1>2
  <2>4. /\ got \o piece \in Seq(Nat) /\ Len(got \o piece) = Len(got) + n
        /\ DOMAIN (got \o piece) = 1 .. Len(got) + n
        /\ \A i \in 1 .. Len(got) : (got \o piece)[i] = got[i]
        /\ \A i \in Len(got) + 1 .. Len(got) + n : (got \o piece)[i] = x
    BY ONLY <2>1, <2>3, PieceAppended, SMTT(30)
  <2> QED BY <2>2, <2>4
<1>7. /\ \A i \in 1 .. w : \A m \in Range(q) : got[i] < m
      /\ \A i \in w + 1 .. Len(got) : got[i] = x
  BY DEF Receiving
<1>8. InBlocks(got, L)
  BY DEF MessagesIntact, InBlocks
<1>9. IF s + n = L THEN conn'[c].mSent = 0 /\ conn'[c].mToSendMsg = Tail(q)
                   ELSE conn'[c].mSent = s + n /\ conn'[c].mToSendMsg = q
  <2>1. conn[c] \in Object /\ n \in Nat /\ conn[c].mToSendMsg # <<>>
    BY <1>1, <1>2
  <2>2. IF conn[c].mSent + n = MessageLength
        THEN Sent(conn[c], n).mSent = 0 /\ Sent(conn[c], n).mToSendMsg = Tail(conn[c].mToSendMsg)
        ELSE /\ Sent(conn[c], n).mSent = conn[c].mSent + n
             /\ Sent(conn[c], n).mToSendMsg = conn[c].mToSendMsg
    BY <2>1, SendingSome
  <2> QED BY <2>2
<1> DEFINE sent == conn'[c].mSent
           left == conn'[c].mToSendMsg
<1>10. IF s + n = L THEN sent = 0 /\ left = Tail(q) ELSE sent = s + n /\ left = q
  BY <1>9
<1> HIDE DEF L, q, got, new, x, w, s, sent, left
<1>11. Len(got) + n <= w + L /\ \A i \in 1 .. w : got[i] < x
  BY <1>1, <1>2, <1>4, <1>5, <1>7
<1>14. Len(new) \in Nat /\ Len(new) = w + s + n
  BY <1>1, <1>2, <1>4, <1>6
<1>12. /\ \A i \in w + 1 .. Len(new) : new[i] = x
       /\ \A i \in 1 .. w : new[i] = got[i]
       /\ InBlocks(new, L)
  <2>1. /\ L \in Nat \ {0} /\ k \in Nat /\ got \in Seq(Nat) /\ new \in Seq(Nat)
        /\ w \in Nat /\ n \in Nat /\ x \in Nat
    BY <1>1, <1>2, <1>3, <1>4, <1>5, <1>6
  <2>2. Piece(L, k, got, new, w, n, x)
    BY <2>1, <1>3, <1>4, <1>6, <1>7, <1>8, <1>11 DEF Piece
  <2> QED BY <2>2, PieceReceived
<1>13. /\ sent < L /\ (sent # 0 => left # <<>>)
       /\ \E j \in Nat : Len(new) - sent = L * j
       /\ \A i \in 1 .. Len(new) - sent : \A m \in Range(left) : new[i] < m
       /\ \A i \in Len(new) - sent + 1 .. Len(new) : new[i] = Head(left)
  <2>3. /\ L \in Nat \ {0} /\ s \in Nat /\ n \in Nat \ {0} /\ w \in Nat /\ s + n <= L
        /\ Len(new) \in Nat /\ Len(new) = w + s + n
    BY <1>1, <1>2, <1>4, <1>14
  <2>1. CASE s + n = L
    <3>1. sent = 0 /\ left = Tail(q) /\ Len(new) = w + L /\ Len(new) - sent = Len(new)
      BY ONLY <1>10, <2>1, <2>3
    <3>2. L * (k + 1) = w + L /\ k + 1 \in Nat
      <4>1. L * (k + 1) = L * k + L /\ k + 1 \in Nat
        BY <2>3, OneMore
      <4> QED BY <1>3, <4>1
    <3>3. \A i \in 1 .. Len(new) : new[i] = x \/ (i \in 1 .. w /\ new[i] = got[i])
      <4>1. \A i \in 1 .. Len(new) : i \in 1 .. w \/ i \in w + 1 .. Len(new)
        BY ONLY <2>3
      <4> QED BY <1>12, <4>1
    <3>4. \A i \in 1 .. Len(new) : \A m \in Range(left) : new[i] < m
      BY <1>5, <1>7, <3>1, <3>3
    <3>5. Len(new) - sent + 1 .. Len(new) = {}
      BY ONLY <2>3, <3>1
    <3>6. \E j \in Nat : Len(new) - sent = L * j
      BY <3>1, <3>2
    <3>7. sent < L /\ (sent # 0 => left # <<>>)
      BY <1>1, <3>1
    <3>8. 1 .. Len(new) - sent = 1 .. Len(new)
      BY <3>1
    <3> QED BY <3>4, <3>5, <3>6, <3>7, <3>8
  <2>2. CASE s + n # L
    <3>1. sent = s + n /\ left = q /\ Len(new) - sent = w /\ sent < L
      BY ONLY <1>10, <2>2, <2>3
    <3>2. \A i \in 1 .. w : \A m \in Range(q) : new[i] < m
      BY <1>7, <1>12
    <3>3. \A i \in w + 1 .. Len(new) : new[i] = Head(q)
      BY <1>12 DEF x
    <3> QED BY <1>1, <1>3, <3>1, <3>2, <3>3
  <2> QED BY <2>1, <2>2
<1> QED BY <1>12, <1>13 DEF L, new, sent, left

LEMMA WritingReceives ==
  ASSUME IInv, SendsInOrder, Receiving, MessagesIntact,
         NEW c \in Clients, NEW rest, WriteData(c, rest), peerClosed' = peerClosed
  PROVE  Receiving' /\ MessagesIntact'
<1>1. conn \in [Clients -> Object] /\ received \in [Clients -> Seq(Nat)]
  BY DEF IInv, Types
<1>2. ASSUME received' = received, \A d \in Present' : d \in Present /\ conn'[d] = conn[d]
      PROVE  Receiving' /\ MessagesIntact'
  BY <1>2 DEF Receiving, Whole, MessagesIntact
<1>3. CASE NothingToWrite(c, rest) \/ WriteKills(c)
  BY <1>2, <1>3 DEF NothingToWrite, WriteKills, Present
<1>4. CASE WriteFails(c, rest)
  <2>1. \A d \in Present' : d \in Present /\ conn'[d] = conn[d]
    BY <1>1, <1>4 DEF WriteFails, Present
  <2> QED BY <1>2, <1>4, <2>1 DEF WriteFails
<1>5. CASE WriteSome(c, rest)
  <2>1. PICK n \in 1 .. MessageLength - conn[c].mSent :
          /\ conn' = [conn EXCEPT ![c] = Sent(conn[c], n)]
          /\ received' = IF c \in peerClosed THEN received
                         ELSE [received EXCEPT ![c] =
                                 @ \o [i \in 1 .. n |-> Head(conn[c].mToSendMsg)]]
    BY <1>5 DEF WriteSome
  <2>2. HasMessage(c) /\ conn'[c] = Sent(conn[c], n)
        /\ \A d \in Clients \ {c} : conn'[d] = conn[d]
    BY <1>1, <1>5, <2>1 DEF WriteSome
  <2>3. CASE c \in peerClosed
    <3>1. \A d \in Present' : d \in Present /\ conn'[d] = conn[d]
      BY <2>2, <2>3 DEF Present
    <3> QED BY <1>2, <2>1, <2>3, <3>1
  <2>4. CASE c \notin peerClosed
    <3>1. /\ received'[c] = received[c] \o [i \in 1 .. n |-> Head(conn[c].mToSendMsg)]
          /\ \A d \in Clients \ {c} : received'[d] = received[d]
      BY <1>1, <2>1, <2>4
    <3>2. /\ conn'[c].mSent < MessageLength /\ (conn'[c].mSent # 0 => conn'[c].mToSendMsg # <<>>)
          /\ \E k \in Nat : Len(received'[c]) - conn'[c].mSent = MessageLength * k
          /\ \A i \in 1 .. Len(received'[c]) - conn'[c].mSent :
               \A m \in Range(conn'[c].mToSendMsg) : received'[c][i] < m
          /\ \A i \in Len(received'[c]) - conn'[c].mSent + 1 .. Len(received'[c]) :
               received'[c][i] = Head(conn'[c].mToSendMsg)
          /\ InBlocks(received'[c], MessageLength)
      <4>1. c \in Present
        BY <2>2, <2>4 DEF Present, HasMessage
      <4> QED BY <2>2, <3>1, <4>1, PieceIsReceived
    <3>3. Receiving'
      <4> SUFFICES ASSUME NEW d \in Present'
                   PROVE  /\ conn'[d].mSent < MessageLength
                          /\ conn'[d].mSent # 0 => conn'[d].mToSendMsg # <<>>
                          /\ \E k \in Nat : Whole(d)' = MessageLength * k
                          /\ \A i \in 1 .. Whole(d)' : \A m \in Range(conn'[d].mToSendMsg) :
                               received'[d][i] < m
                          /\ \A i \in Whole(d)' + 1 .. Len(received'[d]) :
                               received'[d][i] = Head(conn'[d].mToSendMsg)
        BY DEF Receiving
      <4>1. Whole(d)' = Len(received'[d]) - conn'[d].mSent
        BY DEF Whole
      <4>2. CASE d = c
        BY <3>2, <4>1, <4>2
      <4>3. CASE d # c
        <5>1. conn'[d] = conn[d] /\ received'[d] = received[d] /\ d \in Present
          BY <2>2, <3>1, <4>3 DEF Present
        <5> QED BY <4>1, <5>1 DEF Receiving, Whole
      <4> QED BY <4>2, <4>3
    <3>4. MessagesIntact'
      <4> SUFFICES ASSUME NEW d \in Clients
                   PROVE  InBlocks(received'[d], MessageLength)
        BY DEF MessagesIntact, InBlocks
      <4>1. CASE d = c
        BY <3>2, <4>1
      <4>2. CASE d # c
        <5>1. InBlocks(received[d], MessageLength)
          BY DEF MessagesIntact, InBlocks
        <5> QED BY <3>1, <4>2, <5>1
      <4> QED BY <4>1, <4>2
    <3> QED BY <3>3, <3>4
  <2> QED BY <2>3, <2>4
<1> QED BY <1>3, <1>4, <1>5 DEF WriteData

LEMMA InductiveMInv == IInv /\ MInv /\ [Next]_vars => MInv'
<1> SUFFICES ASSUME IInv, SendsInOrder, Receiving, MessagesIntact, [Next]_vars
             PROVE  SendsInOrder' /\ Receiving' /\ MessagesIntact'
  BY DEF MInv
<1>1. IInv'
  BY InductiveIInv
<1>2. ASSUME Next, BuffersStay, QueueMoves, ServiceStays
      PROVE  SendsInOrder' /\ Receiving' /\ MessagesIntact'
  BY <1>1, <1>2, QuietOrder, QuietReceiving, PeersStayEnded DEF Next
<1>3. CASE ended = "no" /\ SendEnqueued
  BY <1>3, EnqueuedOrder, EnqueuedReceiving
<1>4. CASE ended = "no" /\ ServiceWrites
  <2>1. /\ mConns[Head(mNetQueue).conn] \in Clients
        /\ WriteData(mConns[Head(mNetQueue).conn], Tail(mNetQueue))
        /\ peerClosed' = peerClosed
    BY <1>4, Registrants DEF ServiceWrites, peers
  <2> QED BY <1>4, <2>1, ServiceOrder, WritingReceives
<1>5. CASE ended = "no" /\ DriverWrites
  <2>1. dConn \in Clients /\ WriteData(dConn, mNetQueue) /\ peerClosed' = peerClosed
    BY <1>5, Registrants DEF DriverWrites, peers
  <2> QED BY <1>5, <2>1, DriverOrder, WritingReceives
<1>6. CASE UNCHANGED vars
  BY <1>6 DEF vars, queues, peers, service, SendsInOrder, Receiving, Present, Whole, MessagesIntact
<1> QED BY <1>2, <1>3, <1>4, <1>5, <1>6, EnvironmentIsQuiet, DriverIsQuiet, ServiceIsQuiet DEF Next

LEMMA InitMInv == Init => MInv
<1> SUFFICES ASSUME Init
             PROVE  MInv
  OBVIOUS
<1>1. /\ mNetQueue = <<>> /\ peerClosed = {}
      /\ \A c \in Clients : /\ received[c] = <<>> /\ conn[c].mToSendMsg = <<>>
                            /\ conn[c].mSent = 0 /\ Whole(c) = 0
  BY DEF Init, NoConnection, Whole
<1>2. SendsInOrder
  BY <1>1, EmptyQueue DEF SendsInOrder
<1>3. Receiving
  <2>1. MessageLength \in Nat \ {0} /\ 0 = MessageLength * 0 /\ Len(<<>>) = 0
    BY ConnectionAssumption
  <2> QED BY <1>1, <2>1, EmptyQueue DEF Receiving, Present
<1>4. MessagesIntact
  BY <1>1 DEF MessagesIntact
<1> QED BY <1>2, <1>3, <1>4 DEF MInv

(* Whatever part of a message send() takes, whichever thread writes, and   *)
(* whether writes fail: what a peer receives are whole messages in the     *)
(* order they were sent, the last perhaps in part.                         *)
THEOREM MessagesAlwaysIntact == Spec => []MessagesIntact
<1>1. Spec => [](IInv /\ MInv)
  BY InitIInv, InductiveIInv, InitMInv, InductiveMInv, PTL DEF Spec
<1> QED BY <1>1, PTL DEF MInv

-----------------------------------------------------------------------------
(* What is received on its way to the Worker.                              *)
IsRecv(x) == x.op = "OP_RECV"
IsDrop(x) == x.op = "OP_DROP"
Reported(x) == IsRecv(x) \/ IsDrop(x)

(* p and q hold the same frames and drops in the same order ...            *)
SameReports(p, q) ==
  /\ \A x : Reported(x) => (x \in Range(p) <=> x \in Range(q))
  /\ \A x, y : Reported(x) /\ Reported(y) => (Before(p, x, y) <=> Before(q, x, y))

(* ... or p one more.                                                      *)
OneMoreReport(p, q, e) ==
  /\ \A x : Reported(x) => (x \in Range(p) <=> x \in Range(q) \/ x = e)
  /\ \A x, y : Reported(x) /\ Reported(y) =>
       (Before(p, x, y) <=> Before(q, x, y) \/ (x \in Range(q) /\ y = e))

LEMMA HeadOfQueue ==
  ASSUME NEW q, IsQueue(q), q # <<>>, NEW x, NEW y, Before(q, x, y)
  PROVE  Before(Tail(q), x, y) \/ (x = Head(q) /\ y \in Range(Tail(q)))
<1>1. PICK i \in DOMAIN q, j \in DOMAIN q : i < j /\ q[i] = x /\ q[j] = y
  BY DEF Before
<1>2. q \in Seq(Range(q)) /\ Len(q) \in Nat /\ DOMAIN q = 1 .. Len(q)
  BY QueueDomain DEF IsQueue
<1>3. /\ Tail(q) \in Seq(Range(q)) /\ Len(Tail(q)) = Len(q) - 1 /\ q[1] = Head(q)
      /\ \A n \in 1 .. Len(Tail(q)) : Tail(q)[n] = q[n + 1]
  BY <1>2, HeadTailProperties
<1>4. DOMAIN Tail(q) = 1 .. Len(q) - 1
  BY <1>2, <1>3, LenProperties
<1>5. j - 1 \in DOMAIN Tail(q) /\ Tail(q)[j - 1] = y
  <2>1. j - 1 \in 1 .. Len(q) - 1 /\ j - 1 + 1 = j
    BY <1>1, <1>2
  <2> QED BY <1>1, <1>3, <1>4, <2>1
<1>6. CASE i = 1
  <2>1. y \in Range(Tail(q))
    BY <1>5 DEF Range
  <2> QED BY <1>1, <1>3, <1>6, <2>1
<1>7. CASE i # 1
  <2>1. i - 1 \in 1 .. Len(q) - 1 /\ i - 1 + 1 = i /\ i - 1 < j - 1
    BY <1>1, <1>2, <1>7
  <2>2. i - 1 \in DOMAIN Tail(q) /\ Tail(q)[i - 1] = x
    BY <1>1, <1>3, <1>4, <2>1
  <2> QED BY <1>5, <2>1, <2>2 DEF Before
<1> QED BY <1>6, <1>7

LEMMA HeadDropped ==
  ASSUME NEW w, NEW q, IsQueue(w), IsQueue(q), q # <<>>, ~Reported(Head(q))
  PROVE  SameReports(w \o Tail(q), w \o q)
<1>1. /\ IsQueue(Tail(q)) /\ Range(q) = {Head(q)} \cup Range(Tail(q))
      /\ \A x, y : Before(Tail(q), x, y) => Before(q, x, y)
  BY TailOfQueue
<1>2. \A x, y : Reported(x) /\ Before(q, x, y) => Before(Tail(q), x, y)
  BY HeadOfQueue
<1>3. /\ Range(w \o q) = Range(w) \cup Range(q)
      /\ \A x, y : Before(w \o q, x, y) <=> \/ Before(w, x, y) \/ Before(q, x, y)
                                            \/ x \in Range(w) /\ y \in Range(q)
  BY ConcatOfQueues
<1>4. /\ Range(w \o Tail(q)) = Range(w) \cup Range(Tail(q))
      /\ \A x, y : Before(w \o Tail(q), x, y)
                     <=> \/ Before(w, x, y) \/ Before(Tail(q), x, y)
                         \/ x \in Range(w) /\ y \in Range(Tail(q))
  BY <1>1, ConcatOfQueues
<1>5. \A x : Reported(x) => (x \in Range(q) <=> x \in Range(Tail(q)))
  BY <1>1
<1> QED BY <1>1, <1>2, <1>3, <1>4, <1>5 DEF SameReports

LEMMA HeadForwarded ==
  ASSUME NEW w, NEW q, IsQueue(w), IsQueue(q), q # <<>>
  PROVE  SameReports(Append(w, Head(q)) \o Tail(q), w \o q)
<1> DEFINE h == Head(q)
           v == Append(w, h)
           t == Tail(q)
<1>1. /\ IsQueue(t) /\ Range(q) = {h} \cup Range(t)
      /\ \A x, y : Before(t, x, y) => Before(q, x, y)
      /\ \A y \in Range(t) : Before(q, h, y)
  BY TailOfQueue
<1>2. \A x, y : Before(q, x, y) => Before(t, x, y) \/ (x = h /\ y \in Range(t))
  BY HeadOfQueue
<1>3. /\ IsQueue(v) /\ Range(v) = Range(w) \cup {h}
      /\ \A x, y : Before(v, x, y) <=> Before(w, x, y) \/ (x \in Range(w) /\ y = h)
  BY AppendToQueue
<1> HIDE DEF h, v, t
<1>4. /\ Range(w \o q) = Range(w) \cup Range(q)
      /\ \A x, y : Before(w \o q, x, y) <=> \/ Before(w, x, y) \/ Before(q, x, y)
                                            \/ x \in Range(w) /\ y \in Range(q)
  BY ConcatOfQueues
<1>5. /\ Range(v \o t) = Range(v) \cup Range(t)
      /\ \A x, y : Before(v \o t, x, y) <=> \/ Before(v, x, y) \/ Before(t, x, y)
                                            \/ x \in Range(v) /\ y \in Range(t)
  BY <1>1, <1>3, ConcatOfQueues
<1>6. Range(v \o t) = Range(w \o q)
  BY <1>1, <1>3, <1>4, <1>5
<1>7. \A x, y : Before(v \o t, x, y) <=> Before(w \o q, x, y)
  BY <1>1, <1>2, <1>3, <1>4, <1>5
<1>8. SameReports(v \o t, w \o q)
  BY <1>6, <1>7 DEF SameReports
<1> QED BY <1>8 DEF v, t, h

LEMMA AnotherReport ==
  ASSUME NEW w, NEW q, NEW e, IsQueue(w), IsQueue(q)
  PROVE  OneMoreReport(w \o Append(q, e), w \o q, e)
<1> DEFINE r == Append(q, e)
<1>1. /\ IsQueue(r) /\ Range(r) = Range(q) \cup {e}
      /\ \A x, y : Before(r, x, y) <=> Before(q, x, y) \/ (x \in Range(q) /\ y = e)
  BY AppendToQueue
<1> HIDE DEF r
<1>2. /\ Range(w \o q) = Range(w) \cup Range(q)
      /\ \A x, y : Before(w \o q, x, y) <=> \/ Before(w, x, y) \/ Before(q, x, y)
                                            \/ x \in Range(w) /\ y \in Range(q)
  BY ConcatOfQueues
<1>3. /\ Range(w \o r) = Range(w) \cup Range(r)
      /\ \A x, y : Before(w \o r, x, y) <=> \/ Before(w, x, y) \/ Before(r, x, y)
                                            \/ x \in Range(w) /\ y \in Range(r)
  BY <1>1, ConcatOfQueues
<1>4. \A x : x \in Range(w \o r) <=> x \in Range(w \o q) \/ x = e
  BY <1>1, <1>2, <1>3
<1>5. \A x, y : Before(w \o r, x, y)
                  <=> Before(w \o q, x, y) \/ (x \in Range(w \o q) /\ y = e)
  BY <1>1, <1>2, <1>3
<1>6. OneMoreReport(w \o r, w \o q, e)
  BY <1>4, <1>5 DEF OneMoreReport
<1> QED BY <1>6 DEF r

LEMMA NoReport ==
  ASSUME NEW p, NEW q, NEW e, OneMoreReport(p, q, e), ~Reported(e)
  PROVE  SameReports(p, q)
  BY DEF OneMoreReport, SameReports

(* What a step may do with the reports, ...                                *)
PipelineMoves ==
  \/ SameReports(Pipeline', Pipeline)
  \/ \E c \in Clients :
       /\ conn[c].object # "none" /\ conn'[c].mClosed
       /\ OneMoreReport(Pipeline', Pipeline, Drop(conn[c].mConnID))

(* ... and, unless it reads, sends or accepts, with the units to report.   *)
UnitsStay ==
  /\ written' = written /\ peerClosed' = peerClosed /\ mMaxID' = mMaxID
  /\ \A c \in Clients :
       /\ conn'[c].mConnID = conn[c].mConnID
       /\ conn[c].mClosed => conn'[c].mClosed
       /\ \/ conn'[c].mClosed
          \/ conn'[c].mRecved \o stream'[c] = conn[c].mRecved \o stream[c]

LEMMA Queues ==
  ASSUME IInv
  PROVE  IsQueue(mWorkerQueue) /\ IsQueue(mNetQueue)
  BY DEF IInv, Types

LEMMA PipelineIdle ==
  ASSUME mWorkerQueue' = mWorkerQueue, mNetQueue' = mNetQueue
  PROVE  PipelineMoves
  BY DEF PipelineMoves, Pipeline, SameReports

LEMMA PipelineGrows ==
  ASSUME IInv, NEW e, mWorkerQueue' = mWorkerQueue, mNetQueue' = Append(mNetQueue, e)
  PROVE  OneMoreReport(Pipeline', Pipeline, e)
  BY Queues, AnotherReport DEF Pipeline

LEMMA PipelineStays ==
  ASSUME IInv, mWorkerQueue' = mWorkerQueue,
         \/ \E e : mNetQueue' = Append(mNetQueue, e) /\ ~Reported(e)
         \/ mNetQueue # <<>> /\ ~Reported(Head(mNetQueue)) /\ mNetQueue' = Tail(mNetQueue)
  PROVE  PipelineMoves
<1>1. CASE \E e : mNetQueue' = Append(mNetQueue, e) /\ ~Reported(e)
  BY <1>1, PipelineGrows, NoReport DEF PipelineMoves
<1>2. CASE mNetQueue # <<>> /\ ~Reported(Head(mNetQueue)) /\ mNetQueue' = Tail(mNetQueue)
  BY <1>2, Queues, HeadDropped DEF PipelineMoves, Pipeline
<1> QED BY <1>1, <1>2

LEMMA Cut ==
  ASSUME NEW a \in Seq(Nat), NEW s \in Seq(Nat), NEW n \in 0 .. Len(s)
  PROVE  (a \o SubSeq(s, 1, n)) \o SubSeq(s, n + 1, Len(s)) = a \o s
<1>1. /\ SubSeq(s, 1, n) \in Seq(Nat) /\ SubSeq(s, n + 1, Len(s)) \in Seq(Nat)
      /\ Len(s) \in Nat /\ n \in Nat /\ n <= Len(s)
  BY Taking
<1>2. SubSeq(s, 1, n) \o SubSeq(s, n + 1, Len(s)) = SubSeq(s, 1, Len(s))
  <2>1. 1 \in 1 .. Len(s) + 1 /\ n \in 1 - 1 .. Len(s) /\ Len(s) \in n .. Len(s)
    BY <1>1
  <2> QED BY <2>1, ConcatAdjacentSubSeq
<1>3. SubSeq(s, 1, Len(s)) = s
  BY SubSeqFull
<1> DEFINE p == SubSeq(s, 1, n)
           r == SubSeq(s, n + 1, Len(s))
<1>4. p \in Seq(Nat) /\ r \in Seq(Nat) /\ p \o r = s
  BY <1>1, <1>2, <1>3
<1> HIDE DEF p, r
<1>5. \A b, d \in Seq(Nat) : (a \o b) \o d = a \o (b \o d)
  BY ConcatAssociative, SMTT(30)
<1>6. (a \o p) \o r = a \o s
  BY <1>4, <1>5
<1> QED BY <1>6 DEF p, r

LEMMA QuietEnvironment ==
  ASSUME IInv, Environment,
         \A c \in Clients : ~PeerSends(c) /\ ~PeerEnds(c)
  PROVE  UnitsStay /\ PipelineMoves
<1>1. conn' = conn /\ mMaxID' = mMaxID /\ mWorkerQueue' = mWorkerQueue
  BY DEF Environment, queues, service, WorkerSends
<1>2. written' = written /\ stream' = stream /\ peerClosed' = peerClosed
  BY DEF Environment, PeerConnects, WorkerSends
<1>3. UnitsStay
  BY <1>1, <1>2 DEF UnitsStay
<1>4. PipelineMoves
  <2>1. CASE UNCHANGED queues
    BY <2>1, PipelineIdle DEF queues
  <2>2. ASSUME NEW id \in 0 .. mMaxID, WorkerSends(id)
        PROVE  PipelineMoves
    <3>1. mNetQueue' = Append(mNetQueue, Send(id, sends + 1))
      BY <2>2 DEF WorkerSends
    <3>2. ~Reported(Send(id, sends + 1))
      BY DEF Send, Reported, IsRecv, IsDrop
    <3> QED BY <1>1, <3>1, <3>2, PipelineStays
  <2> QED BY <2>1, <2>2 DEF Environment
<1> QED BY <1>3, <1>4

LEMMA WritingUnits ==
  ASSUME IInv, NEW c \in Clients, NEW rest, WriteData(c, rest),
         mWorkerQueue' = mWorkerQueue, UNCHANGED <<peers, mMaxID>>,
         \/ rest = mNetQueue
         \/ mNetQueue # <<>> /\ ~Reported(Head(mNetQueue)) /\ rest = Tail(mNetQueue)
  PROVE  UnitsStay /\ PipelineMoves
<1>1. conn \in [Clients -> Object] /\ conn[c] \in Object
  BY DEF IInv, Types
<1>2. stream' = stream /\ written' = written /\ peerClosed' = peerClosed /\ mMaxID' = mMaxID
  BY DEF peers
<1>3. CASE NothingToWrite(c, rest) \/ WriteKills(c)
  <2>1. conn' = conn /\ (mNetQueue' = rest \/ mNetQueue' = mNetQueue)
    BY <1>3 DEF NothingToWrite, WriteKills
  <2>2. UnitsStay
    BY <1>2, <2>1 DEF UnitsStay
  <2> QED BY <2>1, <2>2, PipelineIdle, PipelineStays
<1>4. CASE WriteSome(c, rest)
  <2>1. PICK n \in 1 .. MessageLength - conn[c].mSent : conn' = [conn EXCEPT ![c] = Sent(conn[c], n)]
    BY <1>4 DEF WriteSome
  <2>2. n \in Nat /\ conn[c].mToSendMsg # <<>>
    <3>1. conn[c].mSent \in Nat /\ MessageLength \in Nat
      BY <1>1, ConnectionAssumption DEF Object
    <3> QED BY <1>4, <2>1, <3>1 DEF WriteSome, HasMessage
  <2>3. /\ Sent(conn[c], n).mConnID = conn[c].mConnID /\ Sent(conn[c], n).mClosed = conn[c].mClosed
        /\ Sent(conn[c], n).mRecved = conn[c].mRecved
    BY <1>1, <2>2, SendingSome
  <2>4. UnitsStay
    BY <1>1, <1>2, <2>1, <2>3 DEF UnitsStay
  <2> QED BY <1>4, <2>4, PipelineIdle, PipelineStays DEF WriteSome
<1>5. CASE WriteFails(c, rest)
  <2>1. /\ conn' = [conn EXCEPT ![c] = Closed([@ EXCEPT !.mSent = 0])]
        /\ mNetQueue' = Append(rest, Drop(conn[c].mConnID))
        /\ ~conn[c].mClosed /\ conn[c].mToSendMsg # <<>>
    BY <1>5 DEF WriteFails, HasMessage
  <2>2. conn'[c].mClosed /\ conn'[c].mConnID = conn[c].mConnID
        /\ \A d \in Clients \ {c} : conn'[d] = conn[d]
    BY <1>1, <2>1 DEF Closed, Object
  <2>3. UnitsStay
    BY <1>2, <2>2 DEF UnitsStay
  <2>4. conn[c].object # "none"
    BY <2>1 DEF IInv, Objects
  <2>5. IsQueue(rest) /\ SameReports(mWorkerQueue \o rest, Pipeline)
    <3>1. CASE rest = mNetQueue
      BY <3>1, Queues DEF Pipeline, SameReports
    <3>2. CASE mNetQueue # <<>> /\ ~Reported(Head(mNetQueue)) /\ rest = Tail(mNetQueue)
      BY <3>2, Queues, TailOfQueue, HeadDropped DEF Pipeline
    <3> QED BY <3>1, <3>2
  <2>6. OneMoreReport(Pipeline', mWorkerQueue \o rest, Drop(conn[c].mConnID))
    BY <2>1, <2>5, Queues, AnotherReport DEF Pipeline
  <2>7. OneMoreReport(Pipeline', Pipeline, Drop(conn[c].mConnID))
    BY <2>5, <2>6 DEF OneMoreReport, SameReports
  <2> QED BY <2>2, <2>3, <2>4, <2>7 DEF PipelineMoves
<1> QED BY <1>3, <1>4, <1>5 DEF WriteData

LEMMA QuietDriver ==
  ASSUME IInv, ended = "no", DriverStep, ~RecvRest
  PROVE  UnitsStay /\ PipelineMoves
<1>1. conn \in [Clients -> Object] /\ stream \in [Clients -> Seq(Nat)]
  BY DEF IInv, Types
<1>2. /\ written' = written /\ peerClosed' = peerClosed /\ mMaxID' = mMaxID
      /\ mWorkerQueue' = mWorkerQueue
  BY DEF DriverStep, Poll, Dispatch, AcceptSocket, EnterReadData, ReadNotOkay, PreRecv, RecvPart,
         EndOfStream, RefuseLength, UnRegistAndReport, UnRegistSilently, UnRegistAborts, DriverWrites,
         Crash, peers, service, queues
<1>3. CASE Poll \/ Dispatch \/ EnterReadData \/ UnRegistAborts \/ Crash
  <2>1. conn' = conn /\ mNetQueue' = mNetQueue /\ stream' = stream
    BY <1>3 DEF Poll, Dispatch, EnterReadData, UnRegistAborts, Crash, queues, peers
  <2> QED BY <1>2, <2>1, PipelineIdle DEF UnitsStay
<1>4. CASE \E c \in Clients : AcceptSocket(c)
  <2>1. PICK c \in Clients, fd \in Fds : /\ conn' = [conn EXCEPT ![c].fd = fd]
                                         /\ mNetQueue' = Append(mNetQueue, Accept(c))
                                         /\ stream' = stream
    BY <1>4 DEF AcceptSocket
  <2>2. ~Reported(Accept(c))
    BY DEF Accept, Reported, IsRecv, IsDrop
  <2>3. UnitsStay
    BY <1>1, <1>2, <2>1 DEF UnitsStay, Object
  <2> QED BY <1>2, <2>1, <2>2, <2>3, PipelineStays
<1>5. CASE ReadNotOkay
  <2>1. dConn \in Clients /\ conn[dConn].object # "none" /\ conn[dConn].mClosed
        /\ conn[dConn] \in Object
    BY <1>1, <1>5, Registrants DEF ReadNotOkay
  <2>2. conn'[dConn].mClosed /\ conn'[dConn].mConnID = conn[dConn].mConnID
        /\ \A d \in Clients \ {dConn} : conn'[d] = conn[d]
    BY <1>1, <1>5, <2>1 DEF ReadNotOkay, ResetRecv, Object
  <2>3. UnitsStay
    BY <1>2, <1>5, <2>2 DEF ReadNotOkay, peers, UnitsStay
  <2>4. OneMoreReport(Pipeline', Pipeline, Drop(conn[dConn].mConnID))
    BY <1>2, <1>5, PipelineGrows DEF ReadNotOkay
  <2> QED BY <2>1, <2>2, <2>3, <2>4 DEF PipelineMoves
<1>6. CASE PreRecv \/ RecvPart
  <2>1. PICK n \in Nat : n <= Len(stream[dConn]) /\ Receive(dConn, n)
    <3>1. CASE PreRecv
      BY <3>1, ConnectionAssumption DEF PreRecv
    <3>2. CASE RecvPart
      <4>1. dConn \in Clients
        BY <3>2, Registrants DEF RecvPart
      <4>2. Len(stream[dConn]) \in Nat
        BY <1>1, <4>1
      <4> QED BY <3>2, <4>2 DEF RecvPart
    <3> QED BY <1>6, <3>1, <3>2
  <2>2. dConn \in Clients
    BY <1>6, Registrants DEF PreRecv, RecvPart
  <2> DEFINE a == conn[dConn].mRecved
             s == stream[dConn]
  <2>3. a \in Seq(Nat) /\ s \in Seq(Nat) /\ n \in 0 .. Len(s)
    <3>1. a \in Seq(Nat) /\ s \in Seq(Nat)
      BY <1>1, <2>2 DEF Object
    <3> QED BY <2>1, <3>1
  <2>4. /\ stream'[dConn] = SubSeq(s, n + 1, Len(s))
        /\ \A d \in Clients \ {dConn} : stream'[d] = stream[d] /\ conn'[d] = conn[d]
        /\ conn'[dConn].mRecved = a \o SubSeq(s, 1, n)
        /\ conn'[dConn].mConnID = conn[dConn].mConnID
        /\ conn'[dConn].mClosed = conn[dConn].mClosed
    <3>1. conn' = [conn EXCEPT ![dConn].mRecved = a \o SubSeq(s, 1, n)]
      BY <1>1, <2>1, <2>2 DEF Receive
    <3>2. stream' = [stream EXCEPT ![dConn] = SubSeq(s, n + 1, Len(s))]
      BY <1>1, <2>1, <2>2 DEF Receive
    <3> QED BY <1>1, <2>2, <3>1, <3>2 DEF Object
  <2>5. conn'[dConn].mRecved \o stream'[dConn] = a \o s
    BY <2>3, <2>4, Cut, ZenonT(40)
  <2>6. UnitsStay
    BY <1>2, <2>4, <2>5 DEF UnitsStay
  <2>7. mNetQueue' = mNetQueue
    BY <1>6 DEF PreRecv, RecvPart, queues
  <2> QED BY <1>2, <2>6, <2>7, PipelineIdle
<1>7. CASE EndOfStream \/ RefuseLength
  <2>1. /\ dConn \in Clients /\ mNetQueue' = mNetQueue
        /\ \/ conn' = [conn EXCEPT ![dConn].mClosed = TRUE]
           \/ conn' = [conn EXCEPT ![dConn].mClosed = TRUE, ![dConn].refused = TRUE]
        /\ stream' = [stream EXCEPT ![dConn] = <<>>]
    BY <1>7, Registrants DEF EndOfStream, RefuseLength, queues
  <2>2. /\ conn'[dConn].mClosed /\ conn'[dConn].mConnID = conn[dConn].mConnID
        /\ \A d \in Clients \ {dConn} : conn'[d] = conn[d] /\ stream'[d] = stream[d]
    <3>1. CASE conn' = [conn EXCEPT ![dConn].mClosed = TRUE]
      BY <1>1, <2>1, <3>1 DEF Object
    <3>2. CASE conn' = [conn EXCEPT ![dConn].mClosed = TRUE, ![dConn].refused = TRUE]
      BY <1>1, <2>1, <3>2 DEF Object
    <3> QED BY <2>1, <3>1, <3>2
  <2>3. UnitsStay
    BY <1>2, <2>2 DEF UnitsStay
  <2> QED BY <1>2, <2>1, <2>3, PipelineIdle
<1>8. CASE UnRegistAndReport
  <2>1. /\ dConn \in Clients /\ conn[dConn].object # "none"
        /\ conn' = [conn EXCEPT ![dConn] = ResetRecv(Closed(@))]
        /\ mNetQueue' = Append(mNetQueue, Drop(conn[dConn].mConnID)) /\ stream' = stream
    BY <1>8, Registrants DEF UnRegistAndReport, peers
  <2>2. conn'[dConn].mClosed /\ conn'[dConn].mConnID = conn[dConn].mConnID
        /\ \A d \in Clients \ {dConn} : conn'[d] = conn[d]
    BY <1>1, <2>1 DEF ResetRecv, Closed, Object
  <2>3. UnitsStay
    BY <1>2, <2>1, <2>2 DEF UnitsStay
  <2>4. OneMoreReport(Pipeline', Pipeline, Drop(conn[dConn].mConnID))
    BY <1>2, <2>1, PipelineGrows
  <2> QED BY <2>1, <2>2, <2>3, <2>4 DEF PipelineMoves
<1>9. CASE DriverWrites
  <2>1. /\ dConn \in Clients /\ WriteData(dConn, mNetQueue)
        /\ mWorkerQueue' = mWorkerQueue /\ UNCHANGED <<peers, mMaxID>>
    BY <1>9, Registrants DEF DriverWrites
  <2> QED BY <2>1, WritingUnits
<1>10. CASE UnRegistSilently
  <2>1. /\ dConn \in Clients /\ mNetQueue' = mNetQueue /\ stream' = stream
        /\ conn' = [conn EXCEPT ![dConn] = Closed(@)]
    BY <1>10, Registrants DEF UnRegistSilently, queues, peers
  <2>2. conn'[dConn].mClosed /\ conn'[dConn].mConnID = conn[dConn].mConnID
        /\ \A d \in Clients \ {dConn} : conn'[d] = conn[d]
    BY <1>1, <2>1 DEF Closed, Object
  <2>3. UnitsStay
    BY <1>2, <2>1, <2>2 DEF UnitsStay
  <2> QED BY <1>2, <2>1, <2>3, PipelineIdle
<1> QED BY <1>3, <1>4, <1>5, <1>6, <1>7, <1>8, <1>9, <1>10 DEF DriverStep

LEMMA QuietService ==
  ASSUME IInv, ended = "no", ServiceStep, ~AcceptConnection
  PROVE  UnitsStay /\ PipelineMoves
<1>1. conn \in [Clients -> Object]
  BY DEF IInv, Types
<1>2. UNCHANGED <<peers, mMaxID>>
  BY DEF ServiceStep, RegistWriteEvent, ForwardRecv, SendDiscarded, SendEnqueued, ServiceWrites,
         DropConnection, service
<1>3. ASSUME NEW op, op \in {"OP_ACCEPT", "OP_SEND"}, mNetQueue # <<>>, Head(mNetQueue).op = op
      PROVE  ~Reported(Head(mNetQueue))
  BY <1>3 DEF Reported, IsRecv, IsDrop
<1>4. CASE RegistWriteEvent \/ SendDiscarded
  <2>1. conn' = conn /\ mWorkerQueue' = mWorkerQueue /\ mNetQueue' = Tail(mNetQueue)
    BY <1>4 DEF RegistWriteEvent, SendDiscarded
  <2>2. mNetQueue # <<>> /\ Head(mNetQueue).op \in {"OP_ACCEPT", "OP_SEND"}
    BY <1>4, Registrants DEF RegistWriteEvent, SendDiscarded, NextContextIs, NextIs
  <2> QED BY <1>2, <1>3, <2>1, <2>2, PipelineStays DEF UnitsStay, peers
<1>5. CASE ForwardRecv
  <2>1. /\ mNetQueue # <<>> /\ conn' = conn
        /\ mWorkerQueue' = Append(mWorkerQueue, Head(mNetQueue)) /\ mNetQueue' = Tail(mNetQueue)
    BY <1>5 DEF ForwardRecv, NextContextIs, NextIs
  <2>2. PipelineMoves
    BY <2>1, Queues, HeadForwarded DEF PipelineMoves, Pipeline
  <2> QED BY <1>2, <2>1, <2>2 DEF UnitsStay, peers
<1>6. CASE SendEnqueued
  <2> DEFINE c == mConns[Head(mNetQueue).conn]
  <2>1. /\ mNetQueue' = mNetQueue /\ mWorkerQueue' = mWorkerQueue
        /\ conn' = [conn EXCEPT ![c].mToSendMsg = Append(@, Head(mNetQueue).msg)]
    BY <1>6 DEF SendEnqueued, queues
  <2> HIDE DEF c
  <2>2. UnitsStay
    BY <1>1, <1>2, <2>1 DEF UnitsStay, peers, Object
  <2> QED BY <2>1, <2>2, PipelineIdle
<1>7. CASE ServiceWrites
  <2>1. /\ mConns[Head(mNetQueue).conn] \in Clients
        /\ WriteData(mConns[Head(mNetQueue).conn], Tail(mNetQueue))
        /\ mNetQueue # <<>> /\ Head(mNetQueue).op = "OP_SEND" /\ mWorkerQueue' = mWorkerQueue
    BY <1>7, Registrants DEF ServiceWrites
  <2> QED BY <1>2, <1>3, <2>1, WritingUnits
<1>8. CASE DropConnection
  <2> DEFINE h == Head(mNetQueue)
  <2>1. /\ mNetQueue # <<>> /\ h.op = "OP_DROP" /\ h \in NetContexts
        /\ mWorkerQueue' = Append(mWorkerQueue, Drop(h.conn)) /\ mNetQueue' = Tail(mNetQueue)
        /\ \A c \in Clients : conn'[c] \in {conn[c], [conn[c] EXCEPT !.object = "deleted"]}
    <3>1. mNetQueue # <<>> /\ h.op = "OP_DROP"
          /\ mWorkerQueue' = Append(mWorkerQueue, Drop(h.conn)) /\ mNetQueue' = Tail(mNetQueue)
      BY <1>8 DEF DropConnection, NextContextIs, NextIs
    <3>2. \A c \in Clients : conn'[c] \in {conn[c], [conn[c] EXCEPT !.object = "deleted"]}
      BY <1>8 DEF DropConnection
    <3> QED BY <3>1, <3>2, NetQueueShrinks
  <2>2. Drop(h.conn) = h
    BY <2>1 DEF NetContexts, Drop
  <2>3. PipelineMoves
    BY <2>1, <2>2, Queues, HeadForwarded DEF PipelineMoves, Pipeline
  <2>4. \A c \in Clients : LET d == [conn[c] EXCEPT !.object = "deleted"] IN
          d.mConnID = conn[c].mConnID /\ d.mClosed = conn[c].mClosed /\ d.mRecved = conn[c].mRecved
    BY <1>1 DEF Object
  <2>5. UnitsStay
    BY <1>2, <2>1, <2>4 DEF UnitsStay, peers
  <2> QED BY <2>3, <2>5
<1> QED BY <1>4, <1>5, <1>6, <1>7, <1>8, SMTT(30) DEF ServiceStep

-----------------------------------------------------------------------------
LEMMA Quotients ==
  ASSUME NEW L \in Nat \ {0}, NEW k \in Nat, NEW a \in Nat
  PROVE  /\ (L * k + a) \div L = k + a \div L
         /\ (a + L) \div L = 1 + a \div L
         /\ a < L => a \div L = 0
         /\ L * k + a \in Nat /\ a \div L \in Nat
<1>1. ASSUME NEW j \in Nat, NEW r \in 0 .. L - 1
      PROVE  (L * j + r) \div L = j
  <2> DEFINE w == L * j
  <2>1. w \in Nat
    OBVIOUS
  <2> HIDE DEF w
  <2>2. w + r + 1 \in w + 1 .. w + L /\ (w + r + 1) - 1 = w + r
    BY <2>1
  <2>3. w = L * j
    BY DEF w
  <2>4. ((w + r + 1) - 1) \div L = j
    BY <2>1, <2>2, <2>3, Blocks
  <2> QED BY <2>2, <2>3, <2>4
<1> DEFINE d == a \div L
           r == a - L * d
<1>2. d \in Nat /\ r \in 0 .. L - 1
  BY SMTT(30)
<1>3. L * k + a = L * (k + d) + r /\ a + L = L * (1 + d) + r /\ a = L * d + r
  BY <1>2, SMTT(30)
<1>4. a < L => a \in 0 .. L - 1 /\ a = L * 0 + a
  OBVIOUS
<1> HIDE DEF d, r
<1>5. (L * (k + d) + r) \div L = k + d /\ (L * (1 + d) + r) \div L = 1 + d
  BY <1>1, <1>2
<1>6. (L * k + a) \div L = k + d /\ (a + L) \div L = 1 + d
  BY <1>3, <1>5
<1>7. a < L => a \div L = 0
  BY <1>1, <1>4
<1>8. L * k + a \in Nat
  OBVIOUS
<1> QED BY <1>2, <1>6, <1>7, <1>8 DEF d

(* These units are to be received when k frames are, and no more than      *)
(* MaxFrames frames in all.                                                *)
Due(units, k) ==
  /\ \A i \in 1 .. Len(units) : units[i] = k + 1 + (i - 1) \div FrameLength
  /\ FrameLength * k + Len(units) <= FrameLength * MaxFrames

LEMMA FrameLengths == FrameLength \in Nat \ {0} /\ MaxFrames \in Nat
  BY ConnectionAssumption DEF FrameLength

LEMMA Joined ==
  ASSUME NEW a \in Seq(Nat), NEW s \in Seq(Nat)
  PROVE  /\ a \o s \in Seq(Nat) /\ Len(a \o s) = Len(a) + Len(s)
         /\ \A i \in 1 .. Len(a) + Len(s) :
              (a \o s)[i] = IF i <= Len(a) THEN a[i] ELSE s[i - Len(a)]
  OBVIOUS

LEMMA DuePrefix ==
  ASSUME NEW a \in Seq(Nat), NEW s \in Seq(Nat), NEW n \in 0 .. Len(s), NEW k \in Nat, Due(a \o s, k)
  PROVE  Due(a \o SubSeq(s, 1, n), k)
<1> DEFINE t == a \o SubSeq(s, 1, n)
           u == a \o s
<1>1. /\ Len(t) = Len(a) + n /\ Len(u) = Len(a) + Len(s)
      /\ Len(a) \in Nat /\ Len(s) \in Nat /\ n \in Nat /\ n <= Len(s)
      /\ \A i \in 1 .. Len(a) + n : t[i] = IF i <= Len(a) THEN a[i] ELSE s[i - Len(a)]
      /\ \A i \in 1 .. Len(a) + Len(s) : u[i] = IF i <= Len(a) THEN a[i] ELSE s[i - Len(a)]
  BY Taking
<1> HIDE DEF t, u
<1>2. \A i \in 1 .. Len(t) : i \in 1 .. Len(u) /\ t[i] = u[i]
  <2> SUFFICES ASSUME NEW i \in 1 .. Len(a) + n
               PROVE  i \in 1 .. Len(a) + Len(s) /\ t[i] = u[i]
    BY <1>1
  <2>1. i \in 1 .. Len(a) + Len(s)
    BY <1>1
  <2>2. t[i] = (IF i <= Len(a) THEN a[i] ELSE s[i - Len(a)])
    BY <1>1
  <2>3. u[i] = (IF i <= Len(a) THEN a[i] ELSE s[i - Len(a)])
    BY <1>1, <2>1
  <2> QED BY <2>1, <2>2, <2>3
<1>3. Due(u, k)
  BY DEF u
<1>4. \A i \in 1 .. Len(t) : t[i] = k + 1 + (i - 1) \div FrameLength
  BY <1>2, <1>3 DEF Due
<1>5. FrameLength * k + Len(t) <= FrameLength * MaxFrames
  <2>1. FrameLength * k \in Nat /\ FrameLength * MaxFrames \in Nat /\ Len(t) <= Len(u)
    BY <1>1, FrameLengths
  <2> QED BY <1>1, <1>3, <2>1 DEF Due
<1>6. Due(t, k)
  BY <1>4, <1>5 DEF Due
<1> QED BY <1>6 DEF t

LEMMA DueMore ==
  ASSUME NEW a \in Seq(Nat), NEW s \in Seq(Nat), NEW k \in Nat, Due(a \o s, k),
         NEW w, w = FrameLength * k + Len(a \o s), w < MaxFrames * FrameLength
  PROVE  /\ Due(a \o Append(s, 1 + w \div FrameLength), k)
         /\ Len(a \o Append(s, 1 + w \div FrameLength)) = Len(a \o s) + 1
         /\ Append(s, 1 + w \div FrameLength) \in Seq(Nat)
<1> DEFINE L == FrameLength
           u == a \o s
           l == Len(u)
           v == 1 + w \div L
           r == Append(s, v)
           t == a \o r
<1>1. L \in Nat \ {0} /\ MaxFrames \in Nat /\ u \in Seq(Nat) /\ l \in Nat
  BY FrameLengths
<1>2. w = L * k + l /\ Due(u, k)
  OBVIOUS
<1> HIDE DEF L, u, l
<1>3. w \div L = k + l \div L /\ w \in Nat /\ l \div L \in Nat
  <2>1. (L * k + l) \div L = k + l \div L /\ L * k + l \in Nat /\ l \div L \in Nat
    BY <1>1, Quotients
  <2> QED BY <1>2, <2>1
<1> DEFINE d == l \div L
<1> HIDE DEF d
<1>4. v \in Nat /\ v = k + 1 + l \div L
  <2>1. w \div L = k + d /\ d \in Nat
    BY <1>3 DEF d
  <2> QED BY <2>1 DEF d
<1> HIDE DEF v
<1>5. r \in Seq(Nat) /\ t \in Seq(Nat) /\ Len(t) = l + 1 /\ t[l + 1] = v
      /\ \A i \in 1 .. l : t[i] = u[i]
  <2>1. r \in Seq(Nat) /\ Len(r) = Len(s) + 1 /\ r[Len(s) + 1] = v
        /\ \A i \in 1 .. Len(s) : r[i] = s[i]
    BY <1>4
  <2>2. Len(a) \in Nat /\ Len(s) \in Nat /\ l = Len(a) + Len(s)
        /\ \A i \in 1 .. Len(a) + Len(s) : u[i] = IF i <= Len(a) THEN a[i] ELSE s[i - Len(a)]
    BY DEF u, l
  <2> HIDE DEF r
  <2>3. t \in Seq(Nat) /\ Len(t) = Len(a) + Len(r)
        /\ \A i \in 1 .. Len(a) + Len(r) : t[i] = IF i <= Len(a) THEN a[i] ELSE r[i - Len(a)]
    BY ONLY <2>1, a \in Seq(Nat), Joined
  <2> HIDE DEF t
  <2>4. ASSUME NEW i \in 1 .. l
        PROVE  t[i] = u[i]
    <3>1. i \in 1 .. Len(a) + Len(s) /\ i \in 1 .. Len(a) + Len(r)
      BY <2>1, <2>2
    <3>2. /\ t[i] = (IF i <= Len(a) THEN a[i] ELSE r[i - Len(a)])
          /\ u[i] = (IF i <= Len(a) THEN a[i] ELSE s[i - Len(a)])
      BY <2>2, <2>3, <3>1
    <3>3. ~(i <= Len(a)) => i - Len(a) \in 1 .. Len(s)
      BY <2>2, <3>1
    <3>4. CASE i <= Len(a)
      BY <3>2, <3>4
    <3>5. CASE ~(i <= Len(a))
      <4>1. r[i - Len(a)] = s[i - Len(a)]
        BY <2>1, <3>3, <3>5
      <4> QED BY ONLY <3>2, <3>5, <4>1
    <3> QED BY <3>4, <3>5
  <2>5. Len(t) = l + 1 /\ t[l + 1] = v
    BY <2>1, <2>2, <2>3
  <2> QED BY <2>1, <2>3, <2>4, <2>5
<1> HIDE DEF r, t
<1>6. \A i \in 1 .. Len(t) : t[i] = k + 1 + (i - 1) \div L
  <2> SUFFICES ASSUME NEW i \in 1 .. l + 1
               PROVE  t[i] = k + 1 + (i - 1) \div L
    BY <1>5
  <2>1. CASE i = l + 1
    <3>1. i - 1 = l
      BY <1>1, <2>1
    <3> QED BY <1>4, <1>5, <2>1, <3>1
  <2>2. CASE i # l + 1
    <3>1. i \in 1 .. l
      BY <1>1, <2>2
    <3>2. u[i] = k + 1 + (i - 1) \div L
      BY <1>2, <3>1 DEF Due, l, L
    <3> QED BY <1>5, <3>1, <3>2
  <2> QED BY <2>1, <2>2
<1>7. L * k + Len(t) <= L * MaxFrames
  <2>1. L * k \in Nat /\ L * MaxFrames \in Nat /\ MaxFrames * L = L * MaxFrames
    BY <1>1
  <2>2. w < MaxFrames * L
    BY DEF L
  <2> QED BY <1>1, <1>2, <1>5, <2>1, <2>2
<1>8. Due(t, k)
  BY <1>6, <1>7 DEF Due, L
<1> QED BY <1>5, <1>8 DEF t, r, v, L, l, u

(* RecvRest takes the frame that is due, and the rest is due then.         *)
LEMMA DueTaken ==
  ASSUME NEW a \in Seq(Nat), NEW s \in Seq(Nat), NEW k \in Nat, Due(a \o s, k),
         NEW n \in 0 .. Len(s), Len(a) + n = FrameLength
  PROVE  /\ k + 1 \in 1 .. MaxFrames
         /\ a \o SubSeq(s, 1, n) = Frame(k + 1)
         /\ SubSeq(s, n + 1, Len(s)) \in Seq(Nat)
         /\ Due(SubSeq(s, n + 1, Len(s)), k + 1)
         /\ FrameLength * (k + 1) + Len(SubSeq(s, n + 1, Len(s))) = FrameLength * k + Len(a \o s)
<1> DEFINE L == FrameLength
           u == a \o s
           t == a \o SubSeq(s, 1, n)
           r == SubSeq(s, n + 1, Len(s))
<1>1. L \in Nat \ {0} /\ MaxFrames \in Nat
  BY FrameLengths
<1>2. /\ Len(a) \in Nat /\ Len(s) \in Nat /\ n \in Nat /\ n <= Len(s) /\ Len(a) + n = L
      /\ Len(u) = Len(a) + Len(s)
      /\ \A i \in 1 .. Len(a) + Len(s) : u[i] = IF i <= Len(a) THEN a[i] ELSE s[i - Len(a)]
  BY Joined
<1>3. /\ t \in Seq(Nat) /\ Len(t) = Len(a) + n
      /\ \A i \in 1 .. Len(a) + n : t[i] = IF i <= Len(a) THEN a[i] ELSE s[i - Len(a)]
      /\ r \in Seq(Nat) /\ Len(r) = Len(s) - n
      /\ \A i \in 1 .. Len(s) - n : r[i] = s[n + i]
  BY Taking
<1>4. \A i \in 1 .. Len(u) : u[i] = k + 1 + (i - 1) \div L
  BY DEF Due
<1>5. L * k + Len(u) <= L * MaxFrames
  BY DEF Due
<1> HIDE DEF L, u, t, r
<1>6. \A i \in 1 .. L : t[i] = k + 1
  <2> SUFFICES ASSUME NEW i \in 1 .. L
               PROVE  t[i] = k + 1
    OBVIOUS
  <2>1. i \in 1 .. Len(a) + n /\ i \in 1 .. Len(a) + Len(s) /\ i - 1 \in Nat /\ i - 1 < L
    BY <1>1, <1>2
  <2>2. t[i] = u[i]
    BY <1>2, <1>3, <2>1
  <2>3. (i - 1) \div L = 0
    BY <1>1, <2>1, Quotients
  <2>4. u[i] = k + 1 + (i - 1) \div L
    BY <1>2, <1>4, <2>1
  <2> QED BY <2>2, <2>3, <2>4
<1>7. t = Frame(k + 1)
  <2> DEFINE f == [i \in 1 .. L |-> k + 1]
  <2>1. f \in Seq(Nat) /\ Len(f) = L /\ \A i \in 1 .. L : f[i] = k + 1
    BY <1>1
  <2> HIDE DEF f
  <2>2. Len(t) = Len(f) /\ \A i \in 1 .. Len(t) : t[i] = f[i]
    BY <1>2, <1>3, <1>6, <2>1
  <2>3. t = f
    BY <1>3, <2>1, <2>2, SeqEqual
  <2> QED BY <2>3 DEF f, Frame, L
<1>8. Len(r) \in Nat /\ Len(u) = L + Len(r)
  BY <1>2, <1>3
<1>9. L * k \in Nat /\ L * (k + 1) = L * k + L /\ L * MaxFrames \in Nat
  BY <1>1
<1>10. k + 1 \in 1 .. MaxFrames
  <2>1. ~(MaxFrames < k + 1)
    <3>1. MaxFrames < k + 1 => L * MaxFrames + L <= L * (k + 1)
      BY <1>1, ProductGrows
    <3> DEFINE x == L * k
               y == L * MaxFrames
               z == L * (k + 1)
    <3>2. /\ MaxFrames < k + 1 => y + L <= z
          /\ x \in Nat /\ z = x + L /\ y \in Nat /\ x + Len(u) <= y
      BY <1>5, <1>9, <3>1
    <3> HIDE DEF x, y, z
    <3> QED BY <1>1, <1>8, <3>2
  <2> QED BY <1>1, <2>1
<1>11. \A i \in 1 .. Len(r) : r[i] = k + 1 + 1 + (i - 1) \div L
  <2> SUFFICES ASSUME NEW i \in 1 .. Len(r)
               PROVE  r[i] = k + 1 + 1 + (i - 1) \div L
    OBVIOUS
  <2> DEFINE j == i + L
             d == (i - 1) \div L
  <2>1. i \in Int /\ 1 <= i /\ i <= Len(s) - n /\ L \in Nat
    BY <1>1, <1>3, <1>8
  <2>2. /\ j \in 1 .. Len(a) + Len(s) /\ ~(j <= Len(a)) /\ j - Len(a) = n + i
        /\ i \in 1 .. Len(s) - n /\ i - 1 \in Nat /\ j - 1 = (i - 1) + L
    <3> DEFINE la == Len(a)
               ls == Len(s)
    <3>1. la \in Nat /\ ls \in Nat /\ n \in Nat /\ L \in Nat /\ i \in Int
          /\ la + n = L /\ n <= ls /\ 1 <= i /\ i <= ls - n
      BY <1>2, <2>1
    <3> HIDE DEF la, ls
    <3>2. /\ j \in 1 .. la + ls /\ ~(j <= la) /\ j - la = n + i
          /\ i \in 1 .. ls - n /\ i - 1 \in Nat /\ j - 1 = (i - 1) + L
      BY <3>1
    <3> QED BY <3>2 DEF la, ls
  <2> HIDE DEF j
  <2>3. u[j] = s[n + i] /\ r[i] = s[n + i]
    BY <1>2, <1>3, <2>2
  <2>4. u[j] = k + 1 + (j - 1) \div L
    BY <1>2, <1>4, <2>2
  <2>5. ((i - 1) + L) \div L = 1 + d /\ d \in Nat
    BY <1>1, <2>2, Quotients
  <2>6. r[i] = k + 1 + (1 + d)
    BY <2>2, <2>3, <2>4, <2>5
  <2> HIDE DEF d
  <2>7. r[i] = k + 1 + 1 + d
    BY <2>5, <2>6
  <2> QED BY <2>7 DEF d
<1>12. L * (k + 1) + Len(r) = L * k + Len(u) /\ L * (k + 1) + Len(r) <= L * MaxFrames
  <2> DEFINE x == L * k
             y == L * MaxFrames
             z == L * (k + 1)
  <2>1. x \in Nat /\ z = x + L /\ y \in Nat /\ x + Len(u) <= y
    BY <1>5, <1>9
  <2> HIDE DEF x, y, z
  <2>2. z + Len(r) = x + Len(u) /\ z + Len(r) <= y
    BY <1>1, <1>8, <2>1
  <2> QED BY <2>2 DEF x, y, z
<1>13. Due(r, k + 1)
  BY <1>11, <1>12 DEF Due, L
<1> QED BY <1>3, <1>7, <1>10, <1>12, <1>13 DEF L, u, t, r

-----------------------------------------------------------------------------
(* k frames of c are reported or done with: no other number of c's is.     *)
ReportsOf(c, k) ==
  \A m \in 1 .. MaxFrames : Recv(conn[c].mConnID, Frame(m)) \in Range(Pipeline) <=> m <= k

Frames ==
  \A c \in Clients : \E k \in 0 .. MaxFrames :
    /\ ReportsOf(c, k)
    /\ \/ conn[c].mClosed
       \/ /\ Due(conn[c].mRecved \o stream[c], k)
          /\ \/ c \in peerClosed
             \/ written[c] = FrameLength * k + Len(conn[c].mRecved \o stream[c])

FramesBefore ==
  \A x \in Range(Pipeline) : IsRecv(x) =>
    \E n \in 1 .. MaxFrames :
      /\ x = Recv(x.conn, Frame(n))
      /\ \A m \in 1 .. n - 1 : Before(Pipeline, Recv(x.conn, Frame(m)), x)
      /\ \A y : Reported(y) /\ y.conn = x.conn /\ Before(Pipeline, y, x)
                  => \E m \in 1 .. n - 1 : y = Recv(x.conn, Frame(m))

ReportsKnown ==
  \A x \in Range(Pipeline) : Reported(x) =>
    /\ x.conn \in 0 .. mMaxID - 1
    /\ IsDrop(x) => \E c \in Clients : conn[c].mConnID = x.conn /\ conn[c].mClosed

FInv == Frames /\ FramesBefore /\ ReportsKnown

LEMMA Ids ==
  ASSUME IInv
  PROVE  /\ mMaxID \in Nat
         /\ \A c \in Clients : /\ conn[c].object # "none" => conn[c].mConnID \in 0 .. mMaxID - 1
                               /\ conn[c].mRecved \in Seq(Nat) /\ stream[c] \in Seq(Nat)
                               /\ Len(conn[c].mRecved) < FrameLength
  BY DEF IInv, Types, Objects, Object

LEMMA RecvFields ==
  ASSUME NEW id, NEW m
  PROVE  /\ Recv(id, m).op = "OP_RECV" /\ Recv(id, m).conn = id /\ Recv(id, m).msg = m
         /\ IsRecv(Recv(id, m)) /\ Reported(Recv(id, m)) /\ ~IsDrop(Recv(id, m))
  BY DEF Recv, IsRecv, IsDrop, Reported

LEMMA DropFields ==
  ASSUME NEW id
  PROVE  /\ Drop(id).conn = id /\ IsDrop(Drop(id)) /\ Reported(Drop(id)) /\ ~IsRecv(Drop(id))
  BY DEF Drop, IsRecv, IsDrop, Reported

LEMMA FramesDiffer ==
  ASSUME NEW m, NEW n, Frame(m) = Frame(n)
  PROVE  m = n
<1>1. 1 \in 1 .. FrameLength
  BY FrameLengths
<1>2. Frame(m)[1] = m /\ Frame(n)[1] = n
  BY <1>1 DEF Frame
<1> QED BY <1>2

LEMMA QuietFrames ==
  ASSUME IInv, FInv, UnitsStay, PipelineMoves
  PROVE  FInv'
<1>1. PICK e : \/ SameReports(Pipeline', Pipeline)
               \/ /\ OneMoreReport(Pipeline', Pipeline, e) /\ IsDrop(e) /\ Reported(e)
                  /\ e.conn \in 0 .. mMaxID - 1
                  /\ \E c \in Clients : conn'[c].mConnID = e.conn /\ conn'[c].mClosed
  <2>1. CASE SameReports(Pipeline', Pipeline)
    BY <2>1
  <2>2. ASSUME NEW c \in Clients, conn[c].object # "none", conn'[c].mClosed,
               OneMoreReport(Pipeline', Pipeline, Drop(conn[c].mConnID))
        PROVE  \E e : /\ OneMoreReport(Pipeline', Pipeline, e) /\ IsDrop(e) /\ Reported(e)
                      /\ e.conn \in 0 .. mMaxID - 1
                      /\ \E d \in Clients : conn'[d].mConnID = e.conn /\ conn'[d].mClosed
    <3> DEFINE e == Drop(conn[c].mConnID)
    <3>1. e.conn = conn[c].mConnID /\ IsDrop(e) /\ Reported(e)
      BY DropFields
    <3>2. e.conn \in 0 .. mMaxID - 1 /\ conn'[c].mConnID = e.conn
      BY <2>2, <3>1, Ids DEF UnitsStay
    <3> HIDE DEF e
    <3>3. OneMoreReport(Pipeline', Pipeline, e)
      BY <2>2 DEF e
    <3> QED BY <2>2, <3>1, <3>2, <3>3
  <2> QED BY <2>1, <2>2 DEF PipelineMoves
<1>2. /\ mMaxID' = mMaxID /\ written' = written /\ peerClosed' = peerClosed
      /\ \A c \in Clients :
           /\ conn'[c].mConnID = conn[c].mConnID
           /\ conn[c].mClosed => conn'[c].mClosed
           /\ conn'[c].mClosed
                \/ conn'[c].mRecved \o stream'[c] = conn[c].mRecved \o stream[c]
  BY DEF UnitsStay
<1>3. \A x : IsRecv(x) => /\ Reported(x) /\ ~IsDrop(x)
                          /\ x \in Range(Pipeline') <=> x \in Range(Pipeline)
                          /\ \A y : Reported(y) => (Before(Pipeline', y, x) <=> Before(Pipeline, y, x))
  <2>1. \A x : IsRecv(x) => Reported(x) /\ ~IsDrop(x)
    BY DEF IsRecv, IsDrop, Reported
  <2> QED BY <1>1, <2>1 DEF SameReports, OneMoreReport
<1>4. Frames'
  <2> SUFFICES ASSUME NEW c \in Clients
               PROVE  \E k \in 0 .. MaxFrames :
                        /\ ReportsOf(c, k)'
                        /\ \/ conn'[c].mClosed
                           \/ /\ Due(conn'[c].mRecved \o stream'[c], k)
                              /\ \/ c \in peerClosed'
                                 \/ written'[c] = FrameLength * k
                                                    + Len(conn'[c].mRecved \o stream'[c])
    BY DEF Frames
  <2>1. PICK k \in 0 .. MaxFrames :
          /\ ReportsOf(c, k)
          /\ \/ conn[c].mClosed
             \/ /\ Due(conn[c].mRecved \o stream[c], k)
                /\ \/ c \in peerClosed
                   \/ written[c] = FrameLength * k + Len(conn[c].mRecved \o stream[c])
    BY DEF FInv, Frames
  <2>2. ReportsOf(c, k)'
    BY <1>2, <1>3, <2>1, RecvFields DEF ReportsOf
  <2> QED BY <1>2, <2>1, <2>2
<1>5. FramesBefore'
  <2> SUFFICES ASSUME NEW x \in Range(Pipeline'), IsRecv(x)
               PROVE  \E n \in 1 .. MaxFrames :
                        /\ x = Recv(x.conn, Frame(n))
                        /\ \A m \in 1 .. n - 1 : Before(Pipeline', Recv(x.conn, Frame(m)), x)
                        /\ \A y : Reported(y) /\ y.conn = x.conn /\ Before(Pipeline', y, x)
                                    => \E m \in 1 .. n - 1 : y = Recv(x.conn, Frame(m))
    BY DEF FramesBefore
  <2>1. PICK n \in 1 .. MaxFrames :
          /\ x = Recv(x.conn, Frame(n))
          /\ \A m \in 1 .. n - 1 : Before(Pipeline, Recv(x.conn, Frame(m)), x)
          /\ \A y : Reported(y) /\ y.conn = x.conn /\ Before(Pipeline, y, x)
                      => \E m \in 1 .. n - 1 : y = Recv(x.conn, Frame(m))
    BY <1>3 DEF FInv, FramesBefore
  <2>2. \A m \in 1 .. n - 1 : Before(Pipeline', Recv(x.conn, Frame(m)), x)
    BY <1>3, <2>1, RecvFields
  <2> QED BY <1>3, <2>1, <2>2
<1>6. ReportsKnown'
  <2> SUFFICES ASSUME NEW x \in Range(Pipeline'), Reported(x)
               PROVE  /\ x.conn \in 0 .. mMaxID - 1
                      /\ IsDrop(x) => \E c \in Clients : conn'[c].mConnID = x.conn /\ conn'[c].mClosed
    BY <1>2 DEF ReportsKnown
  <2>1. CASE x \in Range(Pipeline)
    BY <1>2, <2>1 DEF FInv, ReportsKnown
  <2>2. CASE x \notin Range(Pipeline)
    <3>1. x = e /\ OneMoreReport(Pipeline', Pipeline, e)
      BY <1>1, <2>2 DEF SameReports, OneMoreReport
    <3> QED BY <1>1, <2>2, <3>1 DEF SameReports
  <2> QED BY <2>1, <2>2
<1> QED BY <1>4, <1>5, <1>6 DEF FInv

(* A peer sends one more unit, ...                                         *)
LEMMA PeerSendsFrames ==
  ASSUME IInv, FInv, NEW c \in Clients, PeerSends(c),
         UNCHANGED <<queues, conn, mMaxID>>
  PROVE  FInv'
<1>1. /\ c \notin peerClosed /\ written[c] < MaxFrames * FrameLength
      /\ written' = [written EXCEPT ![c] = @ + 1]
      /\ stream' = [stream EXCEPT ![c] = Append(@, 1 + written[c] \div FrameLength)]
      /\ peerClosed' = peerClosed
  BY DEF PeerSends
<1>2. Pipeline' = Pipeline
  BY DEF Pipeline, queues
<1>3. FramesBefore' /\ ReportsKnown'
  BY <1>2 DEF FInv, FramesBefore, ReportsKnown
<1>4. stream \in [Clients -> Seq(Nat)] /\ written \in [Clients -> Nat]
  BY DEF IInv, Types
<1>5. ASSUME NEW d \in Clients
      PROVE  \E k \in 0 .. MaxFrames :
               /\ ReportsOf(d, k)
               /\ \/ conn[d].mClosed
                  \/ /\ Due(conn[d].mRecved \o stream'[d], k)
                     /\ \/ d \in peerClosed
                        \/ written'[d] = FrameLength * k + Len(conn[d].mRecved \o stream'[d])
  <2>1. PICK k \in 0 .. MaxFrames :
          /\ ReportsOf(d, k)
          /\ \/ conn[d].mClosed
             \/ /\ Due(conn[d].mRecved \o stream[d], k)
                /\ \/ d \in peerClosed
                   \/ written[d] = FrameLength * k + Len(conn[d].mRecved \o stream[d])
    BY DEF FInv, Frames
  <2>2. CASE d # c
    BY <1>1, <1>4, <2>1, <2>2
  <2>3. CASE d = c /\ conn[c].mClosed
    BY <2>1, <2>3
  <2>4. CASE d = c /\ ~conn[c].mClosed
    <3> DEFINE a == conn[c].mRecved
               s == stream[c]
               w == written[c]
    <3>1. a \in Seq(Nat) /\ s \in Seq(Nat) /\ k \in Nat /\ w \in Nat
      BY <1>4, <2>1, Ids, FrameLengths
    <3>2. Due(a \o s, k) /\ w = FrameLength * k + Len(a \o s) /\ w < MaxFrames * FrameLength
      BY <1>1, <2>1, <2>4
    <3>3. stream'[c] = Append(s, 1 + w \div FrameLength) /\ written'[c] = w + 1
      BY <1>1, <1>4
    <3> HIDE DEF a, s, w
    <3>4. /\ Due(a \o Append(s, 1 + w \div FrameLength), k)
          /\ Len(a \o Append(s, 1 + w \div FrameLength)) = Len(a \o s) + 1
      BY <3>1, <3>2, DueMore
    <3>5. Len(a \o s) \in Nat /\ FrameLength * k \in Nat
      BY <3>1, Joined, FrameLengths
    <3>6. w + 1 = FrameLength * k + (Len(a \o s) + 1)
      BY <3>2, <3>5
    <3> QED BY <2>1, <2>4, <3>3, <3>4, <3>6 DEF a
  <2> QED BY <2>2, <2>3, <2>4
<1>6. Frames'
  BY <1>1, <1>2, <1>5 DEF Frames, ReportsOf
<1> QED BY <1>3, <1>6 DEF FInv

(* ... or ends, and the last units are lost.                               *)
LEMMA PeerEndsFrames ==
  ASSUME IInv, FInv, NEW c \in Clients, PeerEnds(c),
         UNCHANGED <<queues, conn, mMaxID>>
  PROVE  FInv'
<1>1. PICK n \in 0 .. Len(stream[c]) : stream' = [stream EXCEPT ![c] = SubSeq(@, 1, n)]
  BY DEF PeerEnds
<1>2. peerClosed' = peerClosed \cup {c} /\ written' = [written EXCEPT ![c] = 0]
  BY DEF PeerEnds
<1>3. Pipeline' = Pipeline
  BY DEF Pipeline, queues
<1>4. FramesBefore' /\ ReportsKnown'
  BY <1>3 DEF FInv, FramesBefore, ReportsKnown
<1>5. stream \in [Clients -> Seq(Nat)] /\ written \in [Clients -> Nat]
  BY DEF IInv, Types
<1>6. ASSUME NEW d \in Clients
      PROVE  \E k \in 0 .. MaxFrames :
               /\ ReportsOf(d, k)
               /\ \/ conn[d].mClosed
                  \/ /\ Due(conn[d].mRecved \o stream'[d], k)
                     /\ \/ d \in peerClosed'
                        \/ written'[d] = FrameLength * k + Len(conn[d].mRecved \o stream'[d])
  <2>1. PICK k \in 0 .. MaxFrames :
          /\ ReportsOf(d, k)
          /\ \/ conn[d].mClosed
             \/ /\ Due(conn[d].mRecved \o stream[d], k)
                /\ \/ d \in peerClosed
                   \/ written[d] = FrameLength * k + Len(conn[d].mRecved \o stream[d])
    BY DEF FInv, Frames
  <2>2. CASE d # c
    BY <1>1, <1>2, <1>5, <2>1, <2>2
  <2>3. CASE d = c
    <3> DEFINE a == conn[c].mRecved
               s == stream[c]
    <3>1. a \in Seq(Nat) /\ s \in Seq(Nat) /\ k \in Nat /\ n \in 0 .. Len(s)
      BY <1>1, <1>5, <2>1, Ids, FrameLengths
    <3>2. stream'[c] = SubSeq(s, 1, n) /\ (conn[c].mClosed \/ Due(a \o s, k))
      BY <1>1, <1>5, <2>1, <2>3
    <3> HIDE DEF a, s
    <3>3. conn[c].mClosed \/ Due(a \o SubSeq(s, 1, n), k)
      BY <3>1, <3>2, DuePrefix
    <3> QED BY <1>2, <2>1, <2>3, <3>2, <3>3 DEF a
  <2> QED BY <2>2, <2>3
<1>7. Frames'
  BY <1>3, <1>6 DEF Frames, ReportsOf
<1> QED BY <1>4, <1>7 DEF FInv

(* A connection that is accepted gets an id no frame has been reported of. *)
LEMMA AcceptFrames ==
  ASSUME IInv, FInv, AcceptConnection
  PROVE  FInv'
<1> USE ConnectionAssumption
<1> DEFINE c == Head(mNetQueue).socket
<1>1. /\ conn' = [conn EXCEPT ![c].object = "live", ![c].mConnID = mMaxID]
      /\ mMaxID' = mMaxID + 1 /\ mNetQueue # <<>> /\ Head(mNetQueue).op = "OP_ACCEPT"
      /\ nPc = "idle" /\ UNCHANGED <<queues, peers>>
  BY DEF AcceptConnection, NextContextIs, NextIs
<1>2. c \in Clients /\ conn[c].object = "none"
  <2>1. Head(mNetQueue) \in Range(mNetQueue) /\ Head(mNetQueue) \in NetContexts
    BY <1>1, TailOfQueue DEF IInv, Types
  <2>2. c \in Clients
    BY <1>1, <2>1 DEF NetContexts
  <2> QED BY <1>1, <2>1, <2>2 DEF IInv, Accepts
<1>3. conn[c].mConnID = None /\ ~conn[c].mClosed /\ conn \in [Clients -> Object]
      /\ mMaxID \in Nat
  BY <1>2 DEF IInv, Types, Objects
<1> HIDE DEF c
<1>4. \A d \in Clients : /\ conn'[d].mRecved = conn[d].mRecved /\ conn'[d].mClosed = conn[d].mClosed
                         /\ conn'[d].mConnID = IF d = c THEN mMaxID ELSE conn[d].mConnID
  <2> DEFINE f == [conn EXCEPT ![c].object = "live"]
  <2>1. /\ f \in [Clients -> Object]
        /\ \A d \in Clients : /\ f[d].mRecved = conn[d].mRecved /\ f[d].mClosed = conn[d].mClosed
                              /\ f[d].mConnID = conn[d].mConnID
    <3>1. \A d \in Clients : f[d] = IF d = c THEN [conn[c] EXCEPT !.object = "live"] ELSE conn[d]
      BY <1>2, <1>3
    <3>2. f \in [Clients -> Object]
      <4>1. conn[c] \in Object
        BY <1>2, <1>3
      <4>2. [conn[c] EXCEPT !.object = "live"] \in Object
        BY <4>1 DEF Object
      <4> QED BY <1>2, <1>3, <4>2
    <3> HIDE DEF f
    <3>3. ASSUME NEW d \in Clients
          PROVE  /\ f[d].mRecved = conn[d].mRecved /\ f[d].mClosed = conn[d].mClosed
                 /\ f[d].mConnID = conn[d].mConnID
      <4>1. conn[d] \in Object
        BY <1>3
      <4>2. CASE d = c
        <5>1. f[d] = [conn[d] EXCEPT !.object = "live"]
          BY <3>1, <4>2
        <5> QED BY <4>1, <5>1 DEF Object
      <4>3. CASE d # c
        <5>1. f[d] = conn[d]
          BY <3>1, <4>3
        <5> QED BY <5>1
      <4> QED BY <4>2, <4>3
    <3> QED BY <3>2, <3>3
  <2>2. conn' = [f EXCEPT ![c].mConnID = mMaxID]
    BY <1>1
  <2> HIDE DEF f
  <2> QED BY <1>2, <2>1, <2>2 DEF Object
<1>5. Pipeline' = Pipeline
  BY <1>1 DEF Pipeline, queues
<1>6. FramesBefore'
  BY <1>5 DEF FInv, FramesBefore
<1>7. ReportsKnown'
  <2> SUFFICES ASSUME NEW x \in Range(Pipeline), Reported(x)
               PROVE  /\ x.conn \in 0 .. mMaxID
                      /\ IsDrop(x) => \E d \in Clients : conn'[d].mConnID = x.conn /\ conn'[d].mClosed
    BY <1>1, <1>3, <1>5 DEF ReportsKnown
  <2>1. /\ x.conn \in 0 .. mMaxID - 1
        /\ IsDrop(x) => \E d \in Clients : conn[d].mConnID = x.conn /\ conn[d].mClosed
    BY DEF FInv, ReportsKnown
  <2>2. x.conn \in 0 .. mMaxID
    BY <1>3, <2>1
  <2> QED BY <1>3, <1>4, <2>1, <2>2
<1>8. ASSUME NEW d \in Clients
      PROVE  \E k \in 0 .. MaxFrames :
               /\ ReportsOf(d, k)'
               /\ \/ conn[d].mClosed
                  \/ /\ Due(conn[d].mRecved \o stream[d], k)
                     /\ \/ d \in peerClosed
                        \/ written[d] = FrameLength * k + Len(conn[d].mRecved \o stream[d])
  <2>1. PICK k \in 0 .. MaxFrames :
          /\ ReportsOf(d, k)
          /\ \/ conn[d].mClosed
             \/ /\ Due(conn[d].mRecved \o stream[d], k)
                /\ \/ d \in peerClosed
                   \/ written[d] = FrameLength * k + Len(conn[d].mRecved \o stream[d])
    BY DEF FInv, Frames
  <2>2. ReportsOf(d, k)'
    <3>1. CASE d # c
      BY <1>4, <1>5, <2>1, <3>1 DEF ReportsOf
    <3>2. CASE d = c
      <4>1. \A id, m : Recv(id, Frame(m)) \in Range(Pipeline) => id \in 0 .. mMaxID - 1
        BY RecvFields DEF FInv, ReportsKnown
      <4>2. None \notin 0 .. mMaxID - 1 /\ mMaxID \notin 0 .. mMaxID - 1
        BY <1>3
      <4>3. ~(1 <= k)
        <5>1. 1 <= k => 1 \in 1 .. MaxFrames
          BY FrameLengths
        <5> QED BY <1>3, <2>1, <3>2, <4>1, <4>2, <5>1 DEF ReportsOf
      <4>4. \A m \in 1 .. MaxFrames : ~(m <= k)
        BY <4>3, FrameLengths
      <4>5. \A m : Recv(mMaxID, Frame(m)) \notin Range(Pipeline)
        BY <4>1, <4>2
      <4> QED BY <1>4, <1>5, <3>2, <4>4, <4>5 DEF ReportsOf
    <3> QED BY <3>1, <3>2
  <2> QED BY <2>1, <2>2
<1>9. Frames'
  BY <1>1, <1>4, <1>8 DEF Frames, peers
<1> QED BY <1>6, <1>7, <1>9 DEF FInv

(* RecvRest reports the frame that is due.                                 *)
LEMMA RecvRestFrames ==
  ASSUME IInv, FInv, RecvRest
  PROVE  FInv'
<1> DEFINE c == dConn
           a == conn[c].mRecved
           s == stream[c]
           n == FrameLength - Len(a)
           id == conn[c].mConnID
           e == Recv(id, a \o SubSeq(s, 1, n))
<1>1. /\ stream' = [stream EXCEPT ![c] = SubSeq(s, n + 1, Len(s))]
      /\ mNetQueue' = Append(mNetQueue, e) /\ mWorkerQueue' = mWorkerQueue
      /\ conn' = [conn EXCEPT ![c] = ResetRecv(@)]
      /\ Len(s) >= n
      /\ UNCHANGED <<written, peerClosed, mMaxID>>
  <2>1. c \in Clients /\ stream \in [Clients -> Seq(Nat)]
    BY Registrants DEF RecvRest, IInv, Types
  <2> QED BY <2>1 DEF RecvRest, Missing, service
<1>2. /\ c \in Clients /\ ~conn[c].mClosed /\ conn[c].object # "none"
      /\ conn \in [Clients -> Object] /\ stream \in [Clients -> Seq(Nat)]
  BY Registrants DEF RecvRest, IInv, Types, Driving
<1>3. /\ a \in Seq(Nat) /\ s \in Seq(Nat) /\ n \in 0 .. Len(s) /\ Len(a) + n = FrameLength
      /\ id \in 0 .. mMaxID - 1
  <2>1. a \in Seq(Nat) /\ s \in Seq(Nat) /\ Len(a) < FrameLength /\ id \in 0 .. mMaxID - 1
    BY <1>2, Ids
  <2> DEFINE la == Len(a)
             ls == Len(s)
  <2>2. /\ la \in Nat /\ ls \in Nat /\ FrameLength \in Nat
        /\ la < FrameLength /\ n = FrameLength - la /\ ls >= n
    <3>1. la \in Nat /\ ls \in Nat
      BY <2>1, LenProperties
    <3> QED BY <1>1, <2>1, <3>1, FrameLengths
  <2> HIDE DEF la, ls, n
  <2>3. n \in 0 .. ls /\ la + n = FrameLength
    BY <2>2
  <2> QED BY <2>1, <2>3 DEF la, ls
<1>4. \A d \in Clients : conn[d].mConnID = id => d = c
  <2>1. id \in DOMAIN mConns
    BY <1>2 DEF IInv, Types, Objects, Object
  <2> QED BY <1>2, <2>1 DEF IInv, Table
<1>5. PICK k \in 0 .. MaxFrames :
        /\ ReportsOf(c, k)
        /\ Due(a \o s, k)
        /\ c \in peerClosed \/ written[c] = FrameLength * k + Len(a \o s)
  BY <1>2 DEF FInv, Frames
<1> DEFINE r == SubSeq(s, n + 1, Len(s))
<1>6. /\ k + 1 \in 1 .. MaxFrames
      /\ e = Recv(id, Frame(k + 1))
      /\ Due(r, k + 1) /\ r \in Seq(Nat)
      /\ FrameLength * (k + 1) + Len(r) = FrameLength * k + Len(a \o s)
  <2>1. k \in Nat
    BY <1>5, FrameLengths
  <2> HIDE DEF a, s, n, id, c
  <2>2. /\ k + 1 \in 1 .. MaxFrames
        /\ a \o SubSeq(s, 1, n) = Frame(k + 1)
        /\ SubSeq(s, n + 1, Len(s)) \in Seq(Nat)
        /\ Due(SubSeq(s, n + 1, Len(s)), k + 1)
        /\ FrameLength * (k + 1) + Len(SubSeq(s, n + 1, Len(s))) = FrameLength * k + Len(a \o s)
    BY <1>3, <1>5, <2>1, DueTaken
  <2> QED BY <2>2
<1>7. /\ stream'[c] = r /\ conn'[c].mRecved = <<>> /\ conn'[c].mClosed = conn[c].mClosed
      /\ conn'[c].mConnID = id
      /\ \A d \in Clients \ {c} : stream'[d] = stream[d] /\ conn'[d] = conn[d]
  BY <1>1, <1>2 DEF ResetRecv, Object
<1>8. conn'[c].mRecved \o stream'[c] = r
  BY <1>6, <1>7
<1>9. OneMoreReport(Pipeline', Pipeline, e)
  BY <1>1, PipelineGrows
<1>10. e.conn = id /\ IsRecv(e) /\ Reported(e) /\ ~IsDrop(e)
  BY RecvFields
<1>11. \A d, m : Recv(d, m).conn = d /\ IsRecv(Recv(d, m)) /\ Reported(Recv(d, m))
  BY RecvFields
<1> HIDE DEF c, a, s, n, id, e, r
<1>12. \A x : Reported(x) => (x \in Range(Pipeline') <=> x \in Range(Pipeline) \/ x = e)
  BY <1>9 DEF OneMoreReport
<1>13. \A x, y : Reported(x) /\ Reported(y) =>
         (Before(Pipeline', x, y) <=> Before(Pipeline, x, y) \/ (x \in Range(Pipeline) /\ y = e))
  BY <1>9 DEF OneMoreReport
<1>14. e \notin Range(Pipeline)
  <2>1. k + 1 \in 1 .. MaxFrames /\ ~(k + 1 <= k)
    BY <1>5, <1>6, FrameLengths
  <2> QED BY <1>5, <1>6, <2>1 DEF ReportsOf, id
<1>15. ASSUME NEW d \in Clients
       PROVE  \E j \in 0 .. MaxFrames :
                /\ \A m \in 1 .. MaxFrames :
                     Recv(conn'[d].mConnID, Frame(m)) \in Range(Pipeline') <=> m <= j
                /\ \/ conn'[d].mClosed
                   \/ /\ Due(conn'[d].mRecved \o stream'[d], j)
                      /\ \/ d \in peerClosed
                         \/ written[d] = FrameLength * j + Len(conn'[d].mRecved \o stream'[d])
  <2>1. CASE d # c
    <3>1. PICK j \in 0 .. MaxFrames :
            /\ ReportsOf(d, j)
            /\ \/ conn[d].mClosed
               \/ /\ Due(conn[d].mRecved \o stream[d], j)
                  /\ \/ d \in peerClosed
                     \/ written[d] = FrameLength * j + Len(conn[d].mRecved \o stream[d])
      BY DEF FInv, Frames
    <3>2. conn[d].mConnID # id /\ conn'[d] = conn[d] /\ stream'[d] = stream[d]
      BY <1>4, <1>7, <2>1
    <3>3. \A m \in 1 .. MaxFrames : Recv(conn[d].mConnID, Frame(m)) # e
      BY <1>10, <1>11, <3>2
    <3>4. \A m \in 1 .. MaxFrames :
            Recv(conn'[d].mConnID, Frame(m)) \in Range(Pipeline') <=> m <= j
      BY <1>11, <1>12, <3>1, <3>2, <3>3 DEF ReportsOf
    <3> QED BY <3>1, <3>2, <3>4
  <2>2. CASE d = c
    <3>1. \A m \in 1 .. MaxFrames : Recv(id, Frame(m)) \in Range(Pipeline') <=> m <= k + 1
      <4> SUFFICES ASSUME NEW m \in 1 .. MaxFrames
                   PROVE  Recv(id, Frame(m)) \in Range(Pipeline') <=> m <= k + 1
        OBVIOUS
      <4>1. Recv(id, Frame(m)) \in Range(Pipeline) <=> m <= k
        BY <1>5 DEF ReportsOf, id
      <4>2. Recv(id, Frame(m)) = e <=> m = k + 1
        <5>1. Recv(id, Frame(m)).msg = Frame(m) /\ Recv(id, Frame(k + 1)).msg = Frame(k + 1)
          BY RecvFields
        <5> QED BY <1>6, <5>1, FramesDiffer
      <4>3. m <= k + 1 <=> m <= k \/ m = k + 1
        BY <1>5, FrameLengths
      <4> QED BY <1>11, <1>12, <4>1, <4>2, <4>3
    <3>2. \A m \in 1 .. MaxFrames :
            Recv(conn'[c].mConnID, Frame(m)) \in Range(Pipeline') <=> m <= k + 1
      BY <1>7, <3>1
    <3>3. k + 1 \in 0 .. MaxFrames
      BY <1>6, FrameLengths
    <3>4. Due(conn'[c].mRecved \o stream'[c], k + 1)
          /\ (c \in peerClosed
                \/ written[c] = FrameLength * (k + 1) + Len(conn'[c].mRecved \o stream'[c]))
      BY <1>5, <1>6, <1>8
    <3> QED BY <2>2, <3>2, <3>3, <3>4
  <2> QED BY <2>1, <2>2
<1>16. Frames'
  BY <1>1, <1>15 DEF Frames, ReportsOf
<1>17. FramesBefore'
  <2> SUFFICES ASSUME NEW x \in Range(Pipeline'), IsRecv(x)
               PROVE  \E i \in 1 .. MaxFrames :
                        /\ x = Recv(x.conn, Frame(i))
                        /\ \A m \in 1 .. i - 1 : Before(Pipeline', Recv(x.conn, Frame(m)), x)
                        /\ \A y : Reported(y) /\ y.conn = x.conn /\ Before(Pipeline', y, x)
                                    => \E m \in 1 .. i - 1 : y = Recv(x.conn, Frame(m))
    BY DEF FramesBefore
  <2>1. Reported(x)
    BY DEF Reported
  <2>2. CASE x # e
    <3>1. x \in Range(Pipeline) /\ \A y : Reported(y) => (Before(Pipeline', y, x) <=> Before(Pipeline, y, x))
      BY <1>12, <1>13, <2>1, <2>2
    <3>2. PICK i \in 1 .. MaxFrames :
            /\ x = Recv(x.conn, Frame(i))
            /\ \A m \in 1 .. i - 1 : Before(Pipeline, Recv(x.conn, Frame(m)), x)
            /\ \A y : Reported(y) /\ y.conn = x.conn /\ Before(Pipeline, y, x)
                        => \E m \in 1 .. i - 1 : y = Recv(x.conn, Frame(m))
      BY <3>1 DEF FInv, FramesBefore
    <3> QED BY <1>11, <3>1, <3>2
  <2>3. CASE x = e
    <3>1. \A y : Reported(y) => (Before(Pipeline', y, e) <=> y \in Range(Pipeline))
      <4>1. \A y : Before(Pipeline, y, e) => e \in Range(Pipeline)
        BY BeforeIsInQueue
      <4> QED BY <1>10, <1>13, <1>14, <4>1
    <3>2. \A m \in 1 .. k : m \in 1 .. MaxFrames /\ m <= k
      BY <1>5, FrameLengths
    <3>3. \A m \in 1 .. k : Before(Pipeline', Recv(id, Frame(m)), e)
      BY <1>5, <1>11, <3>1, <3>2 DEF ReportsOf, id
    <3>4. ASSUME NEW y, Reported(y), y.conn = id, y \in Range(Pipeline)
          PROVE  \E m \in 1 .. k : y = Recv(id, Frame(m))
      <4>1. ~IsDrop(y)
        BY <1>2, <1>4, <3>4 DEF FInv, ReportsKnown
      <4>2. PICK m \in 1 .. MaxFrames : y = Recv(id, Frame(m))
        BY <3>4, <4>1 DEF FInv, FramesBefore, Reported
      <4>3. m <= k
        BY <1>5, <3>4, <4>2 DEF ReportsOf, id
      <4>4. m \in 1 .. k
        BY <1>5, <4>3, FrameLengths
      <4> QED BY <4>2, <4>4
    <3>5. k + 1 \in 1 .. MaxFrames /\ (k + 1) - 1 = k
      BY <1>5, <1>6, FrameLengths
    <3> QED BY <1>6, <1>10, <2>3, <3>1, <3>3, <3>4, <3>5
  <2> QED BY <2>2, <2>3
<1>18. ReportsKnown'
  <2> SUFFICES ASSUME NEW x \in Range(Pipeline'), Reported(x)
               PROVE  /\ x.conn \in 0 .. mMaxID - 1
                      /\ IsDrop(x) => \E d \in Clients : conn'[d].mConnID = x.conn /\ conn'[d].mClosed
    BY <1>1 DEF ReportsKnown
  <2>1. CASE x = e
    BY <1>3, <1>10, <2>1
  <2>2. CASE x # e
    <3>1. x \in Range(Pipeline)
      BY <1>12, <2>2
    <3>2. \A d \in Clients : conn'[d].mConnID = conn[d].mConnID /\ conn'[d].mClosed = conn[d].mClosed
      BY <1>7 DEF id
    <3> QED BY <3>1, <3>2 DEF FInv, ReportsKnown
  <2> QED BY <2>1, <2>2
<1> QED BY <1>16, <1>17, <1>18 DEF FInv

LEMMA InductiveFInv == IInv /\ FInv /\ [Next]_vars => FInv'
<1> SUFFICES ASSUME IInv, FInv, [Next]_vars
             PROVE  FInv'
  OBVIOUS
<1>1. CASE Next
  <2>1. CASE Environment
    <3>1. ASSUME NEW c \in Clients, PeerSends(c) \/ PeerEnds(c)
          PROVE  FInv'
      <4>1. sends' = sends /\ sends \in Nat
        BY <3>1 DEF PeerSends, PeerEnds, IInv, Types
      <4>2. \A id \in 0 .. mMaxID : ~WorkerSends(id)
        BY <4>1 DEF WorkerSends
      <4>3. UNCHANGED <<queues, conn, mMaxID>>
        BY <2>1, <4>2 DEF Environment, service
      <4> QED BY <3>1, <4>3, PeerSendsFrames, PeerEndsFrames
    <3>2. CASE \A c \in Clients : ~PeerSends(c) /\ ~PeerEnds(c)
      BY <2>1, <3>2, QuietEnvironment, QuietFrames
    <3> QED BY <3>1, <3>2
  <2>2. CASE DriverStep
    <3>1. CASE RecvRest
      BY <3>1, RecvRestFrames
    <3>2. CASE ~RecvRest
      BY <1>1, <2>2, <3>2, QuietDriver, QuietFrames DEF Next
    <3> QED BY <3>1, <3>2
  <2>3. CASE ServiceStep
    <3>1. CASE AcceptConnection
      BY <3>1, AcceptFrames
    <3>2. CASE ~AcceptConnection
      BY <1>1, <2>3, <3>2, QuietService, QuietFrames DEF Next
    <3> QED BY <3>1, <3>2
  <2> QED BY <1>1, <2>1, <2>2, <2>3 DEF Next
<1>2. CASE UNCHANGED vars
  <2>1. /\ conn' = conn /\ stream' = stream /\ written' = written /\ peerClosed' = peerClosed
        /\ mMaxID' = mMaxID /\ Pipeline' = Pipeline
    BY <1>2 DEF vars, queues, peers, service, Pipeline
  <2>2. Frames'
    BY <2>1 DEF FInv, Frames, ReportsOf
  <2>3. FramesBefore' /\ ReportsKnown'
    BY <2>1 DEF FInv, FramesBefore, ReportsKnown
  <2> QED BY <2>2, <2>3 DEF FInv
<1> QED BY <1>1, <1>2

LEMMA InitFInv == Init => FInv
<1> SUFFICES ASSUME Init
             PROVE  FInv
  OBVIOUS
<1>1. Range(Pipeline) = {}
  <2>1. Pipeline = <<>>
    BY DEF Init, Pipeline
  <2> QED BY <2>1 DEF Range
<1>2. FramesBefore /\ ReportsKnown
  BY <1>1 DEF FramesBefore, ReportsKnown
<1>3. 0 \in 0 .. MaxFrames /\ \A m \in 1 .. MaxFrames : ~(m <= 0)
  BY FrameLengths
<1>4. \A c \in Clients : conn[c].mRecved = <<>> /\ stream[c] = <<>> /\ written[c] = 0
  BY DEF Init, NoConnection
<1>5. <<>> \o <<>> = <<>> /\ Len(<<>>) = 0
  OBVIOUS
<1>6. FrameLength * 0 + 0 = 0 /\ 0 <= FrameLength * MaxFrames
  BY FrameLengths
<1>7. Due(<<>>, 0)
  BY <1>5, <1>6 DEF Due
<1>8. Frames
  BY <1>1, <1>3, <1>4, <1>5, <1>6, <1>7 DEF Frames, ReportsOf
<1> QED BY <1>2, <1>8 DEF FInv

(* A frame is where FramesBefore says, and nowhere else.                   *)
LEMMA FramesAreIntact == IInv /\ FInv => FramesIntact
<1> SUFFICES ASSUME IInv, FInv
             PROVE  FramesIntact
  OBVIOUS
<1> DEFINE P == Pipeline
<1>1. IsQueue(P)
  BY Queues, ConcatOfQueues DEF Pipeline
<1>2. Len(P) \in Nat /\ DOMAIN P = 1 .. Len(P)
  BY <1>1, QueueDomain
<1> SUFFICES ASSUME NEW i \in DOMAIN P, P[i].op = "OP_RECV"
             PROVE  LET id == P[i].conn
                        earlier == {j \in 1 .. i - 1 : P[j].op \in {"OP_RECV", "OP_DROP"}
                                                         /\ P[j].conn = id}
                    IN  \E n \in 1 .. MaxFrames :
                          /\ P[i] = Recv(id, Frame(n))
                          /\ {P[j] : j \in earlier} = {Recv(id, Frame(m)) : m \in 1 .. n - 1}
  BY DEF FramesIntact
<1> DEFINE x == P[i]
           id == x.conn
           earlier == {j \in 1 .. i - 1 : P[j].op \in {"OP_RECV", "OP_DROP"} /\ P[j].conn = id}
<1>3. x \in Range(P) /\ IsRecv(x)
  BY DEF Range, IsRecv
<1>4. PICK n \in 1 .. MaxFrames :
        /\ x = Recv(id, Frame(n))
        /\ \A m \in 1 .. n - 1 : Before(P, Recv(id, Frame(m)), x)
        /\ \A y : Reported(y) /\ y.conn = id /\ Before(P, y, x)
                    => \E m \in 1 .. n - 1 : y = Recv(id, Frame(m))
  BY <1>3 DEF FInv, FramesBefore
<1> HIDE DEF P, x, id
<1>5. \A m \in 1 .. n - 1 : Recv(id, Frame(m)) # x
  <2> SUFFICES ASSUME NEW m \in 1 .. n - 1, Recv(id, Frame(m)) = x
               PROVE  FALSE
    OBVIOUS
  <2>1. Recv(id, Frame(m)).msg = Frame(m) /\ Recv(id, Frame(n)).msg = Frame(n)
    BY RecvFields
  <2>2. m = n
    BY <1>4, <2>1, FramesDiffer
  <2>3. m <= n - 1 /\ n \in Int
    BY FrameLengths
  <2> QED BY <2>2, <2>3
<1>6. ~Before(P, x, x)
  BY <1>3, <1>4, <1>5, RecvFields DEF Reported
<1>7. \A j \in DOMAIN P : P[j] = x => j = i
  <2> SUFFICES ASSUME NEW j \in DOMAIN P, P[j] = x, j # i
               PROVE  FALSE
    OBVIOUS
  <2>1. i < j \/ j < i
    BY <1>2
  <2>2. P[i] = x
    BY DEF x
  <2> QED BY <1>6, <2>1, <2>2 DEF Before
<1>8. ASSUME NEW j \in earlier
      PROVE  P[j] \in {Recv(id, Frame(m)) : m \in 1 .. n - 1}
  <2>1. j \in DOMAIN P /\ j < i
    BY <1>2
  <2>2. Before(P, P[j], x)
    BY <2>1 DEF Before, x
  <2>3. Reported(P[j]) /\ P[j].conn = id
    BY DEF Reported, IsRecv, IsDrop
  <2> QED BY <1>4, <2>2, <2>3
<1>9. ASSUME NEW m \in 1 .. n - 1
      PROVE  Recv(id, Frame(m)) \in {P[j] : j \in earlier}
  <2>1. PICK j \in DOMAIN P, l \in DOMAIN P : j < l /\ P[j] = Recv(id, Frame(m)) /\ P[l] = x
    BY <1>4 DEF Before
  <2>2. l = i
    BY <1>7, <2>1
  <2>3. j \in 1 .. i - 1
    BY <1>2, <2>1, <2>2
  <2>4. P[j].op = "OP_RECV" /\ P[j].conn = id
    BY <2>1, RecvFields DEF IsRecv
  <2>5. j \in earlier
    BY <2>3, <2>4
  <2> QED BY <2>1, <2>5
<1>10. {P[j] : j \in earlier} = {Recv(id, Frame(m)) : m \in 1 .. n - 1}
  BY <1>8, <1>9
<1> QED BY <1>4, <1>10 DEF x, id

(* However a stream is cut into pieces and the threads take turns, every   *)
(* frame is handed on once, whole, behind the frames before it and never   *)
(* behind the drop of its connection.                                      *)
THEOREM FramesAlwaysIntact == Spec => []FramesIntact
<1>1. Spec => []IInv
  BY InitIInv, InductiveIInv, PTL DEF Spec
<1>2. IInv /\ FInv /\ [Next]_vars => FInv'
  BY InductiveFInv
<1>3. Spec => []FInv
  BY <1>1, <1>2, InitFInv, PTL DEF Spec
<1> QED BY <1>1, <1>3, FramesAreIntact, PTL

-----------------------------------------------------------------------------
(* The driver takes the message the NetService is about to write, or the   *)
(* NetService finds it there.                                              *)
TakenOnce ==
  ended = "no" =>
    /\ taken => nPc = "write"
    /\ nPc = "write" =>
         LET c == mConns[Head(mNetQueue).conn] IN
         IF taken THEN ~HasMessage(c)
         ELSE ~conn[c].mClosed => conn[c].mToSendMsg = <<Head(mNetQueue).msg>>

(* What the two threads know of a handler that is not done.                *)
AInv == IInv /\ Unsent /\ MInv /\ FInv /\ TakenOnce

(* What NetService sees does not change.                                   *)
SeenStays ==
  /\ QueueSeen' = QueueSeen /\ mWorkerQueue' = mWorkerQueue
  /\ ConnsSeen' = ConnsSeen /\ mMaxID' = mMaxID /\ LateDrops' = LateDrops
  /\ (ended' = "sigpipe") = (ended = "sigpipe")
  /\ FramesSeen' = FramesSeen /\ MessagesSeen' = MessagesSeen
  /\ backlog' = backlog /\ peerClosed' = peerClosed

LEMMA NothingSeen ==
  ASSUME SeenStays
  PROVE  UNCHANGED <<Net!netVars, Net!queues>>
BY DEF SeenStays, Net!netVars, Net!queues

LEMMA ConnsStay ==
  ASSUME IInv, mConns' = mConns, \A c \in Clients : ClosedBefore(c)' = ClosedBefore(c)
  PROVE  ConnsSeen' = ConnsSeen
<1>1. \A id \in DOMAIN mConns : mConns[id] \in Clients
  BY Registrants
<1> QED BY <1>1 DEF ConnsSeen

LEMMA FramesStay ==
  ASSUME \A c \in Clients :
           /\ conn'[c].mClosed = conn[c].mClosed
           /\ \/ conn[c].mClosed
              \/ conn'[c].mRecved \o stream'[c] = conn[c].mRecved \o stream[c]
  PROVE  FramesSeen' = FramesSeen
BY DEF FramesSeen, FramesOf

(* The driver moves on, or the process ends, and nobody sees it.           *)
LEMMA DriverMovesOn ==
  ASSUME IInv, ended = "no", ended' # "sigpipe", dPc # "unregister", dPc' # "unregister",
         UNCHANGED <<queues, peers, received, conn, service>>,
         dPc # "read" \/ ~conn[dConn].mClosed \/ UNCHANGED driver,
         dPc' # "read" \/ ~conn[dConn'].mClosed \/ UNCHANGED driver
  PROVE  SeenStays
<1>1. QueueSeen' = QueueSeen
  BY DEF QueueSeen, HeadIsDone, queues, service
<1>2. ConnsSeen' = ConnsSeen
  <2>1. \A c \in Clients : ClosedBefore(c)' = ClosedBefore(c)
    BY DEF ClosedBefore
  <2> QED BY <2>1, ConnsStay DEF service
<1>3. LateDrops' = LateDrops
  BY DEF LateDrops, driver
<1>4. FramesSeen' = FramesSeen
  BY FramesStay DEF peers
<1>5. MessagesSeen' = MessagesSeen
  BY DEF MessagesSeen, MessagesOf
<1> QED BY <1>1, <1>2, <1>3, <1>4, <1>5 DEF SeenStays, queues, peers, service

LEMMA LoopUnseen ==
  ASSUME IInv, ended = "no", Poll \/ Dispatch \/ EnterReadData
  PROVE  SeenStays
<1>1. /\ UNCHANGED <<queues, peers, received, conn, service>>
      /\ ended' = ended /\ dPc \in {"loop", "read"} /\ dPc' # "unregister"
  BY DEF Poll, Dispatch, EnterReadData, Kinds, IInv, Types
<1>2. CASE Poll
  BY <1>1, <1>2, DriverMovesOn DEF Poll
<1>3. CASE EnterReadData
  <2>1. ~conn[dConn].mClosed /\ dPc' # "read"
    BY <1>3 DEF EnterReadData
  <2> QED BY <1>1, <2>1, DriverMovesOn
<1>4. CASE Dispatch
  <2>1. PICK e \in active : dPc' = e[2] /\ dConn' = mEventsInfo[e[1]][e[2]]
    BY <1>4 DEF Dispatch
  <2>2. dPc = "loop"
    BY <1>4 DEF Dispatch
  <2>3. dConn' \in Clients /\ conn[dConn'].fd \in Fds /\ e[2] \in Kinds
    BY <2>1, ActivesAreRegistered
  <2>4. ~conn[dConn'].mClosed
    BY <2>2, <2>3, ConnectionAssumption DEF IInv, Objects
  <2> QED BY <1>1, <2>1, <2>2, <2>3, <2>4, DriverMovesOn DEF Kinds
<1> QED BY <1>2, <1>3, <1>4

(* What is appended to the queue is appended to what is seen of it.        *)
LEMMA QueueSeenGrows ==
  ASSUME IInv, TakenOnce, ended = "no", NEW e, mNetQueue' = Append(mNetQueue, e),
         nPc' = nPc, taken' = taken
  PROVE  QueueSeen' = Append(QueueSeen, e)
<1>1. CASE HeadIsDone
  <2>1. mNetQueue # <<>> /\ IsQueue(mNetQueue)
    BY <1>1, Registrants DEF HeadIsDone, TakenOnce, IInv, Types
  <2>2. mNetQueue \in Seq(Range(mNetQueue) \cup {e})
    BY <2>1, SeqMonotonic DEF IsQueue
  <2>3. Tail(Append(mNetQueue, e)) = Append(Tail(mNetQueue), e)
    BY <2>1, <2>2, HeadTailAppend
  <2> QED BY <1>1, <2>3 DEF QueueSeen, HeadIsDone
<1>2. CASE ~HeadIsDone
  BY <1>2 DEF QueueSeen, HeadIsDone
<1> QED BY <1>1, <1>2

LEMMA ConnSeen ==
  ASSUME IInv, NEW c \in Clients, conn[c].object = "live"
  PROVE  /\ conn[c].mConnID \in DOMAIN mConns /\ mConns[conn[c].mConnID] = c
         /\ DOMAIN ConnsSeen = DOMAIN mConns
         /\ ConnsSeen[conn[c].mConnID] =
              [socket |-> c, state |-> IF ClosedBefore(c) THEN "closed" ELSE "open"]
<1>1. conn[c].mConnID \in DOMAIN mConns /\ mConns[conn[c].mConnID] = c
  BY DEF IInv, Objects, Table
<1> QED BY <1>1 DEF ConnsSeen

LEMMA ConnsClose ==
  ASSUME IInv, mConns' = mConns, NEW c \in Clients, conn[c].object = "live", ClosedBefore(c)',
         \A d \in Clients \ {c} : ClosedBefore(d)' = ClosedBefore(d)
  PROVE  ConnsSeen' = [ConnsSeen EXCEPT ![conn[c].mConnID].state = "closed"]
<1> DEFINE id == conn[c].mConnID
<1>1. /\ id \in DOMAIN mConns /\ mConns[id] = c
      /\ ConnsSeen[id] = [socket |-> c, state |-> IF ClosedBefore(c) THEN "closed" ELSE "open"]
  BY ConnSeen
<1>2. \A i \in DOMAIN mConns : mConns[i] \in Clients /\ conn[mConns[i]].mConnID = i
  BY Registrants
<1>3. \A i \in DOMAIN mConns \ {id} : mConns[i] \in Clients \ {c}
  BY <1>2
<1> HIDE DEF id
<1>4. ConnsSeen' = [i \in DOMAIN mConns |->
                      [socket |-> mConns[i],
                       state  |-> IF ClosedBefore(mConns[i])' THEN "closed" ELSE "open"]]
  BY DEF ConnsSeen
<1>5. \A i \in DOMAIN mConns \ {id} : ConnsSeen'[i] = ConnsSeen[i]
  BY <1>3, <1>4 DEF ConnsSeen
<1>6. ConnsSeen'[id] = [ConnsSeen[id] EXCEPT !.state = "closed"]
  BY <1>1, <1>4
<1>7. /\ DOMAIN ConnsSeen' = DOMAIN mConns /\ DOMAIN ConnsSeen = DOMAIN mConns
      /\ ConnsSeen' = [i \in DOMAIN ConnsSeen' |-> ConnsSeen'[i]]
  BY <1>4 DEF ConnsSeen
<1>8. ConnsSeen' = [ConnsSeen EXCEPT ![id].state = "closed"]
  BY <1>5, <1>6, <1>7
<1> QED BY <1>8 DEF id

(* The first units of a frame are not a frame.                             *)
LEMMA NoFrameYet ==
  ASSUME NEW u \in Seq(Nat), Len(u) < FrameLength
  PROVE  FramesOf(u) = <<>>
<1>1. Len(u) \div FrameLength = 0
  <2>1. Len(u) \in Nat
    OBVIOUS
  <2> QED BY <2>1, FrameLengths, Quotients
<1> QED BY <1>1 DEF FramesOf

LEMMA EndsUnseen ==
  ASSUME IInv, ended = "no", UnRegistAborts \/ Crash
  PROVE  SeenStays
<1>1. /\ UNCHANGED <<queues, peers, received, conn, driver, service>>
      /\ ended' # "sigpipe"
  BY DEF UnRegistAborts, Crash
<1>2. QueueSeen' = QueueSeen
  BY <1>1 DEF QueueSeen, HeadIsDone, queues, service
<1>3. ConnsSeen' = ConnsSeen
  <2>1. \A c \in Clients : ClosedBefore(c)' = ClosedBefore(c)
    BY <1>1 DEF ClosedBefore, driver
  <2> QED BY <1>1, <2>1, ConnsStay DEF service
<1>4. LateDrops' = LateDrops
  BY <1>1 DEF LateDrops, driver
<1>5. FramesSeen' = FramesSeen
  BY <1>1, FramesStay DEF peers
<1>6. MessagesSeen' = MessagesSeen
  BY <1>1 DEF MessagesSeen, MessagesOf
<1> QED BY <1>1, <1>2, <1>3, <1>4, <1>5, <1>6 DEF SeenStays, queues, peers, service

(* A socket accepted.                                                      *)
LEMMA AcceptSocketSeen ==
  ASSUME IInv, TakenOnce, ended = "no", NEW c \in Clients, AcceptSocket(c)
  PROVE  Net!AcceptSocket(c)
<1>1. /\ dPc = "loop" /\ c \in backlog /\ backlog' = backlog \ {c}
      /\ mNetQueue' = Append(mNetQueue, Accept(c)) /\ mWorkerQueue' = mWorkerQueue
      /\ UNCHANGED <<stream, peerClosed, received, nPc, taken, mConns, mMaxID, dPc, dConn, ended>>
  BY DEF AcceptSocket, driver, service
<1>2. PICK fd \in Fds : conn' = [conn EXCEPT ![c].fd = fd]
  BY DEF AcceptSocket
<1>3. \A d \in Clients : conn'[d].mClosed = conn[d].mClosed /\ conn'[d].mRecved = conn[d].mRecved
  BY <1>2 DEF IInv, Types, Object
<1>4. QueueSeen' = Append(QueueSeen, Accept(c))
  BY <1>1, QueueSeenGrows
<1>5. ConnsSeen' = ConnsSeen
  <2>1. \A d \in Clients : ClosedBefore(d)' = ClosedBefore(d)
    BY <1>1, <1>3 DEF ClosedBefore
  <2> QED BY <1>1, <2>1, ConnsStay
<1>6. LateDrops' = LateDrops
  BY <1>1 DEF LateDrops
<1>7. FramesSeen' = FramesSeen
  BY <1>1, <1>3, FramesStay
<1>8. MessagesSeen' = MessagesSeen
  BY <1>1 DEF MessagesSeen, MessagesOf
<1>9. Net!Accept(c) = Accept(c)
  BY DEF Net!Accept, Accept
<1> QED BY <1>1, <1>4, <1>5, <1>6, <1>7, <1>8, <1>9 DEF Net!AcceptSocket, Net!wires

(* A length refused, and the rest of the closing, which nobody is told of. *)
LEMMA RefuseLengthSeen ==
  ASSUME IInv, RefuseLength
  PROVE  \E id \in DOMAIN mConns : Net!ReadData(id)
<1> DEFINE id == conn[dConn].mConnID
<1>1. /\ dPc = "header" /\ dPc' = "refuse" /\ dConn' = dConn
      /\ stream' = [stream EXCEPT ![dConn] = <<>>]
      /\ conn' = [conn EXCEPT ![dConn].mClosed = TRUE, ![dConn].refused = TRUE]
      /\ UNCHANGED <<queues, received, backlog, peerClosed, service, ended>>
  BY DEF RefuseLength
<1>2. PICK c \in Clients : c = dConn
  BY <1>1, Registrants
<1>3. /\ ~conn[c].mClosed /\ conn[c].object = "live"
      /\ conn \in [Clients -> Object] /\ stream \in [Clients -> Seq(Nat)]
  <2>1. conn[c] \in Object /\ ~conn[c].mClosed /\ conn[c].object = "live"
    BY <1>1, <1>2, Registrants, SMTT(30) DEF RefuseLength, IInv, Types, Driving, Objects, Object
  <2> QED BY <2>1 DEF IInv, Types
<1>4. /\ conn'[c].mClosed
      /\ \A d \in Clients \ {c} : conn'[d] = conn[d] /\ stream'[d] = stream[d]
  BY <1>1, <1>2, <1>3 DEF Object
<1>5. /\ id \in DOMAIN mConns
      /\ ConnsSeen[id] = [socket |-> c, state |-> "open"]
      /\ ConnsSeen' = [ConnsSeen EXCEPT ![id].state = "closed"]
  <2>1. \A d \in Clients \ {c} : ClosedBefore(d)' = ClosedBefore(d)
    BY <1>1, <1>4 DEF ClosedBefore
  <2>2. ClosedBefore(c)' /\ ~ClosedBefore(c)
    BY <1>1, <1>3, <1>4 DEF ClosedBefore
  <2>3. mConns' = mConns
    BY <1>1 DEF service
  <2> QED BY <1>2, <1>3, <2>1, <2>2, <2>3, ConnSeen, ConnsClose
<1>6. FramesSeen' = [FramesSeen EXCEPT ![c] = <<>>]
  <2>1. FramesSeen'[c] = <<>> /\ \A d \in Clients \ {c} : FramesSeen'[d] = FramesSeen[d]
    BY <1>4 DEF FramesSeen, FramesOf
  <2> QED BY <2>1 DEF FramesSeen
<1>7. QueueSeen' = QueueSeen
  BY <1>1 DEF QueueSeen, HeadIsDone, queues, service
<1>8. LateDrops' = LateDrops
  BY <1>1 DEF LateDrops
<1>9. MessagesSeen' = MessagesSeen
  BY <1>1 DEF MessagesSeen, MessagesOf
<1> HIDE DEF id
<1>10. Net!ReadRejected(id)
  BY <1>1, <1>5, <1>6, <1>7, <1>8, <1>9 DEF Net!ReadRejected, Net!Close, Net!queues, queues, service
<1> QED BY <1>5, <1>10 DEF Net!ReadData

LEMMA UnRegistSilentlyUnseen ==
  ASSUME IInv, ended = "no", UnRegistSilently
  PROVE  SeenStays
<1>1. /\ dPc = "refuse" /\ dPc' = "loop"
      /\ conn' = [conn EXCEPT ![dConn] = Closed(@)]
      /\ UNCHANGED <<queues, peers, received, service, ended>>
  BY DEF UnRegistSilently, BackToLoop
<1>2. PICK c \in Clients : c = dConn
  BY <1>1, Registrants
<1>3. conn[c].mClosed /\ conn \in [Clients -> Object]
  BY <1>1, <1>2 DEF IInv, Types, Driving
<1>4. \A d \in Clients : /\ conn'[d].mClosed = conn[d].mClosed
                         /\ d # c => conn'[d] = conn[d]
  <2>1. Closed(conn[c]).mClosed
    BY <1>3 DEF Closed, Object
  <2> QED BY <1>1, <1>2, <1>3, <2>1
<1>5. ConnsSeen' = ConnsSeen
  <2>1. \A d \in Clients : ClosedBefore(d)' = ClosedBefore(d)
    BY <1>1, <1>4 DEF ClosedBefore
  <2> QED BY <1>1, <2>1, ConnsStay DEF service
<1>6. FramesSeen' = FramesSeen
  <2>1. \A d \in Clients : conn[d].mClosed \/ conn'[d].mRecved \o stream'[d] = conn[d].mRecved \o stream[d]
    BY <1>1, <1>3, <1>4 DEF peers
  <2> QED BY <1>4, <2>1, FramesStay
<1>7. QueueSeen' = QueueSeen
  BY <1>1 DEF QueueSeen, HeadIsDone, queues, service
<1>8. LateDrops' = LateDrops
  BY <1>1 DEF LateDrops
<1>9. MessagesSeen' = MessagesSeen
  BY <1>1 DEF MessagesSeen, MessagesOf
<1> QED BY <1>1, <1>5, <1>6, <1>7, <1>8, <1>9 DEF SeenStays, queues, peers, service

LEMMA EndOfStreamUnseen ==
  ASSUME IInv, EndOfStream
  PROVE  SeenStays
<1>1. /\ dPc \in {"header", "body"} /\ dPc' = "unregister" /\ dConn' = dConn
      /\ stream' = [stream EXCEPT ![dConn] = <<>>]
      /\ conn' = [conn EXCEPT ![dConn].mClosed = TRUE]
      /\ UNCHANGED <<queues, received, backlog, peerClosed, service, ended>>
  BY DEF EndOfStream
<1>2. /\ dConn \in Clients /\ ~conn[dConn].mClosed
      /\ dPc = "header" => conn[dConn].mRecved = <<>>
      /\ conn \in [Clients -> Object] /\ stream \in [Clients -> Seq(Nat)]
  BY <1>1, Registrants DEF IInv, Types, Driving
<1>3. /\ \A c \in Clients \ {dConn} : conn'[c] = conn[c] /\ stream'[c] = stream[c]
      /\ conn'[dConn].mClosed
  BY <1>1, <1>2 DEF Object
<1>4. ConnsSeen' = ConnsSeen
  <2>1. \A c \in Clients : ClosedBefore(c)' = ClosedBefore(c)
    BY <1>1, <1>2, <1>3 DEF ClosedBefore
  <2> QED BY <1>1, <2>1, ConnsStay DEF service
<1>5. FramesSeen' = FramesSeen
  <2> DEFINE u == conn[dConn].mRecved \o stream[dConn]
  <2>1. u \in Seq(Nat) /\ Len(u) < FrameLength
    <3>1. /\ conn[dConn].mRecved \in Seq(Nat) /\ stream[dConn] \in Seq(Nat)
          /\ Len(conn[dConn].mRecved) < FrameLength
      BY <1>2, Ids
    <3>2. u \in Seq(Nat) /\ Len(u) = Len(conn[dConn].mRecved) + Len(stream[dConn])
      BY <3>1, Joined
    <3>3. Len(<<>>) = 0 /\ HEAD_LENGTH < FrameLength
      BY ConnectionAssumption DEF FrameLength
    <3>4. dPc = "header" => conn[dConn].mRecved = <<>> /\ Len(stream[dConn]) < HEAD_LENGTH
      BY <1>2 DEF EndOfStream, Short
    <3>5. dPc = "body" => stream[dConn] = <<>>
      BY DEF EndOfStream, Short
    <3>6. Len(conn[dConn].mRecved) \in Nat /\ Len(stream[dConn]) \in Nat
          /\ HEAD_LENGTH \in Nat /\ FrameLength \in Nat
      BY <3>1, ConnectionAssumption DEF FrameLength
    <3>7. Len(conn[dConn].mRecved) + Len(stream[dConn]) < FrameLength
      <4> DEFINE m == Len(conn[dConn].mRecved)
                 t == Len(stream[dConn])
      <4>1. m \in Nat /\ t \in Nat /\ m < FrameLength
        BY <3>1, <3>6
      <4>2. (m = 0 /\ t < HEAD_LENGTH) \/ t = 0
        BY <1>1, <3>3, <3>4, <3>5
      <4> HIDE DEF m, t
      <4>3. m + t < FrameLength
        BY <3>3, <3>6, <4>1, <4>2
      <4> QED BY <4>3 DEF m, t
    <3> QED BY <3>2, <3>7
  <2>2. FramesOf(u) = <<>>
    BY <2>1, NoFrameYet
  <2>3. \A c \in Clients : FramesSeen'[c] = FramesSeen[c]
    BY <1>2, <1>3, <2>2 DEF FramesSeen, FramesOf
  <2> QED BY <2>3 DEF FramesSeen
<1>6. QueueSeen' = QueueSeen
  BY <1>1 DEF QueueSeen, HeadIsDone, queues, service
<1>7. LateDrops' = LateDrops
  BY <1>1 DEF LateDrops
<1>8. MessagesSeen' = MessagesSeen
  BY <1>1 DEF MessagesSeen, MessagesOf
<1> QED BY <1>1, <1>4, <1>5, <1>6, <1>7, <1>8 DEF SeenStays, queues, service

(* The connection closed and reported.                                     *)
LEMMA UnRegistAndReportSeen ==
  ASSUME IInv, TakenOnce, ended = "no", UnRegistAndReport
  PROVE  \E id \in DOMAIN mConns : Net!ReadData(id)
<1> DEFINE id == conn[dConn].mConnID
           tcp == ResetRecv(Closed(conn[dConn]))
<1>1. /\ dPc = "unregister" /\ dPc' = "loop"
      /\ conn' = [conn EXCEPT ![dConn] = tcp]
      /\ mNetQueue' = Append(mNetQueue, Drop(id)) /\ mWorkerQueue' = mWorkerQueue
      /\ UNCHANGED <<backlog, stream, peerClosed, received, nPc, taken, mConns, mMaxID, ended>>
  BY DEF UnRegistAndReport, BackToLoop, service, peers
<1>2. PICK c \in Clients : c = dConn
  BY <1>1, Registrants
<1>3. /\ conn[c].mClosed /\ conn[c].object = "live" /\ c \in peerClosed
      /\ conn \in [Clients -> Object]
  BY <1>1, <1>2 DEF IInv, Types, Driving, Objects
<1>4. tcp.mClosed
  BY <1>2, <1>3 DEF ResetRecv, Closed, Object
<1> HIDE DEF tcp
<1>5. \A d \in Clients : /\ conn'[d].mClosed = conn[d].mClosed
                         /\ d # c => conn'[d] = conn[d]
  BY <1>1, <1>2, <1>3, <1>4
<1>6. /\ id \in DOMAIN mConns
      /\ ConnsSeen[id] = [socket |-> c, state |-> "open"]
      /\ ConnsSeen' = [ConnsSeen EXCEPT ![id].state = "closed"]
  <2>1. \A d \in Clients \ {c} : ClosedBefore(d)' = ClosedBefore(d)
    BY <1>1, <1>2, <1>5 DEF ClosedBefore
  <2>2. ClosedBefore(c)' /\ ~ClosedBefore(c)
    BY <1>1, <1>2, <1>3, <1>5 DEF ClosedBefore
  <2> QED BY <1>1, <1>2, <1>3, <2>1, <2>2, ConnSeen, ConnsClose
<1>7. QueueSeen' = Append(QueueSeen, Drop(id))
  BY <1>1, QueueSeenGrows
<1>8. FramesSeen' = FramesSeen /\ FramesSeen[c] = <<>>
  <2>1. FramesSeen' = FramesSeen
    BY <1>1, <1>3, <1>5, FramesStay
  <2> QED BY <1>3, <2>1 DEF FramesSeen
<1>9. LateDrops' = LateDrops
  BY <1>1 DEF LateDrops
<1>10. MessagesSeen' = MessagesSeen
  BY <1>1 DEF MessagesSeen, MessagesOf
<1>11. Net!Drop(id) = Drop(id)
  BY DEF Net!Drop, Drop
<1> HIDE DEF id
<1>12. Net!ReadEnd(id)
  BY <1>1, <1>3, <1>6, <1>7, <1>8, <1>9, <1>10, <1>11 DEF Net!ReadEnd, Net!Close, Net!wires
<1> QED BY <1>6, <1>12 DEF Net!ReadData

-----------------------------------------------------------------------------
(* Every L-th of w units.                                                  *)
LEMMA Multiples ==
  ASSUME NEW L \in Nat \ {0}, NEW w \in Nat, NEW i \in 1 .. w \div L
  PROVE  i * L \in 1 .. w /\ (i * L - 1) \div L = i - 1
<1> DEFINE d == w \div L
<1>1. d \in Nat /\ L * d <= w
  BY SMTT(30)
<1> HIDE DEF d
<1>2. i \in Nat \ {0} /\ i <= d /\ i - 1 \in Nat /\ L - 1 \in Nat /\ L - 1 < L
  BY <1>1 DEF d
<1>3. i * L = L * i /\ L * i \in Nat /\ L * d \in Nat
  BY <1>1, <1>2
<1>4. L * i <= L * d
  <2>1. i < d => L * i + L <= L * d
    BY <1>1, <1>2, ProductGrows
  <2> QED BY <1>1, <1>2, <1>3, <2>1
<1>5. 1 <= L * i
  <2>1. L * 0 + L <= L * i
    BY <1>2, ProductGrows
  <2> QED BY <1>2, <1>3, <2>1
<1>6. (i * L - 1) \div L = i - 1
  <2>1. (L * (i - 1) + (L - 1)) \div L = (i - 1) + ((L - 1) \div L) /\ (L - 1) \div L = 0
    BY <1>2, Quotients
  <2>2. L * (i - 1) = L * i - L
    BY <1>2
  <2>3. i * L - 1 = L * (i - 1) + (L - 1)
    BY <1>2, <1>3, <2>2
  <2> QED BY <1>2, <2>1, <2>3
<1> QED BY <1>1, <1>3, <1>4, <1>5, <1>6

(* The frames that are to come are the next ones.                          *)
LEMMA FramesDue ==
  ASSUME NEW u \in Seq(Nat), NEW k \in Nat, Due(u, k)
  PROVE  FramesOf(u) = [i \in 1 .. Len(u) \div FrameLength |-> Frame(k + i)]
<1>1. ASSUME NEW i \in 1 .. Len(u) \div FrameLength
      PROVE  u[i * FrameLength] = k + i
  <2>1. /\ i * FrameLength \in 1 .. Len(u)
        /\ (i * FrameLength - 1) \div FrameLength = i - 1
    <3>1. Len(u) \in Nat
      OBVIOUS
    <3> QED BY <3>1, FrameLengths, Multiples
  <2>2. u[i * FrameLength] = k + 1 + (i - 1)
    BY <2>1 DEF Due
  <2>3. i \in Int
    OBVIOUS
  <2> QED BY <2>2, <2>3
<1> QED BY <1>1 DEF FramesOf

LEMMA TailOfFrames ==
  ASSUME NEW m \in Nat, NEW k \in Nat
  PROVE  LET f == [i \in 1 .. 1 + m |-> Frame(k + i)] IN
         /\ f # <<>> /\ Head(f) = Frame(k + 1)
         /\ Tail(f) = [i \in 1 .. m |-> Frame(k + 1 + i)]
<1> DEFINE f == [i \in 1 .. 1 + m |-> Frame(k + i)]
           g == [i \in 1 .. m |-> Frame(k + 1 + i)]
           S == {Frame(n) : n \in Nat}
<1>1. f \in Seq(S) /\ Len(f) = 1 + m
  OBVIOUS
<1>2. g \in Seq(S) /\ Len(g) = m
  OBVIOUS
<1>3. f # <<>> /\ Head(f) = Frame(k + 1)
  BY <1>1
<1>4. Tail(f) \in Seq(S) /\ Len(Tail(f)) = m /\ \A i \in 1 .. m : Tail(f)[i] = f[i + 1]
  BY <1>1, <1>3
<1>5. \A i \in 1 .. m : f[i + 1] = g[i]
  BY k + 1 \in Nat, \A i \in 1 .. m : k + (i + 1) = k + 1 + i
<1>6. Tail(f) = g
  BY <1>2, <1>4, <1>5, SeqEqual
<1> QED BY <1>3, <1>6

LEMMA FrameTaken ==
  ASSUME NEW a \in Seq(Nat), NEW s \in Seq(Nat), NEW k \in Nat, Due(a \o s, k),
         NEW n \in 0 .. Len(s), Len(a) + n = FrameLength
  PROVE  /\ FramesOf(a \o s) # <<>>
         /\ Head(FramesOf(a \o s)) = a \o SubSeq(s, 1, n)
         /\ Tail(FramesOf(a \o s)) = FramesOf(SubSeq(s, n + 1, Len(s)))
<1> DEFINE L == FrameLength
           u == a \o s
           r == SubSeq(s, n + 1, Len(s))
           m == Len(r) \div L
<1>1. /\ a \o SubSeq(s, 1, n) = Frame(k + 1)
      /\ r \in Seq(Nat) /\ Due(r, k + 1) /\ L * (k + 1) + Len(r) = L * k + Len(u)
  BY DueTaken
<1>2. L \in Nat \ {0} /\ u \in Seq(Nat) /\ Due(u, k) /\ k + 1 \in Nat
  BY FrameLengths, Joined
<1> HIDE DEF L, u, r
<1>3. Len(r) \in Nat /\ Len(u) \in Nat /\ Len(u) = Len(r) + L
  <2>1. Len(r) \in Nat /\ Len(u) \in Nat /\ L * k \in Nat /\ L * (k + 1) = L * k + L
    BY <1>1, <1>2
  <2> DEFINE x == L * k
             y == L * (k + 1)
  <2>2. x \in Nat /\ y = x + L /\ y + Len(r) = x + Len(u)
    BY <1>1, <2>1
  <2> HIDE DEF x, y
  <2> QED BY <1>2, <2>1, <2>2
<1>4. Len(u) \div L = 1 + m /\ m \in Nat
  <2>1. (Len(r) + L) \div L = 1 + Len(r) \div L /\ Len(r) \div L \in Nat
    BY <1>2, <1>3, Quotients
  <2> QED BY <1>3, <2>1
<1>5. FramesOf(u) = [i \in 1 .. 1 + m |-> Frame(k + i)]
  <2>1. FramesOf(u) = [i \in 1 .. Len(u) \div L |-> Frame(k + i)]
    BY <1>2, FramesDue DEF L
  <2> QED BY <1>4, <2>1
<1>6. FramesOf(r) = [i \in 1 .. m |-> Frame(k + 1 + i)]
  BY <1>1, <1>2, FramesDue DEF L
<1> HIDE DEF m
<1>7. /\ FramesOf(u) # <<>> /\ Head(FramesOf(u)) = Frame(k + 1)
      /\ Tail(FramesOf(u)) = FramesOf(r)
  BY <1>4, <1>5, <1>6, TailOfFrames
<1> QED BY <1>1, <1>7 DEF u, r

(* A part of a frame is not seen yet.                                      *)
LEMMA PartUnseen ==
  ASSUME IInv, ended = "no", PreRecv \/ RecvPart
  PROVE  SeenStays
<1>1. PICK n \in 0 .. Len(stream[dConn]) : Receive(dConn, n)
  <2>1. dConn \in Clients /\ stream \in [Clients -> Seq(Nat)]
    BY Registrants DEF PreRecv, RecvPart, IInv, Types
  <2>2. Len(stream[dConn]) \in Nat
    BY <2>1
  <2>3. CASE PreRecv
    <3>1. HEAD_LENGTH \in 0 .. Len(stream[dConn])
      BY <2>2, <2>3, ConnectionAssumption DEF PreRecv
    <3> QED BY <2>3, <3>1 DEF PreRecv
  <2>4. CASE RecvPart
    <3>1. Len(stream[dConn]) \in 0 .. Len(stream[dConn])
      BY <2>2
    <3> QED BY <2>4, <3>1 DEF RecvPart
  <2> QED BY <2>3, <2>4
<1>2. /\ dPc \in {"header", "body"} /\ dPc' \in {"body", "loop"}
      /\ UNCHANGED <<queues, received, backlog, peerClosed, service, ended>>
  BY DEF PreRecv, RecvPart, BackToLoop
<1>3. PICK c \in Clients : c = dConn
  BY <1>2, Registrants
<1>4. /\ conn \in [Clients -> Object] /\ stream \in [Clients -> Seq(Nat)]
      /\ conn[c].mRecved \in Seq(Nat) /\ stream[c] \in Seq(Nat)
  BY DEF IInv, Types, Object
<1>5. /\ stream' = [stream EXCEPT ![c] = SubSeq(stream[c], n + 1, Len(stream[c]))]
      /\ conn' = [conn EXCEPT ![c].mRecved = conn[c].mRecved \o SubSeq(stream[c], 1, n)]
  BY <1>1, <1>3 DEF Receive
<1>6. \A d \in Clients : conn'[d].mClosed = conn[d].mClosed /\ (d # c => conn'[d] = conn[d])
  BY <1>4, <1>5 DEF Object
<1>7. conn'[c].mRecved \o stream'[c] = conn[c].mRecved \o stream[c]
  <2>1. /\ conn'[c].mRecved = conn[c].mRecved \o SubSeq(stream[c], 1, n)
        /\ stream'[c] = SubSeq(stream[c], n + 1, Len(stream[c]))
    BY <1>4, <1>5 DEF Object
  <2>2. n \in 0 .. Len(stream[c])
    BY <1>1, <1>3
  <2> QED BY <1>4, <2>1, <2>2, Cut
<1>8. FramesSeen' = FramesSeen
  <2>1. \A d \in Clients : conn'[d].mRecved \o stream'[d] = conn[d].mRecved \o stream[d]
    <3>1. \A d \in Clients \ {c} : conn'[d].mRecved = conn[d].mRecved /\ stream'[d] = stream[d]
      BY <1>4, <1>5, <1>6
    <3> QED BY <1>7, <3>1
  <2> QED BY <1>6, <2>1, FramesStay
<1>9. ConnsSeen' = ConnsSeen
  <2>1. \A d \in Clients : ClosedBefore(d)' = ClosedBefore(d)
    BY <1>2, <1>6 DEF ClosedBefore
  <2> QED BY <1>2, <2>1, ConnsStay DEF service
<1>10. QueueSeen' = QueueSeen
  BY <1>2 DEF QueueSeen, HeadIsDone, queues, service
<1>11. LateDrops' = LateDrops
  BY <1>2 DEF LateDrops
<1>12. MessagesSeen' = MessagesSeen
  BY <1>2 DEF MessagesSeen, MessagesOf
<1> QED BY <1>2, <1>8, <1>9, <1>10, <1>11, <1>12 DEF SeenStays, queues, service

(* A frame received whole.                                                 *)
LEMMA RecvRestSeen ==
  ASSUME IInv, Frames, TakenOnce, ended = "no", RecvRest
  PROVE  \E id \in DOMAIN mConns : Net!ReadData(id)
<1> DEFINE id == conn[dConn].mConnID
           a == conn[dConn].mRecved
           s == stream[dConn]
           n == Missing(dConn)
           e == Recv(id, a \o SubSeq(s, 1, n))
<1>1. /\ dPc = "body" /\ dPc' = "loop"
      /\ stream' = [stream EXCEPT ![dConn] = SubSeq(s, n + 1, Len(s))]
      /\ conn' = [conn EXCEPT ![dConn] = ResetRecv(conn[dConn])]
      /\ mNetQueue' = Append(mNetQueue, e) /\ mWorkerQueue' = mWorkerQueue
      /\ UNCHANGED <<backlog, peerClosed, received, nPc, taken, mConns, mMaxID, ended>>
  BY DEF RecvRest, BackToLoop, service
<1>2. PICK c \in Clients : c = dConn
  BY <1>1, Registrants
<1>3. /\ ~conn[c].mClosed /\ conn[c].object = "live"
      /\ conn \in [Clients -> Object] /\ conn[c] \in Object /\ stream \in [Clients -> Seq(Nat)]
  BY <1>1, <1>2 DEF IInv, Types, Driving, Objects, Object
<1>4. a \in Seq(Nat) /\ s \in Seq(Nat) /\ n \in 0 .. Len(s) /\ Len(a) + n = FrameLength
  <2>1. a \in Seq(Nat) /\ s \in Seq(Nat) /\ Len(a) < FrameLength
    BY <1>2, Ids
  <2>2. n = FrameLength - Len(a) /\ n <= Len(s)
    BY DEF RecvRest, Missing
  <2>3. Len(a) \in Nat /\ Len(s) \in Nat /\ FrameLength \in Nat
    BY <2>1, FrameLengths
  <2> HIDE DEF a, s, n
  <2> QED BY <2>1, <2>2, <2>3
<1>5. PICK k \in 0 .. MaxFrames : Due(a \o s, k)
  BY <1>2, <1>3 DEF Frames
<1>6. /\ FramesOf(a \o s) # <<>>
      /\ Head(FramesOf(a \o s)) = a \o SubSeq(s, 1, n)
      /\ Tail(FramesOf(a \o s)) = FramesOf(SubSeq(s, n + 1, Len(s)))
  <2>1. k \in Nat
    BY FrameLengths
  <2> HIDE DEF a, s, n
  <2> QED BY <1>4, <1>5, <2>1, FrameTaken
<1>7. FramesSeen[c] = FramesOf(a \o s)
  BY <1>2, <1>3 DEF FramesSeen
<1>8. /\ conn'[c].mRecved = <<>> /\ conn'[c].mClosed = conn[c].mClosed
      /\ stream'[c] = SubSeq(s, n + 1, Len(s))
      /\ \A d \in Clients \ {c} : conn'[d] = conn[d] /\ stream'[d] = stream[d]
  <2> HIDE DEF a, s, n
  <2>1. conn' = [conn EXCEPT ![c] = [conn[c] EXCEPT !.mRecved = <<>>]]
    BY <1>1, <1>2 DEF ResetRecv
  <2> QED BY <1>1, <1>2, <1>3, <2>1 DEF Object
<1>9. SubSeq(s, n + 1, Len(s)) \in Seq(Nat)
  BY <1>4, Taking
<1> HIDE DEF a, s, n
<1>10. FramesSeen' = [FramesSeen EXCEPT ![c] = Tail(@)]
  <2>1. FramesSeen'[c] = FramesOf(SubSeq(s, n + 1, Len(s)))
    <3>1. conn'[c].mRecved \o stream'[c] = SubSeq(s, n + 1, Len(s))
      BY <1>8, <1>9
    <3> QED BY <1>3, <1>8, <3>1 DEF FramesSeen, FramesOf
  <2>2. \A d \in Clients \ {c} : FramesSeen'[d] = FramesSeen[d]
    BY <1>8 DEF FramesSeen, FramesOf
  <2>3. DOMAIN FramesSeen = Clients /\ DOMAIN FramesSeen' = Clients
        /\ FramesSeen' = [d \in Clients |-> FramesSeen'[d]]
    BY DEF FramesSeen
  <2> QED BY <1>6, <1>7, <2>1, <2>2, <2>3
<1>11. /\ id \in DOMAIN mConns /\ ConnsSeen' = ConnsSeen
       /\ ConnsSeen[id] = [socket |-> c, state |-> "open"]
  <2>1. \A d \in Clients : ClosedBefore(d)' = ClosedBefore(d)
    BY <1>1, <1>8 DEF ClosedBefore
  <2>2. ~ClosedBefore(c)
    BY <1>3 DEF ClosedBefore
  <2> QED BY <1>1, <1>2, <1>3, <2>1, <2>2, ConnSeen, ConnsStay
<1>12. QueueSeen' = Append(QueueSeen, e)
  <2> HIDE DEF e
  <2> QED BY <1>1, QueueSeenGrows
<1>13. Net!Recv(id, Head(FramesSeen[c])) = e
  BY <1>6, <1>7 DEF Net!Recv, Recv
<1>14. LateDrops' = LateDrops
  BY <1>1 DEF LateDrops
<1>15. MessagesSeen' = MessagesSeen
  BY <1>1 DEF MessagesSeen, MessagesOf
<1> HIDE DEF id, e
<1>16. Net!ReadFrame(id)
  <2>1. ConnsSeen[id].state = "open" /\ ConnsSeen[id].socket = c
    BY <1>11
  <2>2. FramesSeen[c] # <<>>
    BY <1>6, <1>7
  <2>3. QueueSeen' = Append(QueueSeen, Net!Recv(id, Head(FramesSeen[c])))
    BY <1>12, <1>13
  <2>4. ConnsSeen' = ConnsSeen
    BY <1>11
  <2> QED BY <1>1, <1>10, <1>14, <1>15, <2>1, <2>2, <2>3, <2>4 DEF Net!ReadFrame
<1> QED BY <1>11, <1>16 DEF Net!ReadData

(* The driver late.                                                        *)
LEMMA ReadNotOkaySeen ==
  ASSUME IInv, TakenOnce, ended = "no", ReadNotOkay
  PROVE  \E id \in 0 .. mMaxID : Net!ReadNotOkay(id)
<1> DEFINE id == conn[dConn].mConnID
<1>1. /\ dPc = "read" /\ dPc' = "loop" /\ conn[dConn].mClosed
      /\ conn' = [conn EXCEPT ![dConn] = ResetRecv(conn[dConn])]
      /\ mNetQueue' = Append(mNetQueue, Drop(id)) /\ mWorkerQueue' = mWorkerQueue
      /\ UNCHANGED <<backlog, stream, peerClosed, received, nPc, taken, mConns, mMaxID, ended>>
  BY DEF ReadNotOkay, BackToLoop, service, peers
<1>2. /\ dConn \in Clients /\ conn[dConn].object # "none"
      /\ conn \in [Clients -> Object] /\ conn[dConn] \in Object
  BY <1>1, Registrants DEF IInv, Types
<1>3. id \in 0 .. mMaxID
  <2>1. id \in 0 .. mMaxID - 1 /\ mMaxID \in Nat
    BY <1>2, Ids
  <2> QED BY <2>1
<1>4. \A d \in Clients : /\ conn'[d].mClosed = conn[d].mClosed
                         /\ conn[d].mClosed \/ conn'[d] = conn[d]
  BY <1>1, <1>2 DEF ResetRecv, Object
<1>5. FramesSeen' = FramesSeen
  BY <1>1, <1>4, FramesStay
<1>6. ConnsSeen' = ConnsSeen
  <2>1. \A d \in Clients : ClosedBefore(d)' = ClosedBefore(d)
    BY <1>1, <1>4 DEF ClosedBefore
  <2> QED BY <1>1, <2>1, ConnsStay
<1>7. QueueSeen' = Append(QueueSeen, Drop(id))
  BY <1>1, QueueSeenGrows
<1>8. LateDrops = {id} /\ LateDrops' = {}
  BY <1>1 DEF LateDrops
<1>9. MessagesSeen' = MessagesSeen
  BY <1>1 DEF MessagesSeen, MessagesOf
<1>10. Net!Drop(id) = Drop(id)
  BY DEF Net!Drop, Drop
<1> HIDE DEF id
<1>11. Net!ReadNotOkay(id)
  BY <1>1, <1>5, <1>6, <1>7, <1>8, <1>9, <1>10 DEF Net!ReadNotOkay, Net!wires
<1> QED BY <1>3, <1>11

-----------------------------------------------------------------------------
(* One more message.                                                       *)
LEMMA MessageTold ==
  ASSUME NEW q \in Seq(Nat), NEW k \in Nat, Len(q) = MessageLength * k, NEW x \in Nat
  PROVE  MessagesOf(q \o [i \in 1 .. MessageLength |-> x]) = Append(MessagesOf(q), x)
<1> DEFINE L == MessageLength
           p == [i \in 1 .. L |-> x]
           t == q \o p
<1>1. L \in Nat \ {0}
  BY ConnectionAssumption
<1>2. p \in Seq(Nat) /\ Len(p) = L /\ \A i \in 1 .. L : p[i] = x
  BY <1>1
<1> HIDE DEF L, p
<1>3. /\ t \in Seq(Nat) /\ Len(t) = Len(q) + L
      /\ \A i \in 1 .. Len(q) + L : t[i] = IF i <= Len(q) THEN q[i] ELSE p[i - Len(q)]
  BY <1>2, Joined
<1> HIDE DEF t
<1>4. Len(q) \in Nat /\ Len(q) \div L = k /\ Len(t) \div L = k + 1
  <2>1. (L * k + 0) \div L = k + (0 \div L) /\ 0 \div L = 0
    BY <1>1, Quotients
  <2>2. (L * (k + 1) + 0) \div L = (k + 1) + (0 \div L)
    BY <1>1, Quotients
  <2>3. L * k \in Nat /\ L * (k + 1) = L * k + L /\ Len(q) = L * k
    BY <1>1 DEF L
  <2> DEFINE a == L * k
             b == L * (k + 1)
  <2>4. /\ a \in Nat /\ b = a + L /\ Len(q) = a /\ Len(t) = Len(q) + L
        /\ (a + 0) \div L = k + (0 \div L) /\ 0 \div L = 0
        /\ (b + 0) \div L = (k + 1) + (0 \div L)
    BY <1>3, <2>1, <2>2, <2>3
  <2> HIDE DEF a, b
  <2>5. a + 0 = a /\ b + 0 = b /\ a = Len(q) /\ b = Len(t) /\ k + 0 = k /\ k + 1 + 0 = k + 1
    BY <1>1, <2>4
  <2> QED BY <2>4, <2>5
<1>5. \A i \in 1 .. k : i * L \in 1 .. Len(q)
  BY <1>1, <1>4, Multiples
<1>6. (k + 1) * L = Len(q) + L
  <2>1. (k + 1) * L = L * k + L
    BY <1>1
  <2> QED BY <2>1 DEF L
<1>7. \A i \in 1 .. k : t[i * L] = q[i * L]
  <2> SUFFICES ASSUME NEW i \in 1 .. k
               PROVE  t[i * L] = q[i * L]
    OBVIOUS
  <2>1. i * L \in 1 .. Len(q)
    BY <1>5
  <2> DEFINE j == i * L
  <2> HIDE DEF j
  <2>2. j \in 1 .. Len(q)
    BY <2>1 DEF j
  <2>3. j \in 1 .. Len(q) + L /\ j <= Len(q)
    BY <1>1, <1>4, <2>2
  <2>4. t[j] = q[j]
    BY <1>3, <2>3
  <2> QED BY <2>4 DEF j
<1>8. t[(k + 1) * L] = x
  <2>1. Len(q) + L \in 1 .. Len(q) + L /\ ~(Len(q) + L <= Len(q)) /\ (Len(q) + L) - Len(q) = L
        /\ L \in 1 .. L
    BY <1>1, <1>4
  <2>2. t[Len(q) + L] = p[L]
    BY <1>3, <2>1
  <2> QED BY <1>2, <1>6, <2>1, <2>2
<1>9. /\ MessagesOf(q) = [i \in 1 .. k |-> q[i * L]]
      /\ MessagesOf(t) = [i \in 1 .. k + 1 |-> t[i * L]]
  BY <1>4 DEF MessagesOf, L
<1> DEFINE m == MessagesOf(q)
           r == MessagesOf(t)
<1>10. m \in Seq(Nat) /\ Len(m) = k
  <2>1. \A i \in 1 .. k : q[i * L] \in Nat
    BY <1>5
  <2> QED BY <1>9, <2>1
<1>11. r \in Seq(Nat) /\ Len(r) = k + 1 /\ \A i \in 1 .. k + 1 : r[i] = IF i <= k THEN m[i] ELSE x
  <2>1. \A i \in 1 .. k + 1 : IF i <= k THEN t[i * L] = m[i] ELSE t[i * L] = x
    <3> SUFFICES ASSUME NEW i \in 1 .. k + 1
                 PROVE  IF i <= k THEN t[i * L] = m[i] ELSE t[i * L] = x
      OBVIOUS
    <3>1. CASE i <= k
      BY <1>7, <1>9, <3>1
    <3>2. CASE ~(i <= k)
      <4>1. i = k + 1
        BY <3>2
      <4> QED BY <1>8, <3>2, <4>1
    <3> QED BY <3>1, <3>2
  <2>2. \A i \in 1 .. k + 1 : t[i * L] \in Nat
    BY <1>10, <2>1
  <2> HIDE DEF m
  <2> QED BY <1>9, <2>1, <2>2
<1> HIDE DEF m, r
<1>12. r = Append(m, x)
  <2>1. Append(m, x) \in Seq(Nat) /\ Len(Append(m, x)) = k + 1
        /\ \A i \in 1 .. k + 1 : Append(m, x)[i] = IF i <= k THEN m[i] ELSE x
    BY <1>10
  <2> QED BY <1>11, <2>1, SeqEqual
<1> QED BY <1>12 DEF m, r, t, p, L

(* What is written, and what is closed, as NetService sees it.             *)
LEMMA WriteSomeSeen ==
  ASSUME IInv, Unsent, Receiving, ended = "no", ~ShortWrites,
         NEW c \in Clients, NEW rest, WriteSome(c, rest), stream' = stream, mConns' = mConns,
         \/ dPc # "unregister" /\ dPc' # "unregister"
         \/ dPc' = dPc /\ dConn' = dConn
  PROVE  /\ ConnsSeen' = ConnsSeen /\ FramesSeen' = FramesSeen
         /\ \A d \in Clients : /\ conn'[d].mClosed = conn[d].mClosed
                               /\ conn'[d].mConnID = conn[d].mConnID
         /\ MessagesSeen' = IF c \in peerClosed THEN MessagesSeen
                            ELSE [MessagesSeen EXCEPT ![c] = Append(@, Head(conn[c].mToSendMsg))]
<1> DEFINE x == Head(conn[c].mToSendMsg)
           n == MessageLength
<1>1. /\ ~conn[c].mClosed /\ conn[c].mToSendMsg # <<>>
      /\ conn \in [Clients -> Object] /\ conn[c] \in Object /\ n \in Nat \ {0}
      /\ received \in [Clients -> Seq(Nat)]
  BY ConnectionAssumption DEF WriteSome, HasMessage, IInv, Types
<1>2. conn[c].mSent = 0
  BY <1>1 DEF Unsent
<1>3. /\ conn' = [conn EXCEPT ![c] = Sent(conn[c], n)]
      /\ received' = IF c \in peerClosed THEN received
                     ELSE [received EXCEPT ![c] = received[c] \o [i \in 1 .. n |-> x]]
  <2>1. PICK l \in 1 .. n - conn[c].mSent :
          /\ l = n - conn[c].mSent
          /\ conn' = [conn EXCEPT ![c] = Sent(conn[c], l)]
          /\ received' = IF c \in peerClosed THEN received
                         ELSE [received EXCEPT ![c] = @ \o [i \in 1 .. l |-> x]]
    BY DEF WriteSome
  <2>2. l = n
    BY <1>1, <1>2, <2>1
  <2> QED BY <2>1, <2>2
<1>4. \A d \in Clients : /\ conn'[d].mClosed = conn[d].mClosed
                         /\ conn'[d].mConnID = conn[d].mConnID
                         /\ conn'[d].mRecved = conn[d].mRecved
  <2>1. /\ Sent(conn[c], n).mClosed = conn[c].mClosed /\ Sent(conn[c], n).mConnID = conn[c].mConnID
        /\ Sent(conn[c], n).mRecved = conn[c].mRecved
    BY <1>1, SendingSome
  <2> QED BY <1>1, <1>3, <2>1
<1>5. FramesSeen' = FramesSeen
  BY <1>4, FramesStay
<1>6. ConnsSeen' = ConnsSeen
  <2>1. \A d \in Clients : ClosedBefore(d)' = ClosedBefore(d)
    BY <1>4 DEF ClosedBefore
  <2> QED BY <2>1, ConnsStay
<1>7. CASE c \in peerClosed
  BY <1>3, <1>4, <1>5, <1>6, <1>7 DEF MessagesSeen, MessagesOf
<1>8. CASE c \notin peerClosed
  <2>1. PICK k \in Nat : Len(received[c]) = n * k
    <3>1. PICK k \in Nat : Len(received[c]) - conn[c].mSent = n * k
      BY <1>1, <1>8 DEF Receiving, Present, Whole
    <3>2. Len(received[c]) \in Nat
      BY <1>1
    <3> QED BY <1>2, <3>1, <3>2
  <2>2. x \in Nat /\ received[c] \in Seq(Nat)
    BY <1>1 DEF Object
  <2> HIDE DEF x
  <2>3. MessagesOf(received[c] \o [i \in 1 .. n |-> x]) = Append(MessagesOf(received[c]), x)
    BY <2>1, <2>2, MessageTold
  <2>4. MessagesSeen' = [d \in Clients |-> MessagesOf(received'[d])]
    BY DEF MessagesSeen, MessagesOf
  <2>5. /\ received'[c] = received[c] \o [i \in 1 .. n |-> x]
        /\ \A d \in Clients \ {c} : received'[d] = received[d]
    BY <1>1, <1>3, <1>8
  <2>6. MessagesSeen' = [MessagesSeen EXCEPT ![c] = Append(@, x)]
    BY <2>3, <2>4, <2>5 DEF MessagesSeen
  <2> QED BY <1>4, <1>5, <1>6, <1>8, <2>6 DEF x
<1> QED BY <1>7, <1>8

LEMMA WriteFailsSeen ==
  ASSUME IInv, ended = "no",
         NEW c \in Clients, NEW rest, WriteFails(c, rest), stream' = stream, mConns' = mConns,
         \/ dPc = "write" /\ dPc' = "loop"
         \/ dPc' = dPc /\ dConn' = dConn
  PROVE  /\ ConnsSeen' = [ConnsSeen EXCEPT ![conn[c].mConnID].state = "closed"]
         /\ FramesSeen' = [FramesSeen EXCEPT ![c] = <<>>]
         /\ MessagesSeen' = MessagesSeen
         /\ LateDrops' \in {LateDrops, LateDrops \cup {conn[c].mConnID}}
<1> DEFINE tcp == Closed([conn[c] EXCEPT !.mSent = 0])
<1>1. /\ ~conn[c].mClosed /\ conn[c].mToSendMsg # <<>>
      /\ conn' = [conn EXCEPT ![c] = tcp] /\ received' = received
      /\ conn \in [Clients -> Object] /\ conn[c] \in Object
  BY DEF WriteFails, HasMessage, IInv, Types
<1>2. tcp.mClosed /\ tcp.mConnID = conn[c].mConnID
  BY <1>1 DEF Closed, Object
<1> HIDE DEF tcp
<1>3. /\ conn'[c].mClosed /\ conn'[c].mConnID = conn[c].mConnID
      /\ \A d \in Clients \ {c} : conn'[d] = conn[d]
  BY <1>1, <1>2
<1>4. conn[c].object = "live" /\ ~(dConn = c /\ dPc = "unregister")
  BY <1>1 DEF IInv, Objects, Object, Driving, Types
<1>5. ConnsSeen' = [ConnsSeen EXCEPT ![conn[c].mConnID].state = "closed"]
  <2>1. ClosedBefore(c)'
    BY <1>3, <1>4 DEF ClosedBefore
  <2>2. \A d \in Clients \ {c} : ClosedBefore(d)' = ClosedBefore(d)
    BY <1>3 DEF ClosedBefore
  <2> QED BY <1>4, <2>1, <2>2, ConnsClose
<1>6. FramesSeen' = [FramesSeen EXCEPT ![c] = <<>>]
  <2>1. FramesSeen'[c] = <<>> /\ \A d \in Clients \ {c} : FramesSeen'[d] = FramesSeen[d]
    BY <1>3 DEF FramesSeen, FramesOf
  <2> QED BY <2>1 DEF FramesSeen
<1>7. MessagesSeen' = MessagesSeen
  BY <1>1 DEF MessagesSeen, MessagesOf
<1>8. LateDrops' \in {LateDrops, LateDrops \cup {conn[c].mConnID}}
  <2>1. CASE dPc = "write" /\ dPc' = "loop"
    BY <2>1 DEF LateDrops
  <2>2. CASE dPc' = dPc /\ dConn' = dConn /\ dPc # "read"
    BY <2>2 DEF LateDrops
  <2>3. CASE dPc' = dPc /\ dConn' = dConn /\ dPc = "read"
    <3>1. PICK d \in Clients : d = dConn
      BY <2>3, Registrants
    <3>2. /\ LateDrops = IF conn[d].mClosed THEN {conn[d].mConnID} ELSE {}
          /\ LateDrops' = IF conn'[d].mClosed THEN {conn'[d].mConnID} ELSE {}
      BY <2>3, <3>1 DEF LateDrops
    <3>3. CASE d = c
      BY <1>1, <1>3, <3>2, <3>3
    <3>4. CASE d # c
      BY <1>3, <3>2, <3>4
    <3> QED BY <3>3, <3>4
  <2> QED BY <2>1, <2>2, <2>3
<1> QED BY <1>5, <1>6, <1>7, <1>8

(* Whichever thread writes the message at the head of the queue, and       *)
(* whatever becomes of it, NetService sees a SendMsg.                      *)
LEMMA WriteSeen ==
  ASSUME IInv, Unsent, Receiving, ended = "no", ~ShortWrites,
         NEW c \in Clients, NEW rest, HasMessage(c), nPc = "write", ~taken,
         mConns[Head(mNetQueue).conn] = c, conn[c].mToSendMsg = <<Head(mNetQueue).msg>>,
         UNCHANGED <<mWorkerQueue, backlog, stream, peerClosed, mConns, mMaxID>>,
         \/ dPc = "write" /\ dPc' = "loop"
         \/ dPc' = dPc /\ dConn' = dConn,
         \/ WriteSome(c, rest) /\ QueueSeen' = Tail(mNetQueue)
         \/ WriteFails(c, rest) /\ QueueSeen' = Append(Tail(mNetQueue), Drop(conn[c].mConnID))
         \/ WriteKills(c) /\ QueueSeen' = mNetQueue
  PROVE  Net!SendMsg
<1> DEFINE id == conn[c].mConnID
<1>1. /\ ~conn[c].mClosed /\ conn[c].mToSendMsg # <<>>
      /\ conn \in [Clients -> Object] /\ conn[c] \in Object
  BY DEF HasMessage, IInv, Types
<1>2. conn[c].object = "live" /\ ~ClosedBefore(c)
  BY <1>1 DEF IInv, Objects, Object, ClosedBefore
<1>3. /\ id \in DOMAIN mConns /\ ConnsSeen[id] = [socket |-> c, state |-> "open"]
      /\ DOMAIN ConnsSeen = DOMAIN mConns
  BY <1>2, ConnSeen
<1>4. /\ mNetQueue # <<>> /\ Head(mNetQueue).op = "OP_SEND" /\ Head(mNetQueue).conn = id
  BY Registrants
<1>5. QueueSeen = mNetQueue
  BY DEF QueueSeen, HeadIsDone
<1>6. Net!NextIs(QueueSeen, "OP_SEND") /\ Net!Writable(Head(QueueSeen).conn)
      /\ ConnsSeen[Head(QueueSeen).conn].socket = c
  BY <1>3, <1>4, <1>5 DEF Net!NextIs, Net!Writable
<1>7. CASE WriteSome(c, rest) /\ QueueSeen' = Tail(mNetQueue)
  <2>1. ended' = ended
    BY <1>7 DEF WriteSome
  <2>2. Head(conn[c].mToSendMsg) = Head(QueueSeen).msg
    BY <1>5
  <2>3. /\ ConnsSeen' = ConnsSeen /\ FramesSeen' = FramesSeen
        /\ \A d \in Clients : /\ conn'[d].mClosed = conn[d].mClosed
                              /\ conn'[d].mConnID = conn[d].mConnID
        /\ MessagesSeen' = IF c \in peerClosed THEN MessagesSeen
                           ELSE [MessagesSeen EXCEPT ![c] = Append(@, Head(QueueSeen).msg)]
    <3>1. \/ dPc # "unregister" /\ dPc' # "unregister"
          \/ dPc' = dPc /\ dConn' = dConn
      OBVIOUS
    <3> QED BY <1>7, <2>2, <3>1, WriteSomeSeen
  <2>4. LateDrops' = LateDrops
    <3>1. CASE dPc = "write" /\ dPc' = "loop"
      BY <3>1 DEF LateDrops
    <3>2. CASE dPc' = dPc /\ dConn' = dConn
      BY <2>3, <3>2, Registrants DEF LateDrops
    <3> QED BY <3>1, <3>2
  <2>5. QueueSeen' = Tail(QueueSeen)
    BY <1>5, <1>7
  <2>6. Net!SendWritten
    BY <1>6, <2>1, <2>3, <2>4, <2>5 DEF Net!SendWritten
  <2> QED BY <2>6 DEF Net!SendMsg
<1>8. CASE WriteFails(c, rest) /\ QueueSeen' = Append(Tail(mNetQueue), Drop(id))
  <2>1. ended' = ended /\ c \in peerClosed
    BY <1>8 DEF WriteFails
  <2>2. /\ ConnsSeen' = [ConnsSeen EXCEPT ![id].state = "closed"]
        /\ FramesSeen' = [FramesSeen EXCEPT ![c] = <<>>]
        /\ MessagesSeen' = MessagesSeen
        /\ LateDrops' \in {LateDrops, LateDrops \cup {id}}
    BY <1>8, WriteFailsSeen
  <2>3. QueueSeen' = Append(Tail(QueueSeen), Net!Drop(Head(QueueSeen).conn))
    BY <1>4, <1>5, <1>8 DEF Net!Drop, Drop
  <2>4. Head(QueueSeen).conn = id
    BY <1>4, <1>5
  <2> HIDE DEF id
  <2>5. Net!SendFails
    BY <1>6, <2>1, <2>2, <2>3, <2>4 DEF Net!SendFails, Net!Close
  <2> QED BY <2>5 DEF Net!SendMsg
<1>9. CASE WriteKills(c) /\ QueueSeen' = mNetQueue
  <2>1. conn' = conn /\ received' = received /\ ended' = "sigpipe" /\ c \in peerClosed /\ WritesFail
    BY <1>9 DEF WriteKills
  <2>2. ConnsSeen' = ConnsSeen
    <3>1. \A d \in Clients : ClosedBefore(d)' = ClosedBefore(d)
      BY <2>1 DEF ClosedBefore
    <3> QED BY <3>1, ConnsStay
  <2>3. FramesSeen' = FramesSeen
    BY <2>1, FramesStay
  <2>4. MessagesSeen' = MessagesSeen
    BY <2>1 DEF MessagesSeen, MessagesOf
  <2>5. LateDrops' = LateDrops
    BY <2>1 DEF LateDrops
  <2>6. Net!SendKills
    BY <1>5, <1>6, <1>9, <2>1, <2>2, <2>3, <2>4, <2>5 DEF Net!SendKills, Net!wires, Net!queues
  <2> QED BY <2>6 DEF Net!SendMsg
<1> QED BY <1>7, <1>8, <1>9

LEMMA DriverWritesSeen ==
  ASSUME IInv, Unsent, Receiving, TakenOnce, ended = "no", ~ShortWrites, DriverWrites
  PROVE  SeenStays \/ Net!SendMsg
<1>1. PICK c \in Clients : c = dConn
  BY Registrants DEF DriverWrites
<1>2. /\ dPc = "write" /\ dPc' = "loop" /\ WriteData(c, mNetQueue)
      /\ taken' = (taken \/ (nPc = "write" /\ HasMessage(c) /\ ended' = "no"
                               /\ mConns[Head(mNetQueue).conn] = c))
      /\ UNCHANGED <<mWorkerQueue, backlog, stream, peerClosed, nPc, mConns, mMaxID>>
  BY <1>1 DEF DriverWrites, BackToLoop, peers
<1>3. CASE ~HasMessage(c)
  <2>1. conn' = conn /\ received' = received /\ mNetQueue' = mNetQueue /\ ended' = ended
        /\ taken' \in {taken, TRUE, FALSE} /\ (taken' <=> taken)
    BY <1>2, <1>3 DEF WriteData, NothingToWrite, WriteSome, WriteFails, WriteKills
  <2>2. QueueSeen' = QueueSeen
    BY <1>2, <2>1 DEF QueueSeen, HeadIsDone
  <2>3. ConnsSeen' = ConnsSeen
    <3>1. \A d \in Clients : ClosedBefore(d)' = ClosedBefore(d)
      BY <1>2, <2>1 DEF ClosedBefore
    <3> QED BY <1>2, <3>1, ConnsStay
  <2>4. FramesSeen' = FramesSeen
    BY <1>2, <2>1, FramesStay
  <2>5. MessagesSeen' = MessagesSeen /\ LateDrops' = LateDrops
    BY <1>2, <2>1 DEF MessagesSeen, MessagesOf, LateDrops
  <2> QED BY <1>2, <2>1, <2>2, <2>3, <2>4, <2>5 DEF SeenStays
<1>4. CASE HasMessage(c)
  <2>1. nPc = "write" /\ mConns[Head(mNetQueue).conn] = c
    BY <1>4 DEF HasMessage, Unsent
  <2>2. ~taken /\ conn[c].mToSendMsg = <<Head(mNetQueue).msg>>
    BY <1>4, <2>1 DEF TakenOnce, HasMessage
  <2>3. mNetQueue # <<>> /\ IsQueue(mNetQueue)
    BY <2>1, Registrants DEF IInv, Types
  <2>4. CASE WriteSome(c, mNetQueue)
    <3>1. mNetQueue' = mNetQueue /\ ended' = ended
      BY <2>4 DEF WriteSome
    <3>2. QueueSeen' = Tail(mNetQueue)
      BY <1>2, <1>4, <2>1, <3>1 DEF QueueSeen, HeadIsDone
    <3> QED BY <1>2, <1>4, <2>1, <2>2, <2>4, <3>2, WriteSeen
  <2>5. CASE WriteFails(c, mNetQueue)
    <3> DEFINE e == Drop(conn[c].mConnID)
    <3>1. mNetQueue' = Append(mNetQueue, e) /\ ended' = ended
      BY <2>5 DEF WriteFails
    <3> HIDE DEF e
    <3>2. mNetQueue \in Seq(Range(mNetQueue) \cup {e})
      BY <2>3, SeqMonotonic DEF IsQueue
    <3>3. Tail(Append(mNetQueue, e)) = Append(Tail(mNetQueue), e)
      BY <2>3, <3>2, HeadTailAppend
    <3>4. QueueSeen' = Append(Tail(mNetQueue), e)
      BY <1>2, <1>4, <2>1, <3>1, <3>3 DEF QueueSeen, HeadIsDone
    <3> QED BY <1>2, <1>4, <2>1, <2>2, <2>5, <3>4, WriteSeen DEF e
  <2>6. CASE WriteKills(c)
    <3>1. mNetQueue' = mNetQueue /\ ended' = "sigpipe"
      BY <2>6 DEF WriteKills
    <3>2. QueueSeen' = mNetQueue
      BY <1>2, <2>1, <2>2, <3>1 DEF QueueSeen, HeadIsDone
    <3> QED BY <1>2, <1>4, <2>1, <2>2, <2>6, <3>2, WriteSeen
  <2> QED BY <1>2, <1>4, <2>4, <2>5, <2>6 DEF WriteData, NothingToWrite
<1> QED BY <1>3, <1>4

LEMMA ServiceWritesSeen ==
  ASSUME IInv, Unsent, Receiving, TakenOnce, ended = "no", ~ShortWrites, ServiceWrites
  PROVE  SeenStays \/ Net!SendMsg
<1> DEFINE h == Head(mNetQueue)
           t == Tail(mNetQueue)
<1>1. /\ nPc = "write" /\ mNetQueue # <<>> /\ h.op = "OP_SEND"
      /\ h.conn \in DOMAIN mConns /\ mConns[h.conn] \in Clients
      /\ conn[mConns[h.conn]].mConnID = h.conn /\ conn[mConns[h.conn]].object = "live"
  BY Registrants DEF ServiceWrites
<1>2. PICK c \in Clients : c = mConns[h.conn]
  BY <1>1
<1>3. /\ MutexFree(c) /\ WriteData(c, t) /\ nPc' = "idle" /\ taken' = FALSE
      /\ UNCHANGED <<mWorkerQueue, backlog, stream, peerClosed, mConns, mMaxID, dPc, dConn>>
  BY <1>2 DEF ServiceWrites, peers
<1>4. QueueSeen' = mNetQueue'
  BY <1>3 DEF QueueSeen, HeadIsDone
<1>5. CASE HasMessage(c)
  <2>1. ~taken /\ conn[c].mToSendMsg = <<h.msg>>
    BY <1>1, <1>2, <1>5 DEF TakenOnce, HasMessage
  <2>2. \/ WriteSome(c, t) /\ QueueSeen' = t
        \/ WriteFails(c, t) /\ QueueSeen' = Append(t, Drop(conn[c].mConnID))
        \/ WriteKills(c) /\ QueueSeen' = mNetQueue
    BY <1>3, <1>4, <1>5 DEF WriteData, NothingToWrite, WriteSome, WriteFails, WriteKills
  <2> QED BY <1>1, <1>2, <1>3, <1>5, <2>1, <2>2, WriteSeen
<1>6. CASE ~HasMessage(c)
  <2>1. conn' = conn /\ received' = received /\ mNetQueue' = t /\ ended' = ended
    BY <1>3, <1>6 DEF WriteData, NothingToWrite, WriteSome, WriteFails, WriteKills
  <2>2. ConnsSeen' = ConnsSeen
    <3>1. \A d \in Clients : ClosedBefore(d)' = ClosedBefore(d)
      BY <1>3, <2>1 DEF ClosedBefore
    <3> QED BY <1>3, <3>1, ConnsStay
  <2>3. FramesSeen' = FramesSeen
    BY <1>3, <2>1, FramesStay
  <2>4. MessagesSeen' = MessagesSeen /\ LateDrops' = LateDrops
    BY <1>3, <2>1 DEF MessagesSeen, MessagesOf, LateDrops
  <2>5. CASE taken
    <3>1. QueueSeen' = QueueSeen
      BY <1>4, <2>1, <2>5 DEF QueueSeen, HeadIsDone
    <3> QED BY <1>3, <2>1, <2>2, <2>3, <2>4, <3>1 DEF SeenStays
  <2>6. CASE ~taken
    <3>1. QueueSeen = mNetQueue
      BY <1>1, <2>6 DEF QueueSeen, HeadIsDone
    <3>2. conn[c].mClosed
      <4>1. ~conn[c].mClosed => conn[c].mToSendMsg = <<h.msg>>
        BY <1>1, <1>2, <2>6 DEF TakenOnce
      <4>2. <<h.msg>> # <<>>
        OBVIOUS
      <4> QED BY <1>6, <4>1, <4>2 DEF HasMessage
    <3>3. ClosedBefore(c)
      BY <1>3, <3>2 DEF ClosedBefore, MutexFree
    <3>4. ConnsSeen[h.conn].state = "closed"
      <4>1. conn[c].mConnID = h.conn /\ conn[c].object = "live"
        BY <1>1, <1>2
      <4> HIDE DEF h
      <4>2. ConnsSeen[conn[c].mConnID] = [socket |-> c, state |-> "closed"]
        BY <3>3, <4>1, ConnSeen
      <4> QED BY <4>1, <4>2
    <3>5. /\ Net!NextIs(QueueSeen, "OP_SEND")
          /\ Head(QueueSeen).conn = h.conn
      BY <1>1, <3>1 DEF Net!NextIs
    <3>8. ~Net!Writable(Head(QueueSeen).conn)
      <4> HIDE DEF h
      <4> QED BY <3>4, <3>5 DEF Net!Writable
    <3>6. QueueSeen' = Tail(QueueSeen)
      BY <1>4, <2>1, <3>1
    <3>7. Net!SendDiscarded
      BY <1>3, <2>1, <2>2, <2>3, <2>4, <3>5, <3>6, <3>8 DEF Net!SendDiscarded, Net!netVars
    <3> QED BY <3>7 DEF Net!SendMsg
  <2> QED BY <2>5, <2>6
<1> QED BY <1>5, <1>6

-----------------------------------------------------------------------------
(* Between two contexts nothing of the next one has happened.              *)
LEMMA BetweenContexts ==
  ASSUME IInv, TakenOnce, ended = "no", NEW op, NextContextIs(op)
  PROVE  /\ QueueSeen = mNetQueue /\ ~taken /\ nPc = "idle" /\ Net!NextIs(QueueSeen, op)
         /\ mNetQueue # <<>> /\ Head(mNetQueue).op = op
         /\ Head(mNetQueue) \in NetContexts /\ Head(mNetQueue) \in Range(mNetQueue)
<1>1. nPc = "idle" /\ mNetQueue # <<>> /\ Head(mNetQueue).op = op
  BY DEF NextContextIs, NextIs
<1>2. ~taken
  BY <1>1 DEF TakenOnce
<1>3. QueueSeen = mNetQueue
  BY <1>1, <1>2 DEF QueueSeen, HeadIsDone
<1>4. Head(mNetQueue) \in NetContexts /\ Head(mNetQueue) \in Range(mNetQueue)
  BY <1>1, TailOfQueue DEF IInv, Types
<1> QED BY <1>1, <1>2, <1>3, <1>4 DEF Net!NextIs

LEMMA AcceptConnectionSeen ==
  ASSUME IInv, IInv', TakenOnce, ended = "no", AcceptConnection
  PROVE  Net!AcceptConnection
<1> DEFINE h == Head(mNetQueue)
<1>1. /\ QueueSeen = mNetQueue /\ Net!NextIs(QueueSeen, "OP_ACCEPT") /\ h.op = "OP_ACCEPT"
      /\ ~taken /\ nPc = "idle" /\ h \in NetContexts /\ h \in Range(mNetQueue)
  BY BetweenContexts DEF AcceptConnection
<1>2. PICK c \in Clients : c = h.socket
  BY <1>1 DEF NetContexts
<1>3. /\ conn' = [conn EXCEPT ![c].object = "live", ![c].mConnID = mMaxID]
      /\ mConns' = [id \in DOMAIN mConns \cup {mMaxID} |-> IF id = mMaxID THEN c ELSE mConns[id]]
      /\ Regist(conn[c].fd, "read", c)
      /\ mMaxID' = mMaxID + 1 /\ nPc' = "regist"
      /\ UNCHANGED <<mWorkerQueue, mNetQueue, backlog, stream, peerClosed, received, dPc, dConn>>
  BY <1>2 DEF AcceptConnection, queues, peers, driver
<1>4. ended' = ended
  BY <1>3 DEF Regist, IInv, EventsHaveOwners
<1>5. \A d \in Clients : conn'[d].mClosed = conn[d].mClosed /\ conn'[d].mRecved = conn[d].mRecved
                         /\ (d # c => conn'[d].mConnID = conn[d].mConnID)
  BY <1>3 DEF IInv, Types, Object
<1>6. ~conn[c].mClosed /\ conn[c].object = "none"
  BY <1>1, <1>2 DEF IInv, Accepts, Objects
<1>7. mMaxID \notin DOMAIN mConns /\ \A id \in DOMAIN mConns : mConns[id] \in Clients
  <2>1. \A id \in DOMAIN mConns : mConns[id] \in Clients /\ id \in 0 .. mMaxID - 1
    BY Registrants
  <2>2. mMaxID \notin 0 .. mMaxID - 1
    BY DEF IInv, Types
  <2> QED BY <2>1, <2>2
<1>8. \A d \in Clients : ClosedBefore(d)' = ClosedBefore(d)
  BY <1>3, <1>5 DEF ClosedBefore
<1>9. ~ClosedBefore(c)'
  BY <1>6, <1>8 DEF ClosedBefore
<1>10. QueueSeen' = Tail(QueueSeen)
  BY <1>1, <1>3 DEF QueueSeen, HeadIsDone
<1>11. ConnsSeen' = [id \in DOMAIN ConnsSeen \cup {mMaxID} |->
                       IF id = mMaxID THEN [socket |-> c, state |-> "open"] ELSE ConnsSeen[id]]
  <2>1. ConnsSeen' = [id \in DOMAIN mConns' |->
                        [socket |-> mConns'[id],
                         state  |-> IF ClosedBefore(mConns[id])' THEN "closed" ELSE "open"]]
    BY DEF ConnsSeen
  <2>2. DOMAIN mConns' = DOMAIN mConns \cup {mMaxID} /\ DOMAIN ConnsSeen = DOMAIN mConns
    BY <1>3 DEF ConnsSeen
  <2>3. ConnsSeen'[mMaxID] = [socket |-> c, state |-> "open"]
    <3>1. mConns'[mMaxID] = c
      BY <1>3
    <3>2. ConnsSeen'[mMaxID] =
            [socket |-> c, state |-> IF ClosedBefore(c)' THEN "closed" ELSE "open"]
      BY <2>1, <2>2, <3>1 DEF ClosedBefore
    <3> QED BY <1>9, <3>2
  <2>4. ASSUME NEW id \in DOMAIN mConns
        PROVE  ConnsSeen'[id] = ConnsSeen[id]
    <3>1. mConns'[id] = mConns[id] /\ mConns[id] \in Clients
      BY <1>3, <1>7
    <3>2. PICK d \in Clients : d = mConns[id]
      BY <3>1
    <3>3. ConnsSeen'[id] =
            [socket |-> d, state |-> IF ClosedBefore(d)' THEN "closed" ELSE "open"]
      BY <2>1, <2>2, <3>1, <3>2 DEF ClosedBefore
    <3>4. ConnsSeen[id] =
            [socket |-> d, state |-> IF ClosedBefore(d) THEN "closed" ELSE "open"]
      BY <3>2 DEF ConnsSeen
    <3> QED BY <1>8, <3>3, <3>4
  <2>5. ConnsSeen' = [id \in DOMAIN ConnsSeen' |-> ConnsSeen'[id]]
        /\ DOMAIN ConnsSeen' = DOMAIN mConns'
    BY <2>1
  <2> QED BY <1>7, <2>2, <2>3, <2>4, <2>5
<1>12. FramesSeen' = FramesSeen
  BY <1>3, <1>5, FramesStay
<1>13. MessagesSeen' = MessagesSeen
  BY <1>3 DEF MessagesSeen, MessagesOf
<1>14. LateDrops' = LateDrops
  <2>1. dPc = "read" /\ conn[dConn].mClosed => dConn \in Clients \ {c}
    BY <1>6, Registrants
  <2>2. dPc = "read" => dConn \in Clients
    BY Registrants
  <2> QED BY <1>3, <1>5, <2>1, <2>2 DEF LateDrops
<1>15. Net!NextConnId = mMaxID + 1
  BY DEF Net!NextConnId
<1> HIDE DEF h
<1>16. Head(QueueSeen).socket = c
  BY <1>1, <1>2 DEF h
<1> QED BY <1>1, <1>3, <1>4, <1>10, <1>11, <1>12, <1>13, <1>14, <1>15, <1>16
        DEF Net!AcceptConnection, Net!wires

LEMMA RegistWriteEventUnseen ==
  ASSUME IInv, IInv', TakenOnce, ended = "no", RegistWriteEvent
  PROVE  SeenStays
<1>1. /\ nPc = "regist" /\ nPc' = "idle" /\ mNetQueue' = Tail(mNetQueue) /\ taken' = taken
      /\ Regist(conn[Head(mNetQueue).socket].fd, "write", Head(mNetQueue).socket)
      /\ UNCHANGED <<mWorkerQueue, peers, received, conn, driver, mConns, mMaxID>>
  BY DEF RegistWriteEvent
<1>2. ended' = ended
  BY <1>1 DEF Regist, IInv, EventsHaveOwners
<1>3. ~taken
  BY <1>1 DEF TakenOnce
<1>4. QueueSeen' = QueueSeen
  BY <1>1, <1>3 DEF QueueSeen, HeadIsDone
<1>5. ConnsSeen' = ConnsSeen
  <2>1. \A c \in Clients : ClosedBefore(c)' = ClosedBefore(c)
    BY <1>1 DEF ClosedBefore, driver
  <2> QED BY <1>1, <2>1, ConnsStay
<1>6. LateDrops' = LateDrops /\ MessagesSeen' = MessagesSeen
  BY <1>1 DEF LateDrops, MessagesSeen, MessagesOf, driver
<1>7. FramesSeen' = FramesSeen
  BY <1>1, FramesStay DEF peers
<1> QED BY <1>1, <1>2, <1>4, <1>5, <1>6, <1>7 DEF SeenStays, peers

(* A context handed on, or discarded, without a connection.                *)
LEMMA PassedOnSeen ==
  ASSUME IInv, TakenOnce, ended = "no", ForwardRecv \/ SendDiscarded
  PROVE  Net!ForwardRecv \/ Net!SendDiscarded
<1>1. UNCHANGED <<peers, received, conn, driver, service, ended>> /\ mNetQueue' = Tail(mNetQueue)
  BY DEF ForwardRecv, SendDiscarded
<1>2. ConnsSeen' = ConnsSeen
  <2>1. \A c \in Clients : ClosedBefore(c)' = ClosedBefore(c)
    BY <1>1 DEF ClosedBefore, driver
  <2> QED BY <1>1, <2>1, ConnsStay DEF service
<1>3. LateDrops' = LateDrops /\ MessagesSeen' = MessagesSeen
  BY <1>1 DEF LateDrops, MessagesSeen, MessagesOf, driver
<1>4. FramesSeen' = FramesSeen
  BY <1>1, FramesStay DEF peers
<1>5. ASSUME NEW op, NextContextIs(op)
      PROVE  /\ QueueSeen = mNetQueue /\ Net!NextIs(QueueSeen, op)
             /\ QueueSeen' = Tail(QueueSeen)
  <2>1. QueueSeen = mNetQueue /\ ~taken /\ nPc = "idle" /\ Net!NextIs(QueueSeen, op)
    BY <1>5, BetweenContexts
  <2> QED BY <1>1, <2>1 DEF QueueSeen, HeadIsDone, service
<1>6. UNCHANGED Net!netVars
  BY <1>1, <1>2, <1>3, <1>4 DEF Net!netVars, peers, service
<1>7. CASE ForwardRecv
  <2>1. NextContextIs("OP_RECV") /\ mWorkerQueue' = Append(mWorkerQueue, Head(mNetQueue))
    BY <1>7 DEF ForwardRecv
  <2>2. Net!ForwardRecv
    BY <1>5, <1>6, <2>1 DEF Net!ForwardRecv
  <2> QED BY <2>2
<1>8. CASE SendDiscarded
  <2>1. /\ NextContextIs("OP_SEND") /\ mWorkerQueue' = mWorkerQueue
        /\ Head(mNetQueue).conn \notin DOMAIN mConns
    BY <1>8 DEF SendDiscarded
  <2>2. QueueSeen = mNetQueue
    BY <1>5, <2>1
  <2>3. ~Net!Writable(Head(QueueSeen).conn)
    BY <2>1, <2>2 DEF Net!Writable, ConnsSeen
  <2>4. Net!SendDiscarded
    BY <1>5, <1>6, <2>1, <2>3 DEF Net!SendDiscarded
  <2> QED BY <2>4
<1> QED BY <1>7, <1>8

LEMMA SendEnqueuedUnseen ==
  ASSUME IInv, TakenOnce, ended = "no", SendEnqueued
  PROVE  SeenStays
<1>1. /\ nPc' = "write" /\ \E c, m : conn' = [conn EXCEPT ![c].mToSendMsg = Append(@, m)]
      /\ UNCHANGED <<queues, peers, received, driver, taken, mConns, mMaxID, ended>>
  BY DEF SendEnqueued
<1>2. nPc = "idle" /\ ~taken
  BY BetweenContexts DEF SendEnqueued
<1>3. \A d \in Clients : /\ conn'[d].mClosed = conn[d].mClosed /\ conn'[d].mRecved = conn[d].mRecved
                         /\ conn'[d].mConnID = conn[d].mConnID
  BY <1>1 DEF IInv, Types, Object
<1>4. QueueSeen' = QueueSeen
  BY <1>1, <1>2 DEF QueueSeen, HeadIsDone, queues
<1>5. ConnsSeen' = ConnsSeen
  <2>1. \A c \in Clients : ClosedBefore(c)' = ClosedBefore(c)
    BY <1>1, <1>3 DEF ClosedBefore, driver
  <2> QED BY <1>1, <2>1, ConnsStay
<1>6. LateDrops' = LateDrops
  <2>1. dPc = "read" => dConn \in Clients
    BY Registrants
  <2> QED BY <1>1, <1>3, <2>1 DEF LateDrops, driver
<1>7. FramesSeen' = FramesSeen
  BY <1>1, <1>3, FramesStay DEF peers
<1>8. MessagesSeen' = MessagesSeen
  BY <1>1 DEF MessagesSeen, MessagesOf
<1> QED BY <1>1, <1>4, <1>5, <1>6, <1>7, <1>8 DEF SeenStays, queues, peers

LEMMA DropConnectionSeen ==
  ASSUME IInv, TakenOnce, ended = "no", DropConnection
  PROVE  Net!DropConnection
<1> DEFINE id == Head(mNetQueue).conn
<1>1. /\ QueueSeen = mNetQueue /\ Net!NextIs(QueueSeen, "OP_DROP")
      /\ ~taken /\ nPc = "idle"
  BY BetweenContexts DEF DropConnection
<1>2. /\ \A c \in Clients : conn'[c] \in {conn[c], [conn[c] EXCEPT !.object = "deleted"]}
      /\ mConns' = [i \in DOMAIN mConns \ {id} |-> mConns[i]]
      /\ mWorkerQueue' = Append(mWorkerQueue, Drop(id)) /\ mNetQueue' = Tail(mNetQueue)
      /\ UNCHANGED <<peers, received, driver, nPc, taken, mMaxID, ended>>
  BY DEF DropConnection
<1> HIDE DEF id
<1>3. \A d \in Clients : /\ conn'[d].mClosed = conn[d].mClosed /\ conn'[d].mRecved = conn[d].mRecved
                         /\ conn'[d].mConnID = conn[d].mConnID
  <2>1. \A d \in Clients : LET x == [conn[d] EXCEPT !.object = "deleted"] IN
          x.mClosed = conn[d].mClosed /\ x.mRecved = conn[d].mRecved /\ x.mConnID = conn[d].mConnID
    BY DEF IInv, Types, Object
  <2> QED BY <1>2, <2>1
<1>4. QueueSeen' = Tail(QueueSeen)
  BY <1>1, <1>2 DEF QueueSeen, HeadIsDone
<1>5. ConnsSeen' = [i \in DOMAIN ConnsSeen \ {id} |-> ConnsSeen[i]]
  <2>1. \A c \in Clients : ClosedBefore(c)' = ClosedBefore(c)
    BY <1>2, <1>3 DEF ClosedBefore, driver
  <2>2. \A i \in DOMAIN mConns : mConns[i] \in Clients
    BY Registrants
  <2>3. ConnsSeen' = [i \in DOMAIN mConns \ {id} |->
                        [socket |-> mConns[i],
                         state  |-> IF ClosedBefore(mConns[i])' THEN "closed" ELSE "open"]]
    BY <1>2 DEF ConnsSeen, ClosedBefore
  <2>4. \A i \in DOMAIN mConns \ {id} : ConnsSeen'[i] = ConnsSeen[i]
    <3> SUFFICES ASSUME NEW i \in DOMAIN mConns \ {id}
                 PROVE  ConnsSeen'[i] = ConnsSeen[i]
      OBVIOUS
    <3>1. PICK d \in Clients : d = mConns[i]
      BY <2>2
    <3>2. mConns'[i] = mConns[i]
      BY <1>2
    <3>3. ClosedBefore(mConns[i])' = ClosedBefore(d)'
      BY <3>1, <3>2 DEF ClosedBefore
    <3>4. ConnsSeen'[i] = [socket |-> mConns[i],
                           state |-> IF ClosedBefore(mConns[i])' THEN "closed" ELSE "open"]
      BY <2>3
    <3>5. ConnsSeen[i] = [socket |-> d, state |-> IF ClosedBefore(d) THEN "closed" ELSE "open"]
      BY <3>1 DEF ConnsSeen
    <3> QED BY <2>1, <3>1, <3>3, <3>4, <3>5
  <2>5. /\ DOMAIN ConnsSeen' = DOMAIN mConns \ {id} /\ DOMAIN ConnsSeen = DOMAIN mConns
        /\ ConnsSeen' = [i \in DOMAIN ConnsSeen' |-> ConnsSeen'[i]]
    BY <2>3 DEF ConnsSeen
  <2> QED BY <2>4, <2>5
<1>6. LateDrops' = LateDrops
  <2>1. dPc = "read" => dConn \in Clients
    BY Registrants
  <2> QED BY <1>2, <1>3, <2>1 DEF LateDrops, driver
<1>7. FramesSeen' = FramesSeen
  BY <1>2, <1>3, FramesStay DEF peers
<1>8. MessagesSeen' = MessagesSeen
  BY <1>2 DEF MessagesSeen, MessagesOf
<1>9. Net!Drop(id) = Drop(id) /\ Head(QueueSeen).conn = id
  BY <1>1 DEF Net!Drop, Drop, id
<1> QED BY <1>1, <1>2, <1>4, <1>5, <1>6, <1>7, <1>8, <1>9
        DEF Net!DropConnection, Net!Restrict, Net!wires, peers

-----------------------------------------------------------------------------
LEMMA QuietTaking ==
  ASSUME IInv, TakenOnce, ended = "no", BuffersStay, QueueMoves, ServiceStays, taken' = taken
  PROVE  TakenOnce'
<1>1. CASE nPc = "write"
  <2>1. nPc' = "write" /\ mConns' = mConns /\ Head(mNetQueue') = Head(mNetQueue)
    BY <1>1, HeadIsKept
  <2>2. PICK c \in Clients : c = mConns[Head(mNetQueue).conn]
    BY <1>1, Registrants
  <2>3. mConns'[Head(mNetQueue').conn] = c
    BY <2>1, <2>2
  <2>4. IF taken THEN ~HasMessage(c)
        ELSE ~conn[c].mClosed => conn[c].mToSendMsg = <<Head(mNetQueue).msg>>
    BY <1>1, <2>2 DEF TakenOnce
  <2>5. IF taken' THEN ~(~conn'[c].mClosed /\ conn'[c].mToSendMsg # <<>>)
        ELSE ~conn'[c].mClosed => conn'[c].mToSendMsg = <<Head(mNetQueue').msg>>
    BY <2>1, <2>4 DEF BuffersStay, HasMessage
  <2> QED BY <2>1, <2>3, <2>5 DEF TakenOnce, HasMessage
<1>2. CASE nPc # "write"
  BY <1>2 DEF TakenOnce, ServiceStays
<1> QED BY <1>1, <1>2

LEMMA EnqueuedTaking ==
  ASSUME IInv, Unsent, TakenOnce, ended = "no", SendEnqueued
  PROVE  TakenOnce'
<1> DEFINE h == Head(mNetQueue)
<1>1. /\ NextContextIs("OP_SEND") /\ h.conn \in DOMAIN mConns
      /\ conn' = [conn EXCEPT ![mConns[h.conn]].mToSendMsg = Append(@, h.msg)]
      /\ nPc' = "write"
      /\ UNCHANGED <<mNetQueue, taken, mConns>>
  BY DEF SendEnqueued, queues
<1>2. nPc = "idle" /\ ~taken
  BY <1>1, BetweenContexts
<1>3. PICK c \in Clients : c = mConns[h.conn]
  BY <1>1, Registrants
<1> HIDE DEF h
<1>4. /\ conn'[c].mClosed = conn[c].mClosed
      /\ conn'[c].mToSendMsg = Append(conn[c].mToSendMsg, h.msg)
  <2> DEFINE q == Append(conn[c].mToSendMsg, h.msg)
  <2>1. conn' = [conn EXCEPT ![c].mToSendMsg = q] /\ conn \in [Clients -> Object]
    BY <1>1, <1>3 DEF IInv, Types
  <2> HIDE DEF q
  <2>2. conn'[c].mClosed = conn[c].mClosed /\ conn'[c].mToSendMsg = q
    BY <2>1 DEF Object
  <2> QED BY <2>2 DEF q
<1>5. ~conn[c].mClosed => conn[c].mToSendMsg = <<>>
  BY <1>2 DEF Unsent
<1>6. Append(<<>>, h.msg) = <<h.msg>>
  OBVIOUS
<1>7. ~conn'[c].mClosed => conn'[c].mToSendMsg = <<h.msg>>
  BY <1>4, <1>5, <1>6
<1>8. h' = h
  BY <1>1 DEF h
<1>9. mConns'[h'.conn] = c
  BY <1>1, <1>3, <1>8
<1> QED BY <1>1, <1>2, <1>7, <1>8, <1>9 DEF TakenOnce, h

LEMMA DriverTaking ==
  ASSUME IInv, Unsent, TakenOnce, ended = "no", ~ShortWrites, DriverWrites
  PROVE  TakenOnce'
<1> SUFFICES ASSUME ended' = "no"
             PROVE  TakenOnce'
  BY DEF TakenOnce
<1>1. PICK c \in Clients : c = dConn
  BY Registrants DEF DriverWrites
<1>2. /\ WriteData(c, mNetQueue) /\ ~WriteKills(c)
      /\ taken' = (taken \/ (nPc = "write" /\ HasMessage(c) /\ ended' = "no"
                               /\ mConns[Head(mNetQueue).conn] = c))
      /\ nPc' = nPc /\ mConns' = mConns
  BY <1>1 DEF DriverWrites, WriteKills
<1> SUFFICES ASSUME nPc = "write"
             PROVE  TakenOnce'
  BY <1>2 DEF TakenOnce
<1>3. PICK w \in Clients : w = mConns[Head(mNetQueue).conn]
  BY Registrants
<1>4. Head(mNetQueue') = Head(mNetQueue)
  <2>1. mNetQueue # <<>> /\ IsQueue(mNetQueue)
    BY Registrants DEF IInv, Types
  <2>2. mNetQueue' = mNetQueue \/ mNetQueue' = Append(mNetQueue, Drop(conn[c].mConnID))
    BY <1>2 DEF WriteData, NothingToWrite, WriteSome, WriteFails
  <2> QED BY <2>1, <2>2, HeadStays
<1>5. mConns'[Head(mNetQueue').conn] = w
  BY <1>2, <1>3, <1>4
<1>6. IF taken THEN ~HasMessage(w)
      ELSE ~conn[w].mClosed => conn[w].mToSendMsg = <<Head(mNetQueue).msg>>
  BY <1>3 DEF TakenOnce
<1>7. ASSUME conn'[w] = conn[w], taken' <=> taken
      PROVE  TakenOnce'
  <2>1. HasMessage(w)' <=> HasMessage(w)
    BY <1>7 DEF HasMessage
  <2> QED BY <1>2, <1>4, <1>5, <1>6, <1>7, <2>1 DEF TakenOnce, HasMessage
<1>8. CASE ~HasMessage(c)
  <2>1. conn' = conn /\ (taken' <=> taken)
    BY <1>2, <1>8 DEF WriteData, NothingToWrite, WriteSome, WriteFails
  <2> QED BY <1>7, <2>1
<1>9. CASE HasMessage(c) /\ w # c
  <2>1. \A d \in Clients \ {c} : conn'[d] = conn[d]
    BY <1>2 DEF WriteData, NothingToWrite, WriteSome, WriteFails, IInv, Types
  <2> QED BY <1>2, <1>3, <1>7, <1>9, <2>1
<1>10. CASE HasMessage(c) /\ w = c
  <2>1. conn'[c].mClosed \/ conn'[c].mToSendMsg = <<>>
    <3>1. conn \in [Clients -> Object] /\ conn[c] \in Object /\ MessageLength \in Nat \ {0}
      BY ConnectionAssumption DEF IInv, Types
    <3>2. CASE WriteSome(c, mNetQueue)
      <4>1. PICK n \in 1 .. MessageLength - conn[c].mSent :
              n = MessageLength - conn[c].mSent /\ conn' = [conn EXCEPT ![c] = Sent(conn[c], n)]
        BY <3>2 DEF WriteSome
      <4>2. conn[c].mSent = 0 /\ Tail(conn[c].mToSendMsg) = <<>> /\ conn[c].mToSendMsg # <<>>
        BY <1>10 DEF Unsent, HasMessage
      <4>3. n \in Nat /\ conn[c].mSent + n = MessageLength
        BY <3>1, <4>1, <4>2
      <4>4. Sent(conn[c], n).mToSendMsg = <<>>
        BY <3>1, <4>2, <4>3, SendingSome
      <4> QED BY <3>1, <4>1, <4>4
    <3>3. CASE WriteFails(c, mNetQueue)
      <4>1. conn' = [conn EXCEPT ![c] = Closed([@ EXCEPT !.mSent = 0])]
        BY <3>3 DEF WriteFails
      <4>2. Closed([conn[c] EXCEPT !.mSent = 0]).mClosed
        BY <3>1 DEF Closed, Object
      <4> QED BY <3>1, <4>1, <4>2
    <3> QED BY <1>2, <1>10, <3>2, <3>3 DEF WriteData, NothingToWrite
  <2>2. taken'
    BY <1>2, <1>3, <1>10
  <2> QED BY <1>2, <1>5, <1>10, <2>1, <2>2 DEF TakenOnce, HasMessage
<1> QED BY <1>8, <1>9, <1>10

LEMMA TakenOnceStays == IInv /\ Unsent /\ TakenOnce /\ ~ShortWrites /\ [Next]_vars => TakenOnce'
<1> SUFFICES ASSUME IInv, Unsent, TakenOnce, ~ShortWrites, [Next]_vars
             PROVE  TakenOnce'
  OBVIOUS
<1>1. CASE ended = "no" /\ Environment
  <2>1. taken' = taken
    BY <1>1 DEF Environment, service
  <2> QED BY <1>1, <2>1, EnvironmentIsQuiet, QuietTaking
<1>2. CASE ended = "no" /\ DriverStep /\ ~DriverWrites
  <2>1. taken' = taken
    BY <1>2 DEF DriverStep, Poll, Dispatch, AcceptSocket, EnterReadData, ReadNotOkay, PreRecv,
       RecvPart, RecvRest, EndOfStream, RefuseLength, UnRegistAndReport, UnRegistSilently,
       UnRegistAborts, Crash, service
  <2> QED BY <1>2, <2>1, DriverIsQuiet, QuietTaking
<1>3. CASE ended = "no" /\ ServiceStep /\ ~SendEnqueued /\ ~ServiceWrites
  <2>1. taken' = taken
    BY <1>3 DEF ServiceStep, AcceptConnection, RegistWriteEvent, ForwardRecv, SendDiscarded,
       DropConnection, service
  <2> QED BY <1>3, <2>1, ServiceIsQuiet, QuietTaking
<1>4. CASE ended = "no" /\ SendEnqueued
  BY <1>4, EnqueuedTaking
<1>5. CASE ended = "no" /\ ServiceWrites
  BY <1>5 DEF ServiceWrites, TakenOnce
<1>6. CASE ended = "no" /\ DriverWrites
  BY <1>6, DriverTaking
<1>7. CASE UNCHANGED vars
  BY <1>7 DEF vars, queues, service, TakenOnce, HasMessage
<1> QED BY <1>1, <1>2, <1>3, <1>4, <1>5, <1>6, <1>7 DEF Next

-----------------------------------------------------------------------------
LEMMA HandlersAreSeen ==
  ASSUME AInv, IInv', ~ShortWrites, [Next]_vars
  PROVE  [Environment \/ WholeHandler]_<<Net!netVars, Net!queues>>
<1> USE DEF AInv, MInv, FInv
<1>1. CASE ended = "no" /\ Environment
  BY <1>1
<1>2. CASE ended = "no" /\ DriverStep
  <2>1. CASE Poll \/ Dispatch \/ EnterReadData \/ EndOfStream \/ PreRecv \/ RecvPart
               \/ UnRegistSilently \/ UnRegistAborts \/ Crash
    <3>1. SeenStays
      BY <1>2, <2>1, LoopUnseen, EndOfStreamUnseen, PartUnseen, UnRegistSilentlyUnseen, EndsUnseen
    <3> QED BY <3>1, NothingSeen
  <2>2. CASE \E c \in Clients : AcceptSocket(c)
    <3>1. \E c \in Clients : Net!AcceptSocket(c)
      BY <1>2, <2>2, AcceptSocketSeen
    <3> QED BY <3>1 DEF WholeHandler
  <2>3. CASE ReadNotOkay
    <3>1. \E id \in 0 .. mMaxID : Net!ReadNotOkay(id)
      BY <1>2, <2>3, ReadNotOkaySeen
    <3> QED BY <3>1 DEF WholeHandler
  <2>4. CASE RecvRest \/ RefuseLength \/ UnRegistAndReport
    <3>1. \E id \in DOMAIN mConns : Net!ReadData(id)
      BY <1>2, <2>4, RecvRestSeen, RefuseLengthSeen, UnRegistAndReportSeen
    <3> QED BY <3>1 DEF WholeHandler
  <2>5. CASE DriverWrites
    <3>1. SeenStays \/ Net!SendMsg
      BY <1>2, <2>5, DriverWritesSeen
    <3> QED BY <3>1, NothingSeen DEF WholeHandler, Net!NetProcess
  <2> QED BY <1>2, <2>1, <2>2, <2>3, <2>4, <2>5 DEF DriverStep
<1>3. CASE ended = "no" /\ ServiceStep
  <2>1. CASE RegistWriteEvent \/ SendEnqueued
    <3>1. SeenStays
      BY <1>3, <2>1, RegistWriteEventUnseen, SendEnqueuedUnseen
    <3> QED BY <3>1, NothingSeen
  <2>2. CASE AcceptConnection \/ ForwardRecv \/ SendDiscarded \/ DropConnection
    <3>1. Net!AcceptConnection \/ Net!ForwardRecv \/ Net!SendDiscarded \/ Net!DropConnection
      BY <1>3, <2>2, AcceptConnectionSeen, PassedOnSeen, DropConnectionSeen
    <3> QED BY <3>1 DEF WholeHandler, Net!NetProcess, Net!SendMsg
  <2>3. CASE ServiceWrites
    <3>1. SeenStays \/ Net!SendMsg
      BY <1>3, <2>3, ServiceWritesSeen
    <3> QED BY <3>1, NothingSeen DEF WholeHandler, Net!NetProcess
  <2> QED BY <1>3, <2>1, <2>2, <2>3 DEF ServiceStep
<1>4. CASE UNCHANGED vars
  <2>1. SeenStays
    BY <1>4 DEF vars, queues, peers, driver, service, SeenStays, QueueSeen, HeadIsDone, ConnsSeen,
       ClosedBefore, LateDrops, FramesSeen, FramesOf, MessagesSeen, MessagesOf
  <2> QED BY <2>1, NothingSeen
<1> QED BY <1>1, <1>2, <1>3, <1>4 DEF Next

LEMMA InitSeen ==
  ASSUME Init
  PROVE  Net!NetInit /\ TakenOnce
<1>1. \A c \in Clients : conn[c] = NoConnection /\ stream[c] = <<>> /\ received[c] = <<>>
  BY DEF Init
<1>2. FramesOf(<<>>) = <<>> /\ MessagesOf(<<>>) = <<>>
  <2>1. Len(<<>>) = 0 /\ 0 \in Nat /\ <<>> \in Seq(Nat) /\ 0 < FrameLength
    BY FrameLengths
  <2>2. FramesOf(<<>>) = <<>>
    BY <2>1, NoFrameYet
  <2>3. 0 \div MessageLength = 0
    BY ConnectionAssumption, Quotients
  <2> QED BY <2>1, <2>2, <2>3 DEF MessagesOf
<1>3. FramesSeen = [c \in Clients |-> <<>>]
  <2>1. \A c \in Clients : conn[c].mRecved \o stream[c] = <<>> /\ ~conn[c].mClosed
    BY <1>1 DEF NoConnection
  <2> QED BY <1>2, <2>1 DEF FramesSeen
<1>4. MessagesSeen = [c \in Clients |-> <<>>]
  BY <1>1, <1>2 DEF MessagesSeen
<1>5. QueueSeen = <<>> /\ LateDrops = {}
  BY DEF Init, QueueSeen, HeadIsDone, LateDrops
<1>6. ConnsSeen = [id \in {} |-> id]
  BY DEF Init, ConnsSeen
<1>7. TakenOnce
  BY DEF Init, TakenOnce
<1> QED BY <1>3, <1>4, <1>5, <1>6, <1>7 DEF Init, Net!NetInit

(* If send() takes whole messages, the handlers of the two threads take    *)
(* effect as a whole, whatever the lengths of frames and messages: reading *)
(* in pieces, writing on either thread, closing and registering in several *)
(* steps, every step of Connection is one of NetService's or changes       *)
(* nothing that is seen there.                                             *)
THEOREM HandlersAlwaysAtomic == ~ShortWrites => (Spec => HandlersAreAtomic)
<1> SUFFICES ASSUME ~ShortWrites
             PROVE  Spec => HandlersAreAtomic
  OBVIOUS
<1>1. Init => AInv /\ Net!NetInit
  <2>1. Init => Unsent
    BY DEF Init, Unsent, NoConnection
  <2> QED BY <2>1, InitIInv, InitMInv, InitFInv, InitSeen DEF AInv
<1>2. AInv /\ [Next]_vars => AInv'
  BY InductiveIInv, UnsentStays, InductiveMInv, InductiveFInv, TakenOnceStays DEF AInv
<1>3. AInv /\ AInv' /\ [Next]_vars => [Environment \/ WholeHandler]_<<Net!netVars, Net!queues>>
  BY HandlersAreSeen DEF AInv
<1>4. Spec => [][Environment \/ WholeHandler]_<<Net!netVars, Net!queues>>
  BY <1>1, <1>2, <1>3, PTL DEF Spec
<1> QED BY <1>1, <1>4, PTL DEF Spec, HandlersAreAtomic
===============================================================================
