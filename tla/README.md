# net_uv: formal models and proofs

`net_uv` (`src/common/net_uv`) is a C++ network library on libuv: TCP and KCP
clients and servers with sessions, a UDP hole-punching layer and an HTTP server.
Its own logic is not in the bytes but in **who owns a session when**: two threads
create, use, announce, remove and free sessions through two queues, libuv calls
back into objects that may be on their way out, and a KCP connection is put
together from datagrams that may be lost, repeated or reordered. That is what
these modules model, check with TLC and prove with TLAPS. On the library stands
`src/FSTransfer`, a file transfer with a protocol of its own, which is modelled
and proved about too. Every safety property a run checks is also a theorem.

Paths below are relative to `src/common/net_uv/`, or begin with `src/`. The sources are GBK-encoded.

## 1. The system

| component | state | operations | interaction |
|---|---|---|---|
| `base/Runnable`, `base/SessionManager` | the loop thread, `m_msgQue`, `m_operationQue`, both with a private dispatch queue | `pushThreadMsg`, `getThreadMsg`, `pushOperation`, `executeOperation` | the only channel between application thread and loop thread |
| `tcp/TCPSession`, `tcp/TCPSocket` | `m_isOnline`, `m_tcp`, pending close, receive buffer, heartbeat counters | connect, accept, send, disconnect, read, close callbacks | owned by client or server; libuv holds its address |
| `tcp/TCPClient` | `m_allSessionMap` with connect state, `removeTag`, `reconnect`; `m_clientStage`; `m_isStop` | connect, disconnect, removeSession, send, setAutoReconnect..., closeClient, destructor, `updateFrame` | announces everything by messages; `REMOVE_SESSION` comes back as `DELETE_SESSION` |
| `tcp/TCPServer` | `m_allSession` with `isInvalid`; `m_serverStage`; `m_start`; the listening socket | startServer, stopServer, send, disconnect, destructor, `updateFrame` | `DIS_CONNECT` comes back as the operation that frees the session |
| `kcp/KCPSocket` | `m_kcpState`, `m_conv`, `m_socketAddr`, timers | connect, accept, disconnect, the handshake packets, `socketUpdate` | over UDP; tells its session or the manager |
| `kcp/KCPSocketManager` | vectors of waiting and of connected sockets with `invalid` marks, conv counter, recess per IP | `accept`, `remove`, `clearInvalid`, `idleRun`, `stop_listen` | owned by the listening socket |
| `kcp/KCPServer`, `kcp/KCPClient`, `kcp/KCPSession` | as TCP | as TCP | |
| `base/DNSCache`, `base/Misc` | one cache shared by all threads, `lastTime` per host, `m_lastClearTime` | add, rand_get, clearCache, clearAll, the purge in add | every loop thread resolves addresses through it |
| `tcp/TCPUtils`, `base/Buffer`, `common/NetHeart.h`, `tcp/TCPSession` | receive buffer, heartbeat time and count per session | packing in chunks, unpacking, probe and answer | chunks pass through the operation queue, heartbeats do not |
| `p2p/P2PPipe`, `p2p/P2PPeer` | sessions per address; requests per key; accepted clients; holes | connectToPeer, disconnect, stop, the timers, the messages between peers | on UDP with ikcp; a turn server introduces the peers |
| `p2p/P2PTurn` | logged-in peers | CHECK_PEER, START_BURROW | environment of the peers |
| `puretcp/*`, `udp/*`, `http/*` | | variants and layers | |
| `src/FSTransfer` | `m_task`, `m_duty` of either end; the pool's waiting and executing tasks | upload, download, slices, check, reconnection | on TCPClient and TCPServer |
| test and control applications | | use the library | |

Vendored code (libuv, rapidjson, ikcp, md5, wxWidgets) is not modelled; libuv
appears as what its callbacks may do. `PROJECT.json` lists every component with
its status, and every hazard with its line.

### What is hard here

* *Ownership across threads.* The loop thread frees sessions; the application
  reads `Msg.pSession` outside any lock. Only the protocol of messages and
  operations keeps the pointer valid.
* *Removal from several places.* A session is removed by `removeSession()`, by a
  close while `removeTag` is set, and by the sweep of `closeClient()`. Each must
  see what the others did.
* *Ends.* The loop ends when the map is empty; nothing may be created afterwards,
  and the last message must be the last one. Destructors join without polling.
* *libuv.* An object may be freed only when no callback of it is pending.
* *Datagrams.* Each of five kinds of packets may be missing, late or repeated.
* *Streams.* A read may end anywhere; a message in chunks shares the stream with
  heartbeats that bypass the queue.
* *One connection under several keys.* A P2P peer is asked for by its public
  key, found at an address, and kept in three maps.
* *Pointers out of a lock.* The DNS cache gives away addresses of its entries.
* *Resuming.* A broken file transfer goes on with the state one end kept and the
  other has not, and what was received before the break may be handled after the
  reconnection.
* *Marked entries.* The KCP manager marks entries and clears them one idle
  callback later; everyone in between must skip them.

### What makes each component correct

* Client: a message points to the live session it was sent for; a removal is
  announced once and last; nothing survives the sweep; the close callback is the
  last callback; `closeClient()` and `removeSession()` come to an end.
* Server: a session leaves once and is freed afterwards; none is forgotten; the
  loop stops with nothing left; `stopServer()` comes to an end.
* KCP: both ends agree on the conv; one socket per address; the manager never
  touches a freed socket; waiting is bounded in number and in time.
* Framing: messages arrive whole, in order and without a gap; a connection is
  dropped for a reason; the heartbeat finds a silent peer and is quiet otherwise.
* P2P: what the application believes, what the peer keeps and what the pipe has
  stay in step; a call is answered; a peer that went away is noticed.
* DNS cache: a lookup returns the port asked for; a purge spares what is in use.
* File transfer: a message finds its task; success means an intact file; a
  transfer ends. None of the three holds without exceptions in this code; the
  properties say which, and that there are no others.

## 2. The modules

| module | models | |
|---|---|---|
| `TCPSession` | `tcp/TCPSession.cpp`, `tcp/TCPSocket.cpp` | what both users of a session do to it, as functions of its data |
| `TCPClient` | `tcp/TCPClient.cpp`, `base/Runnable.cpp`, `base/SessionManager.cpp` | the two threads, the two queues, every call and callback |
| `ClientContract` | what `base/Client.h` offers | abstract: the order of callbacks of each session id |
| `TCPClientInv` | | the inductive invariant of `TCPClient` |
| `TCPClientProofs` | | type correctness; the invariant is inductive, and what follows from it; what a step may never do: the action properties, and the contract as a refinement |
| `TCPServer` | `tcp/TCPServer.cpp`, same base | as the client |
| `ServerContract` | what `base/Server.h` offers | abstract |
| `TCPServerInv` | | the inductive invariant of `TCPServer` |
| `TCPServerProofs` | | it is inductive, what follows from it, the action properties, and the contract as a refinement |
| `KCPHandshake` | `kcp/KCPSocket.cpp`, `kcp/KCPSocketManager.cpp`, `kcp/KCPServer.cpp`, `kcp/KCPSession.cpp` | clients, listening socket, manager, server stages, the network |
| `KCPHandshakeProofs` | | the inductive invariant of `KCPHandshake` and its theorems |
| `Framing` | `tcp/TCPUtils.cpp`, receiving and heartbeat of `tcp/TCPSession.cpp`, `send()` of client and server | the two ends of one connection, the stream between them, the timers |
| `FramingProofs` | | the inductive invariant of `Framing`, what its receiving loop does with any stream, and its theorems |
| `P2PPeer` | `p2p/P2PPeer.cpp`, `p2p/P2PPipe.cpp` | peers, their maps and timers, the datagrams; the turn server as environment |
| `P2PPeerProofs` | | the inductive invariant of `P2PPeer` and its theorems |
| `DNSCache` | `base/DNSCache.cpp`, `net_getsocketAddr` of `base/Misc.cpp` | threads that look up, add and purge |
| `DNSCacheProofs` | | the inductive invariant of `DNSCache` and its theorems |
| `FSTransfer` | `src/FSTransfer/FSTransfer.cpp`, `FSTransferPool.cpp` | transfers of one file, both ends of their connections, the queues of the applications, the pool |
| `FSTransferProofs` | | the inductive invariant of `FSTransfer` and its theorems |
| `Streams` | | lemmas about queues put end to end and induction over a set of numbers, which the proofs share |
| `MC*` | | values and symmetry for TLC |

`TCPClient` and `TCPServer` extend `TCPSession` and instantiate their contract
with a refinement mapping (`Contract == INSTANCE ... WITH`); the contract's
specification is then a property of the detailed one.

### State and actions

*Threads.* The application's thread is the actions of `ApiCall`, `UpdateFrame`
and `DeleteReturns`, the loop thread all others. An application call may fall
between any two callbacks of the library, which covers calls made from within a
callback. The loop thread is sequential: while `m_operationDispatchQue` (client)
or `idleRun` (server) says that a batch of operations is executed, no libuv
callback runs (`LoopFree`), but the application's thread goes on.

*Queues.* `GetThreadMsg` and `TakeOperations` move a whole queue, as the code
does with a swap under the mutex. A failed `trylock` is a step not taken.

*Sessions.* An entry of `m_allSessionMap` is a record: the code's own fields
plus `tcp` (what the `uv_tcp_t` is doing), `closing` (a `uv_close` whose callback
is due) and `incarnation`, which tells apart the objects that lived under one id
as their addresses do. Messages carry the incarnation where the code carries a
pointer.

*The kernel and the peers.* `KernelConnect` ends an attempt in any of
`Outcomes`; `OnEof`, `OnSessionRecvData`, `OnIllegalData`, `OnIllegalHeart`
and `HeartbeatLost` are what received bytes, their absence or a failed
heartbeat can do.

*KCP.* An idle callback has three parts, in the code's order: `ClearInvalid`, then
`Update...` of sockets until `UpdateEnd`, then the application's operations until
one of `IdleRun`, `IdleClear`, `IdleWaitSessionClose`. Datagrams are received only
between two idle callbacks. `net` is the set of datagrams on their way; with
`Duplicates` a received one stays. A vector's entry is `"valid"`, `"invalid"`,
`"null"` (the pointer moved to the other vector) or `"none"`.

*Framing.* A byte is a cell `<<packet, position>>`, so that a hash is agreement
of cells; a head is two cells, a hash one. `SendCall` cuts a message into the
chunks of `tcp_packageData`, `PushChunk` is one `pushOperation`, `Drain` the batch
the loop thread takes. `Read` takes any number of cells and runs `RecvLoop`, the
loop of `on_socket_recv`: a recursive function of its rounds, as many as the buffer
has cells, of which those after the end of the loop change nothing. `Tick` is `TCPSession::update`, in the four
cases of its branches. The network is prompt, slow, or dead.

*P2P.* A `P2PPeer` is a record of the maps of the code; a callback is made by the
step that queues it. Keys are pairs of peer and network: on a local network the
turn server tells another address than the public key the application asked
for. Each message of `P2PPipe` is an action, the two timers (`OnTimer`,
`HeartCheck`) are others. A datagram is lost by not entering `net`, late by staying.
A walk over the session map that removes several is a sequence of removals, in any
order.

*DNS cache.* Each locked section of `DNSCache.cpp` and each access through the
pointer is a step. `node` and `moves` of an entry say whether it is still the
same map node and whether its vector moved, which is what a pointer into it
depends on; `since` remembers what other threads did to the host meanwhile.

*File transfer.* A file is a sequence of slices, 0 for a hole; each message of
`FSTransfer::input` is an action, duties and tasks are the code's. The client's end
of a call is number 0: its object stays over all connections, `conn` is its
connection as its loop thread knows it. The k-th connection of a call ends at the
server in number k, a session and an object of its own, open as long as `open` has
it. Each loop thread notices a break at its own time (`Break`, `BreakAtServer`), and
any part of what was on its way may have been received by then: it stays in `chan`
and the application handles it when it comes to it, in the client's case perhaps
after the connect callback of the next connection was queued. Answers go where
the client's session id leads at the time of sending (`Reached`); the operation
queue between sending and writing adds to the same delay and is not a step of its
own. `Erase` is the server's disconnect callback. Every `fopen` may fail: the
sender's for the announcement (`PostFile`) and for the transfer
(`OnPostFileResult`), the receiver's "wb+" (`OnPostFile`, where a larger file was
already removed) and its `getFileSize`, which then gives 0. A sender whose file is
missing is one whose `fopen` fails. `FST_E_NAME_ERROR` cannot occur: the pool drops an
empty name before it is sent (`FSTransferPool.cpp:73`, `88`). The last slice written may still be in
the stream's buffer when another object asks for the size, and a file whose
object was erased is never closed.

The check reads 1024 bytes at both ends of the file. `telling` says in which of the
slices it reads from (`Looked`) a hole would be seen: a hole reads as zeros, so not
in one whose bytes read are zeros in the sender's file, too. Hashes are taken not
to collide otherwise. `marks` and `overlap` are history: a client that answered over a
newer connection (`"late"`), one whose task outlived its connection (`"cut"`), an
`fopen` that failed (`"refused"`), a file that two receivers had open.

*Variants.* Each module has faulty variants of some definitions, one slip each,
that no action uses. `PROJECT.json` names for each property the definition that,
replaced by its variant, breaks it: the properties are not vacuous.

## 3. The runs

| run | bounds | shows |
|---|---|---|
| `client_calls` | 1 id, 2 connects, all 8 calls, all 3 outcomes, 1 op and 1 msg ahead | safety of every call in every order, the inductive invariant, and the contract |
| `client_live` | 1 id, 2 connects, connect/remove/close/delete | closing, removing, deleting |
| `server` | 2 sessions, all calls | safety, contract and ends of the server |
| `kcp_safe` | 2 clients, 2 accepted connections, limit 0, duplicates | agreement, one socket per address, no freed socket touched by `idleRun` and `isAccept` |
| `kcp_complete` | 1 client, 2 convs, 3 losses | an attempt that nobody gives up (no connect timers) completes in any order of arrival, if the client's one answer arrives |
| `kcp_stop` | 1 client, stop and disconnect, both timers | stopping ends; nobody waits for ever |
| `p2p_safe` | 2 peers (symmetric) that call each other once, 1 hang-up, 1 stop, 2 datagrams in flight | maps, pipe and application stay in step |
| `p2p_live` | 2 peers, 1 call, 1 stop, 2 datagrams | a call resolves; a peer that left is reported |
| `framing` | 2 messages of the client, of 1 to 3 cells, chunks of 4, reads up to 6, 2 probes | framing under every cut, reasons of a drop, the heartbeat |
| `framing_split` | the same, 1 probe | a disagreement, section 5 |
| `fs` | 3 calls, files of 0 or 3 slices that begin with zeros or not, 2 files found (none, a larger one), pool of 2, 1 break or failed connection, any `fopen` fails, any lag | messages find their task, success is intact, transfers end; the exceptions |
| `dns` | 2 threads and 2 hosts (threads symmetric), 2 ports, 3 times | ports and purges |

*Why these bounds.* A session's life is create, connect, fail or come up, go
down, be removed, be deleted, be created again under the same id: two connects
of one id reach every edge of it, including a second incarnation whose messages
could be mistaken for the first's. `MaxOps` and `MaxMsgs` bound how far the
application's new calls and the peers' new data run ahead; what the threads
answer to each other is never bounded, so queues grow longer than these. Sessions
share only the queues, the stage and the sweep; that one of any number is not
disturbed by the others there is what the theorems of section 4 say, which hold
for every set of ids. For the
server, a second session is enough to be open while another is announced. Two
convs let a client be accepted twice, or two clients at once; with `AwaitLimit`
0 the second waiting socket already starts a recess. The datagram types and not
their number matter: a set with duplicates is closed under repetition.

A message of one cell fits one chunk of four, one of two needs two chunks, one of
three is what `send()` lets through and the receiver refuses; a read of up to six cells ends within a packet, at its end or in the next one, and may
fill the buffer. One call from each peer crosses with the other's; the counters
`MaxTry`, `MaxNoResponse` and `MaxHello` only delay what they count to. A purge
that is due every second (`ClearEvery` 0) with entries that grow stale in two
meets every age of an entry. A file of three slices has a slice, the first, that a
resumed transfer may leave as a hole while it writes two more; a third call waits
in a pool of two. One break is enough for a resumed transfer, an answer that is late, and an
announcement that is ignored; that more breaks change nothing is what the
theorems on `FSTransfer` say.

`MaxConnects`, `MaxSessions`, `MaxConv`, `MaxLost`, `MaxCalls`, `MaxHangups`,
`MaxStops`, `MaxNet`, `MaxWire`, `MaxDrift`, `MaxDrops`, `MaxNodes` and `MaxTime`
bound what would go on for ever; all are in guards and all are named constants.

*Fairness.* Strictly what the threads do: the application polls (`UpdateFrame`)
until it deletes the object; the loop thread runs operations and callbacks. Strong
fairness is used for callbacks of libuv, since the guard `LoopFree` is interrupted
by batches of operations while `uv_run` still runs every due callback in each
iteration. The kernel ends every connection attempt. For KCP: idle callbacks run,
resending timers fire again and again, a datagram that stays on its way is
received in the end (loss is an action of its own, bounded by `MaxLost`), and the
application answers `DIS_CONNECT`. No call of the application is fair: it may
never close, remove or delete. In `Framing` only the repeating timers of both
ends are fair, in `P2PPeer` the two timers of each peer: nothing is assumed of
the network. In `FSTransfer` something goes on (`GoesOn`) as long as one of the two
applications has a message to handle, a reconnect timer can connect (failures
are bounded by `MaxDrops`) or a heartbeat can notice that the server closed; this
is less than fairness of each of them, and no single one is favoured.

`Deadlock` is checked in the runs of client, server and handshake: a client may
rest only with the loop waiting for events, which `Finished` or a pending action
shows. In `p2p_*`, `framing*`, `fs` and `dns` it is not: both peers may have
stopped, both ends dropped the connection, every transfer ended, or every bound
be reached, and then nothing is to come.

The runs are kept to a dozen; each asks questions of one configuration.
A run goes when a theorem covers it: two sessions of one client, once a run, are
an instance of the theorems.

## 4. What is proved

### The client

For every set of session ids, every subset of calls and outcomes and every bound:

| theorem | `Spec =>` | |
|---|---|---|
| `TypeCorrect` | `[]TypeOK` | every queue, stage and entry is of its type |
| `Safety` | `[]ClientInv` | the inductive invariant |
| `MessagesDoNotDangle` | `[]NoDanglingMessage` | the pointer `updateFrame()` hands out is alive, and the right one |
| `RemovalIsFinal` | `[]RemovedOnceAndLast` | one removal, nothing after it |
| `SweepIsFinal` | `[]NothingAfterSweep` | no session is left behind, none is to come |
| `ExitIsLast` | `[]ExitLoopLast` | `m_clientCloseCall` is the last callback |
| `FreedSessionIsQuiet` | `FreedWhenQuiet` | libuv never calls a freed session |
| `JoinDeadlocks` | `DeleteDeadlocks` | a join that waits for a session nobody polls for never returns |
| `OnlyFailedConnectOrphans` | `OrphanedByFailedConnect` | a failed attempt is the only way to a session nobody removes (section 5) |
| `KeepsContract` | `ContractSpec` | the two threads implement `ClientContract` |

Assumptions: the named ones in `TCPClient` (`NoSession` is not a session id,
finitely many ids, the sets are of the right kind, the bounds are naturals),
which TLC evaluates in every client run.

*Why an invariant of its own.* None of the properties is inductive. That a
message does not dangle depends on when its session is deleted, which depends on
the deletion having been asked for by a removal that was the last message, which
depends on who announces removals. `ClientInv` says all of this at once, of two
streams: `Messages` and `Operations` put each thread's private queue in front of
the shared one, so that moving a batch changes neither.

* `SocketInv`: what libuv has of a socket agrees with `connectState`; in
  particular nothing when it is `DISCONNECT`. `FreedSessionIsQuiet` needs it.
* `SessionInv`: a session of which anything is queued is in the map, and is that
  object; a queued `REMOVE_SESSION` is the last message of its session, a queued
  `DELETE_SESSION` excludes every message of it; either implies that the session
  is `Leaving`: disconnected, with `removeTag` set.
* `CloseOrder` and `StageInv`: no `CONNECT` stands behind `CLIENT_CLOSE`, none is
  left once the stage moved; the loop ends only in the last stages, and then
  with an empty map.
* `ExitInv`: `EXIT_LOOP` exists only after the loop thread is done, at the end.

*The argument.* What a step does to the streams is one of four things: append an
operation (`PushInv`), take the first message (`HearInv`, and `HearRemovalInv`
when the removal turns into a deletion), take the first operation (`TakeInv`), or
turn an entry `d` into `d2` and append messages about it (`SayInv`). For the last
`Says(s, d, msgs, d2)` is the condition: a session that is `Leaving` stays so and
is not spoken of, and a removal is said last, by a step that makes the session
`Leaving`. Each operation and callback of the source is then one lemma showing
that it keeps to `Says` and to `SocketInv`. The deletion is the exception: it may
turn the entry into anything, because by `SessionInv` nothing is queued about it.
The theorems about messages, sweep and exit are read off `ClientInv`;
`FreedSessionIsQuiet` looks at the two steps that take an entry out of the map
(`SessionsStay`). `JoinDeadlocks` rests on `JoiningStep`: while the destructor
joins, `updateFrame()` does not run, so no deletion is queued and the map keeps
the session. `OnlyFailedConnectOrphans` follows an announced removal: it stays in
the streams, as message and then as operation (`AnnouncedStays`), until the
deletion, and every step that makes a session `Leaving` announces it
(`NoNewOrphan`; for the sweep, an order of distinct sessions has all of them,
`SweepAnnounces`), except a failing `OnSocketConnect`.

*The refinement.* `ClientContract` knows a session by the word the application
was told of it last. The order of the callbacks is decided by the loop thread
when it queues the messages, so the mapping needs a second invariant, `TellInv`:
the messages queued of a session lead (`Leads`) from the word told last to a word
that fits the session's entry (`LastWord`), and each `May` come when its turn
comes; a deletion is queued only of a session that was told to be removed. A
session may be connected without the application hearing of it
(`OnSocketConnect` when it is unwanted); `LastWord` says that such a session is
closing already, and that it is being removed or the client is closing, which
is when the contract lets it go down unannounced. Each step of the loop thread
turns an entry into one that `Continues` what was said, and is a `Leave` or a
stutter of the contract; the deletion is its `Forget`, `DispatchMsg` one of its
callbacks (`DispatchKeepsContract`). `m_clientCloseCall` is its `Closed`: behind
`EXIT_LOOP` nothing is queued and the map is empty, so the last word of every
session is its removal (`AllRemoved`).

### The server

For every number of accepted sessions, every subset of calls and every bound:

| theorem | `Spec =>` | |
|---|---|---|
| `TypeCorrect` | `[]TypeOK` | every queue, stage and entry is of its type |
| `Safety` | `[]ServerInv` | the inductive invariant |
| `MessagesDoNotDangle` | `[]NoDanglingMessage` | the pointer `updateFrame()` hands out is alive |
| `GoodbyeIsFinal` | `[]LeavesOnceAndLast` | one `DIS_CONNECT`, nothing after it, the release behind it |
| `OfflineIsLeaving` | `[]NoSessionLost` | a session that is down is on its way out |
| `LoopEndsEmpty` | `[]StopsEmpty` | the loop thread ends with an empty map |
| `ExitIsLast` | `[]ExitLoopLast` | `m_closeCall` is the last callback |
| `FreedSessionIsQuiet` | `FreedWhenQuiet` | libuv never calls a freed session |
| `JoinDeadlocks` | `DeleteDeadlocks` | as for the client |
| `KeepsContract` | `ContractSpec` | the two threads implement `ServerContract` |

Assumptions: `BoundsAssumption` and `CallsAssumption` of `TCPServer`.

*The invariant.* `ServerInv` speaks of the same two streams as the client's.

* `SocketInv`: the life of an entry is free, online, closing, gone; no step goes
  back, since a server's session is never connected again.
* `LeaveInv`: `DIS_CONNECT` is the last of what is queued of a session and the
  only one, its release is queued only when nothing else of it is, and once; a
  session that is gone has one or the other. That is what makes the pointers in
  the messages valid: the release cannot overtake them, because the
  application's thread queues it while it handles the last one.
* `ComeInv`: `NEW_CONNECT` is the first word of a session, and what the
  application was told last agrees with what is still queued. Only `KeepsContract`
  needs it; without it an application might hear of data before the session.
* `FreshInv`: an id that was not given yet is unknown everywhere.
* `StopInv`, `StageInv`, `ExitInv`: `STOP_SERVER` is queued once; stages, loop and
  listening socket go together; the loop ends with an empty map, `EXIT_LOOP` last.

*The refinement.* `ServerContract` knows only what the application was told. The
one step of the server that it sees per message is `DispatchMsg`: `ComeInv`
and `LeaveInv` of the head of the stream say that this callback is allowed now
(`DispatchContract`). Stopping, the close callback and the return of the
destructor are the other steps it sees; the close callback needs that no
session is present any more, which is `StageInv` with `ComeInv`. All steps of
the loop thread are stutters.

### The KCP handshake

For every number of clients and of connections, every limit of waiting sockets,
and every loss, repetition and reordering of datagrams:

| theorem | `Spec =>` | |
|---|---|---|
| `Safety` | `[]HandshakeInv` | the inductive invariant |
| `ManagerSafety` | `[]ManagerInv` | `socketUpdate` meets no NULL entry and no freed socket; waiting is bounded |
| `AgreementHolds` | `[]Agreement` | a session belongs to a client that is connected with that very conv |
| `OneSocketHolds` | `[]OneSocketPerAddress` | one live socket per address |
| `FreedQuietly` | `FreedWhenQuiet` | no socket is freed with its close callback to come |

Assumptions: the four of `KCPHandshake` (clients are no ports and there is one,
the bounds are naturals, calls and timers are those of the code).

*The invariant.* `HandshakeInv` gives each conv its life (`EntryInv`): unused;
waiting for the client's answer; with a session; freed. Each stage says which
entries the two vectors have, which state the socket and the session are in and
whether a close callback is due; the `null` entry of a socket that moved from
one vector to the other, for instance, is allowed only until the idle callback
that clears it. `PacketInv` is the reason why late and repeated datagrams do no
harm: a conv is given to one client and never again (`Assigned`), so what a
datagram says of a conv stays true for as long as it is under way (`NetKeeps`).
Neither `Agreement` nor `OneSocketPerAddress` is inductive without it.

*The argument.* A step changes the net (`NetStepKeeps`), one client
(`ClientStepKeeps`), one socket within its stage (`SocketStepKeeps`), a socket and
its session (`SessionStepKeeps`), or ends a wait (`AwaitEndKeeps`); each callback is
one lemma that shows which. The batches `clearInvalid`, `stop_listen` and the
sweep change many entries at once (`BatchKeeps`, `DisconnectBatchKeeps`). Only
`AcceptKeeps` brings a socket to life: `isAccept` excludes another socket of the
address, and the recess bounds those waiting (`AwaitBounded`, by cardinalities:
one more waits only while no more than the limit do).

### The file transfer

For every number of calls, every size, whatever the receiver had before, however
often connections break, whichever `fopen` fails and however far the applications
lag behind:

| theorem | `Spec =>` | |
|---|---|---|
| `Safety` | `[]TransferInv` | the inductive invariant |
| `TaskIsThere` | `[]TaskForMessage` | `input()` finds the task of a message, unless the client of the call was late; late or not, it finds an object, and no sender is asked for more than its file has |
| `SuccessMeansIntact` | `SuccessIntact` | a check that passed means an intact file, unless two receivers had it open, the client was late, or the file begins with zeros |

Assumption: `TransferAssumption` (calls and sizes are naturals, a file found holds
slices of another one, the bounds are naturals).

*The exceptions* are faults of the code (section 5), and TLC finds a behaviour for
each when it is dropped from the property, except lateness in `SuccessIntact`,
which the run's bounds do not need: of a call that was late the invariant keeps
the roles only, so the theorem leaves open what its checks mean.

*The invariant.* `TransferInv` has three layers.

* `SideInv`, of every call: each message is for an end with the role to handle it
  (`MessageInv`), an end that something is queued for has an object, what a sender
  is told lies within its file, and links that did not come up yet are untouched.
* `QueueInv`, of a call whose client was never late: one message at a time between
  the two ends. What an earlier connection left is at the head of the client's
  queue, before the connect callbacks (`Outdated` says that one of them stands
  behind it), so an answer to it would make the client late. The message tells
  what the tasks say: that of the object it is for, whatever became of its
  connection (`OwnTask`), and that of the object it came from while the
  connection is up at both ends (`PeerTask`).
* `DiskInv`: while no two receivers had the file open at a time, only one object
  has it, and the disk is what its task says (`Written`): up to slice `k`, a hole at
  the start where the "wb+" of a resumed transfer emptied the file, and then the
  slices in order.

*The argument.* A handled message is consumed and answered by at most one
(`ReplyGives`); to a client that is not late it was the last between the two ends
(`LastMessage`), so the answer is the only one (`QueueKeeps`, `AnswerKeeps`). A closing
end keeps a part of its queue (`ClosingKeeps`), which `OwnTask` survives and
`PeerTask` need not. A check that passes sees the hole (`CheckSeesHole`) when it can
tell the first slice from zeros: a hole always includes that one.

### The DNS cache

For all threads, hosts, ports, numbers of addresses and times:

| theorem | `Spec =>` | |
|---|---|---|
| `InvariantHolds` | `[]IInv` | the inductive invariant |
| `PortIsAsked` | `[]PortAsked` | a call returns the port it asked for unless another thread wrote, added to or erased the same host between its lookup and its copy |
| `PurgeSparesTheUsed` | `PurgeSparesUsed` | a purge takes an entry in use only with a clock older than the entry, or when its time was set back |

Assumptions: `CacheAssumption` (ports are not 0, every host has an address,
`"none"` is no host). `PortAsked` alone is not inductive: that the pointer is
good when the port is written depends on the entry not having moved since the
lookup. The hazard itself is in the code: another thread may write its port through
the same entry. `PortAsked` does not rule this out, it says by its exceptions
(`since`) what another thread must have done. `IInv` has for each thread that holds a pointer `UndisturbedOf` (if
nobody disturbed its host, node, vector and index are those of the lookup, and
once written the port is its own) and `FreshOf` (its entry is younger than
`StaleAfter` unless another `add()` set its time), and `Numbered`: node numbers
are never used again, so that the pointer of a removed entry cannot look alive,
and no thread's `curtime` is in the future. *The argument:* a step of one thread
`Spares` another if it leaves that host's entry alone or says in `since` what it
did (`SparedThread`); each operation spares all others (`Others`, `Erased`), and
of its own thread either gets the pointer (`HitStep`), writes through it
(`WritePortStep`) or holds nothing afterwards (`HoldsNothing`).

### The peers

For any finite set of peers, any calls between them, either kind of network and
every bound:

| theorem | `Spec =>` | |
|---|---|---|
| `TypeCorrect` | `[]TypeOK` | tries, silent checks and HELLOs stay within the timers' limits |
| `Safety` | `[]PeersInv` | the inductive invariant |
| `RequestsHaveKcp` | `[]ConnectedHasKcp` | a request that is CONNECT has a KCP session where it sends |
| `AnnouncedIsReal` | `[]OpenIsReal` | no session is lost without the callback for the key it was announced with |
| `ClientsHaveKcp` | `[]ServedHasKcp` | an accepted client is connected, unless it was called, too |

Assumptions: `PeersAssumption` (finitely many), `CallsAssumption`,
`BoundsAssumption`. A peer has two maps with keys of different kinds, and a removal
in one must find the entry in the other. `PeerInv` says why it does: a request is
filed under the public key of a peer that was called and is sent to nobody or to
the address of that peer (`RequestInv`), a session has the address its datagrams
carry (`SessionInv`), so between two peers there is at most one of each
(`ServingIs`). What is open is accepted or requested, with a KCP session where its
data goes (`OpenInv`); the exception is a client of the same local network that was
called: its session is found to serve the request, and the entry under its address
stays (section 5). `NetInv` says that datagrams carry such keys. *The
argument:* receiving, creating, removing and turning a request each keep `PeerInv` of
one peer (`RecvKeeps`, `CreateKeeps`, `RemoveKeeps`, `RequestTurns`); the removal is
the hard one, where the entry that loses its session must be the one that is
found. `heartCheck` and the closing of the pipe remove many: `RemovalsKeep` goes
along the walk.

*Induction.* The walk is a recursive function over a sequence of any length. That it
exists (`WalkExists`) and keeps what one removal keeps is proved by induction over a
set of numbers (`NatSetInduction`): if some number were not in the set there would be
a least one, which is what `WFMin` and `NatLessThanWellFounded` give.

### Framing

For any number and any lengths of messages, any limit of a write, a read and a
message, any number of probes and any ratio of the timers:

| theorem | `Spec =>` | |
|---|---|---|
| `FramingTypeCorrect` | `[]TypeOK` | cells are cells of packets, the heartbeat's time is below a check |
| `FramingInvariant` | `[]FramingInv` | the inductive invariant |
| `FramingInOrder` | `[]InOrder` | messages arrive whole, in order and without a gap |
| `FramingDropExplained` | `[]DropExplained` | data costs the connection only if a heartbeat split a message or one is too long; silence, only if the network is not prompt |
| `FramingClientProbes` | `[]ClientProbes` | between idle ends the client probes, once, and the server answers |

Assumption: `FramingAssumption`. A chunk and the receiver's limit have room for a
heartbeat, which the code's constants have; messages are within the limit of
`send()`, which `tcp_packageData` checks (a message of that length is too long for
the receiver all the same, `TooLong`); and on a prompt network the timers of both
ends drift apart by no more than half the time between two checks, which is what
a prompt network means. `FramingClientProbes` needs it: the server starts one check
later than the client (`TCPConfig.h:51-53`), and that is its whole lead.

*The invariant.* All that an end has not parsed yet is one stream (`Stream`: its
buffer and the wire to it; `AllOf`: the other's queue and the rest of the other's
call behind it). A batch moves cells along it, a packet is taken from its front, and
only heartbeats enter in its middle.

* `FlowInv`: the first cells of messages come in the stream in the order of the
  messages, without a gap (`Ordered`), up to the last one sent (`Complete`), and
  behind each cell there is room for the rest of its packet (`Backed`). This is
  true however heartbeats split messages. It is why the loop hands on the next
  message or nothing: a packet whose cells are not all its own has no hash that fits.
* `FrameInv`: while no message was split and none is too long, the stream is packet
  after packet (`Framed`), and it ends with one when no message is under way in
  part (`Closed`). So the loop finds nothing invalid.
* `ProbeInv`: on a prompt network, an end that counts a probe has, as long as no
  answer is on its way to it, a peer that owes one (`Owing`). So no tick ever finds the count at its
  limit: `why` is never `"heart"`.
* `QuietInv`: without messages three things can be on the wire: nothing, the
  client's probe, the answer. The ticks of both ends since they last read
  differ by the drift (`IdleInv`), so the client is always the first to probe.

`InOrder` rests on `FlowInv` alone, which the loop keeps only because the read
before left its buffer waiting for more (`Waiting`).

*The argument.* `RecvLoop` is proved about once: a set of loop states that no round
leaves (`Steady`) holds its result (`LoopRule`, by induction over the rounds). The
code sets what is left to the end of the data just read, not of the buffer;
`Fits` says that the two agree, because a packet that is whole ends in the
data just read. Each fact about the loop is then a `Steady` set: `LoopFlow`,
`LoopFramed`, `LoopBacked`, `LoopOwing`, `LoopHearts` and, for a lone heartbeat,
`LoopQuiet`. On the side of the writers, `FlowWritten` and `FrameWritten` say what
heartbeats in the middle of a stream leave as it was (`OrderedInsert`,
`BackedInsert`). Each action is one lemma (`SendCallKeeps`, ... `DieKeeps`), the read
with one for each part of the invariant.

### What is only model-checked

The liveness properties: `CloseFinishes`, `RemoveFinishes`, `DeleteFinishes` and
`DeleteEnds`, both `StopFinishes`, `HandshakeCompletes`, `AwaitResolved`,
`ConnectResolves`, `LostPeerReported`, `SilentPeerDropped` and `FinishesUnlessCut`.
Fairness and ENABLED are beyond the prover. All inductive invariants were
model-checked, on the configurations of the runs, before they were proved.

## 5. Where code and documentation disagree

`framing_split` / `DataAccepted`: `tcp/TCPConfig.h:20` says that a message longer
than `TCP_WRITE_MAX_LEN` is sent in pieces. `send()` pushes each piece with a lock
of its own (`tcp/TCPClient.cpp:209`); between two batches the loop thread may
write a heartbeat, which then lies in the middle of the packet, and the receiver
drops the connection for its hash. `DropExplained` shows that this and a message
at the limit are the only ways to lose a connection over its data.

### Observations

What the models show or leave as the code has it, without a statement of the
documentation to hold against it:

* `tcp/TCPClient.cpp:453`, `511`: `removeSession()` while the session is
  connecting, and the attempt fails: nobody announces the removal any more,
  `removeTag` keeps everyone else from doing so, and the client never closes.
  `OrphanedByFailedConnect` says that this is the only way into that state,
  `CloseFinishes` and `RemoveFinishes` that everything ends without it.
* `tcp/TCPSocket.cpp:275`: libuv's status is a negated errno, the code compares it
  with `ETIMEDOUT`, so status 2 (`base/Client.h:12`) is never given.
* `kcp/KCPSocket.cpp:232`: the disconnect packet is made after the conv was reset,
  names conv 0, and is ignored (`589`); so `OnClientDisconnect` and
  `OnServerDisconnect` are never enabled; they are kept as the code has them.
* `kcp/KCPSocket.cpp:685`: the client's answer is sent once; lost, the client is
  connected and the server waits until its timer fires.
* `kcp/KCPSocketManager.cpp:67`: `stop_listen` walks over entries whose socket
  was freed earlier in the same batch.
* `tcp/TCPUtils.cpp:101`: `tcp_packageData` accepts a message whose length with its
  hash is above `TCP_BIG_MSG_MAX_LEN`; the receiver refuses it (`TooLong`).
* `tcp/TCPSocket.cpp:301`: a read that finds nothing after one that filled the
  buffer is taken for the end of the stream (`EndsInZeroRead`).
* `base/Misc.cpp:157`: a hit does not set `*outAddrLen`; `base/DNSCache.cpp:82`: the
  age is an unsigned difference, so an entry newer than `curtime` is purged.
* `p2p/P2PPeer.cpp:494`: a removal that meets a request leaves the accepted client
  of the same key (`ServedHasKcp` excepts it); `397`: a late CHECK_PEER_RESULT
  turns a connected request back, which may then time out; `662`: a hole that is being made keeps its old
  `isClient`; `p2p/P2PPipe.cpp:148`: disconnecting a peer of the local network by
  its public key finds no session.
* `src/FSTransfer/FSTransfer.cpp:315`: a transfer that goes on opens the file "wb+",
  which empties it, and continues behind what was there; the check at 391 compares
  the sizes and 1024 bytes at both ends, to which a hole reads as zeros. So a file
  that begins with 1024 zeros passes it with its start lost (`telling` in
  `SuccessIntact`), and so may one that two transfers wrote (`overlap`).
* `src/FSTransfer/FSTransfer.cpp:428`, `500`: `m_task` is used without a look. A client
  that handles a message of the old connection after its loop thread connected
  again (`tcp/TCPClient.cpp:738`), because the application was held up for longer than
  the reconnection takes, answers by session id to an object that has no task, and
  the server ends (`Crash`). `TaskForMessage` says that this is the only way.
* `src/FSTransfer/FSTransferPool.cpp:197`: the client is not told of a break and ignores
  the answer to its new announcement, and both ends wait (`"cut"` in
  `FinishesUnlessCut`).
* `src/FSTransfer/FSTransfer.cpp:151`, `316`, `358`: a file that cannot be opened ends a
  transfer without a word to the other end, or with one that the sender drops
  (386); a receiver that cannot open a smaller new file has removed its own
  (310). So an upload to a directory that is not there prints nothing at the sender,
  and a download of a missing file is never answered (`"refused"`).
* `src/FSTransfer/FSTransferPool.cpp:135`: finished tasks stay in the map of the pool,
  so it starts eight in its life; what waits is not started when one ends.

`DeleteDeadlocks` (client and server) states how `~TCPClient` and `~TCPServer`
behave when a session still needs an answer of the polling thread: the join
waits for ever. The test applications poll until the close has finished before
they delete, so this is a rule of use, not a disagreement.

## 6. What is not modelled

* Payloads, socket options, and times except where a timer or an age decides.
* The memory model: `m_isStop`, `m_clientStage` and others are read without a
  lock; a read is one step here.
* An application that stops polling between `STOP` and `EXIT_LOOP`
  (`isCloseFinish()` is true a moment before the close callback is queued).
* A second start of a stopped server: `run()` closes the loop the object owns
  (`tcp/TCPServer.cpp:165`) and nothing opens it again, so what libuv does with the
  new socket is outside the code.
* Wrapping of the 32-bit millisecond clocks (after 49 days).
* KCP data transfer (ikcp), and the queues of KCPServer, which are those of
  TCPServer and folded into one step. The session map of KCPClient, which is that
  of TCPClient. The KCP copy of the framing has the text of the TCP one.
* In the file transfer: writes that fail after the file was opened (a full disk), sizes
  within a slice, a file that changes while it is sent, hash collisions,
  `close()` and `stopListen()`. A program that ended by `Crash` is not started again.
* Logging in at the turn server, its loss of peers, and the data over P2P.
* Pure TCP (the TCP components without framing), UDP sockets (a wrapper), the
  event loop wrapper, HTTP (a parser on one thread).
* Vendored code, which is most of the repository's lines: libuv and wxWidgets are
  other projects.

## 7. Plan

1. **Core**: TCPClient with contract, invariant and proofs; TCPServer with
   contract; the KCP handshake with its manager. Done.
2. **Breadth**: `Framing` with the heartbeat, `P2PPeer`, `DNSCache` with its proofs,
   `FSTransfer`. Done. Left, in this order: `P2PTurn` with logging in; `KCPClient`
   (the session map on top of the handshake); the `HTTP` parser's states.
3. **Proofs**: the invariants of all modules with what follows from them, and the
   contracts of client and server as refinements. Done. Left: the modules that
   the second item still lists.
