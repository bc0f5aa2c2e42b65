----------------------------- MODULE KCPHandshake -----------------------------
(***************************************************************************)
(* How a KCP connection comes up and goes down (kcp/KCPSocket.cpp), and    *)
(* the server's bookkeeping of its sockets (kcp/KCPSocketManager.cpp) and  *)
(* of the sessions on them (kcp/KCPServer.cpp, kcp/KCPSession.cpp).        *)
(*                                                                         *)
(* A client asks the listening socket; the server opens a socket of its    *)
(* own for that client, the pre-connect socket, with a fresh conv, and     *)
(* sends it to the client from both ports.  The client is connected when   *)
(* it hears from the pre-connect socket, the server when the client's      *)
(* answer arrives.  UDP may lose, duplicate and reorder all of it.         *)
(*                                                                         *)
(* The server's loop thread runs idle callbacks, in three parts: the       *)
(* manager's clearInvalid and socketUpdate, then the operations of the     *)
(* application; between two of them it receives datagrams and closes       *)
(* handles.  A client is a socket of its own for one attempt: connecting   *)
(* again opens another port.  Ports are the convs of the sockets on them.  *)
(* Clocks are abstracted away: a timer may fire whenever it is armed.      *)
(***************************************************************************)
EXTENDS Integers, FiniteSets

CONSTANTS
    Clients,     \* the clients' sockets, all at one IP address
    MaxConv,     \* bound on the connections the server accepts
    AwaitLimit,  \* 500: more pre-connect sockets than these start a recess
    Calls,       \* what the applications do once connected
    Timers,      \* the timers that may fire
    Duplicates,  \* whether a datagram stays on its way after it was received
    Losable,     \* the types of datagrams that may be lost
    MaxLost      \* bound on datagrams lost

Listen == 0            \* the port of the listening socket
Convs  == 1 .. MaxConv
Ports  == 0 .. MaxConv

ASSUME ClientsAssumption == Clients \cap Ports = {} /\ Clients # {}
ASSUME BoundsAssumption == MaxConv \in Nat /\ AwaitLimit \in Nat /\ MaxLost \in Nat
ASSUME CallsAssumption == Calls \subseteq {"clientDisconnect", "serverDisconnect", "stopServer"}
ASSUME TimersAssumption == Timers \subseteq {"connect", "recv"} /\ Duplicates \in BOOLEAN

VARIABLES
    client,                    \* the clients' sockets
    server,                    \* the server's sockets, by conv
    m_allAwaitConnectSocket,   \* entry of a pre-connect socket in the vector
    m_allConnectSocket,        \* entry of a connected socket in the vector
    m_allSession,              \* the server's session with this id, which is the conv
    m_convCount,
    m_recess,                  \* m_recessTimeMap has an entry for the IP
    listener,                  \* m_kcpState of the listening socket
    m_serverStage,
    idle,                      \* the part of the idle callback that is running
    net,                       \* datagrams on their way
    lost                       \* datagrams lost

serverVars == <<server, m_allAwaitConnectSocket, m_allConnectSocket, m_allSession, m_convCount,
                m_recess, listener, m_serverStage, idle>>
vars == <<client, serverVars, net, lost>>

-----------------------------------------------------------------------------
State == {"DISCONNECT", "WAIT_CONNECT", "CONNECT", "WAIT_DISCONNECT"}

(* "closing" is a uv_close whose uv_on_close_socket has not run; "result"   *)
(* is what the client's session was told last, "accepted" the conv it was   *)
(* connected with.                                                          *)
ClientSocket ==
    [state : State, conv : Ports, addr : Ports, closing : BOOLEAN,
     result : {"none", "connected", "timedout", "closed"}, accepted : Ports]

(* "addr" is m_socketAddr, "peer" the ip and port it was accepted from.     *)
ServerSocket ==
    [life : {"none", "alive", "freed"}, state : State, conv : Ports,
     addr : Clients \cup {Listen}, peer : Clients \cup {Listen}, closing : BOOLEAN]

NewClient == [state |-> "DISCONNECT", conv |-> 0, addr |-> Listen, closing |-> FALSE,
              result |-> "none", accepted |-> 0]
NoServer  == [life |-> "none", state |-> "DISCONNECT", conv |-> 0, addr |-> Listen,
              peer |-> Listen, closing |-> FALSE]

PacketType == {"connect", "send_back_conv", "svr_connect", "svr_send_back_conv", "disconnect"}
Datagram   == [type : PacketType, from : Clients \cup Ports, to : Clients \cup Ports, conv : Ports]
Packet(type, from, to, conv) == [type |-> type, from |-> from, to |-> to, conv |-> conv]

-----------------------------------------------------------------------------
(* Faulty variants of the definitions below, one slip each, that no action  *)
(* uses.                                                                    *)
CloseTwice(socket)      == [socket EXCEPT !.state = "DISCONNECT", !.conv = 0, !.closing = TRUE]
CloseUnheard(socket, isCallClose) == [socket EXCEPT !.state = "DISCONNECT", !.conv = 0]
AnswerAtOnce(a, port)   == Packet(IF port = Listen THEN "connect" ELSE "svr_send_back_conv", a, port, port)
AnswerRemembered(a, p)  == Packet("svr_send_back_conv", a, p.from, client[a].conv)
AcceptAgain(a, recessFinish) ==
    recessFinish \/ Cardinality({k \in Convs : m_allAwaitConnectSocket[k] = "valid"}) <= AwaitLimit
NotCleared(entry)       == entry
OnlyConnected(k)        == idle = "update" /\ m_allConnectSocket[k] # "none"

-----------------------------------------------------------------------------
(* The steps that client and server sockets share.                         *)

(* shutdownSocket; the callback is due if isCallClose *)
Shutdown(socket, isCallClose) ==
    [socket EXCEPT !.state = "DISCONNECT", !.conv = 0, !.closing = @ \/ isCallClose]

(* doConnectTimeout: the default close callback *)
TimedOut(socket) == Shutdown(socket, FALSE)

(* disconnect: setConv(0) comes first *)
ReleaseConv(socket) == [socket EXCEPT !.conv = 0]
SocketDisconnect(socket) ==
    CASE socket.state = "WAIT_CONNECT" -> Shutdown(ReleaseConv(socket), TRUE)
      [] socket.state = "CONNECT"      -> [ReleaseConv(socket) EXCEPT !.state = "WAIT_DISCONNECT"]
      [] OTHER                         -> ReleaseConv(socket)
DisconnectPackets(self, socket) ==
    IF socket.state = "CONNECT"
    THEN {Packet("disconnect", self, socket.addr, ReleaseConv(socket).conv)} ELSE {}

(* a disconnect packet ends the connection of that conv *)
Disconnects(socket, conv) == socket.state = "CONNECT" /\ conv = socket.conv

-----------------------------------------------------------------------------
Init ==
    /\ client = [a \in Clients |-> NewClient]
    /\ server = [k \in Convs |-> NoServer]
    /\ m_allAwaitConnectSocket = [k \in Convs |-> "none"]
    /\ m_allConnectSocket = [k \in Convs |-> "none"]
    /\ m_allSession = [k \in Convs |-> "none"]
    /\ m_convCount = 0
    /\ m_recess = FALSE
    /\ listener = "LISTEN"
    /\ m_serverStage = "RUN"
    /\ idle = "none"
    /\ net = {}
    /\ lost = 0

-----------------------------------------------------------------------------
(* The network.                                                            *)

Send(packets) == net' = net \cup packets /\ UNCHANGED lost

Receive(p, packets) ==
    /\ p \in net
    /\ net' = (IF Duplicates THEN net ELSE net \ {p}) \cup packets
    /\ UNCHANGED lost

Lose(p) ==
    /\ p \in net /\ p.type \in Losable /\ lost < MaxLost
    /\ net' = net \ {p}
    /\ lost' = lost + 1
    /\ UNCHANGED <<client, serverVars>>

-----------------------------------------------------------------------------
(* The client's socket.                                                    *)

ClientStep(a, socket) == client' = [client EXCEPT ![a] = socket] /\ UNCHANGED serverVars

ConnectPacket(a, port) == Packet("connect", a, port, 0)

Connect(a) ==
    /\ client[a] = NewClient
    /\ ClientStep(a, [client[a] EXCEPT !.state = "WAIT_CONNECT"])
    /\ Send({ConnectPacket(a, Listen)})

(* socketUpdate: once a second, and for a while after the connection is up *)
Resend(a) ==
    /\ client[a].state \in {"WAIT_CONNECT", "CONNECT"}
    /\ Send({ConnectPacket(a, client[a].addr)})
    /\ UNCHANGED <<client, serverVars>>

(* doConnectTimeout, status 2 *)
ConnectTimeout(a) ==
    /\ "connect" \in Timers /\ client[a].state = "WAIT_CONNECT"
    /\ ClientStep(a, [TimedOut(client[a]) EXCEPT !.result = "timedout"])
    /\ Send({})

(* doSendTimeout: nothing came for a minute *)
SendTimeout(a) ==
    /\ "recv" \in Timers /\ client[a].state = "CONNECT"
    /\ ClientStep(a, Shutdown(client[a], TRUE))
    /\ Send({})

(* KCPSession::executeDisconnect of an online session *)
ClientDisconnect(a) ==
    /\ "clientDisconnect" \in Calls /\ client[a].state = "CONNECT"
    /\ ClientStep(a, SocketDisconnect(client[a]))
    /\ Send(DisconnectPackets(a, client[a]))

(* m_releaseCount has run out. *)
ClientReleased(a) ==
    /\ client[a].state = "WAIT_DISCONNECT"
    /\ ClientStep(a, Shutdown(client[a], TRUE))
    /\ Send({})

ClientClosed(a) ==
    /\ client[a].closing
    /\ ClientStep(a, [client[a] EXCEPT !.closing = FALSE, !.result = "closed"])
    /\ Send({})

(* onUdpRead: the listening socket names the pre-connect socket's port ... *)
OnSendBackConv(a, p) ==
    /\ p.type = "send_back_conv" /\ p.to = a /\ client[a].state = "WAIT_CONNECT"
    /\ ClientStep(a, [client[a] EXCEPT !.addr = p.conv, !.conv = p.conv])
    /\ Receive(p, {ConnectPacket(a, p.conv)})

(* ... the pre-connect socket itself is heard: connectResult(1) ... *)
Answer(a, p) == Packet("svr_send_back_conv", a, p.from, p.conv)
OnSvrConnect(a, p) ==
    /\ p.type = "svr_connect" /\ p.to = a /\ client[a].state = "WAIT_CONNECT"
    /\ ClientStep(a, [client[a] EXCEPT !.addr = p.from, !.conv = p.conv, !.state = "CONNECT",
                                       !.result = "connected", !.accepted = p.conv])
    /\ Receive(p, {Answer(a, p)})

(* ... the server's socket disconnects. *)
OnClientDisconnect(a, p) ==
    /\ p.type = "disconnect" /\ p.to = a /\ Disconnects(client[a], p.conv)
    /\ ClientStep(a, [client[a] EXCEPT !.state = "WAIT_DISCONNECT"])
    /\ Receive(p, {})

-----------------------------------------------------------------------------
(* The server's sockets: steps of the loop thread.                         *)

LoopFree == idle = "none" /\ m_serverStage # "STOP"

ServerStep == UNCHANGED <<client, m_serverStage>>

Awaiting(k)  == m_allAwaitConnectSocket[k] = "valid"
Connected(k) == m_allConnectSocket[k] = "valid"

(* isAccept.  At most one connection of an address ...                     *)
AwaitingAddr(a)  == \E k \in Convs : Awaiting(k) /\ server[k].peer = a
ConnectedAddr(a) == \E k \in Convs : Connected(k) /\ server[k].peer = a
TooMany          == Cardinality({k \in Convs : Awaiting(k)}) > AwaitLimit

(* ... and when too many of its IP are waiting a recess, after which those  *)
(* are shut down.                                                           *)
Accept(a, recessFinish) ==
    /\ ~ConnectedAddr(a)
    /\ recessFinish \/ (~AwaitingAddr(a) /\ ~TooMany)

SvrConnectPacket(k, addr) == Packet("svr_connect", k, addr, k)

(* svr_connect, and the manager's push *)
NewServer(a, k) == [life |-> "alive", state |-> "WAIT_CONNECT", conv |-> k, addr |-> a, peer |-> a,
                    closing |-> FALSE]

AfterRecess(k, recessFinish) ==
    IF recessFinish /\ Awaiting(k) THEN SocketDisconnect(server[k]) ELSE server[k]

OnConnectRequest(a, p, recessFinish) ==
    /\ LoopFree /\ listener = "LISTEN"
    /\ p = ConnectPacket(a, Listen)
    /\ recessFinish => m_recess
    /\ m_recess' = (IF m_recess THEN ~recessFinish ELSE ~AwaitingAddr(a) /\ TooMany)
    /\ LET k        == m_convCount + 1
           accepted == Accept(a, recessFinish) /\ (m_recess => recessFinish)
       IN  /\ accepted => k \in Convs
           /\ m_convCount' = IF accepted THEN k ELSE m_convCount
           /\ server' = [j \in Convs |-> IF accepted /\ j = k THEN NewServer(a, k)
                                         ELSE AfterRecess(j, recessFinish)]
           /\ m_allAwaitConnectSocket' =
                 [j \in Convs |-> IF accepted /\ j = k THEN "valid" ELSE m_allAwaitConnectSocket[j]]
           /\ Receive(p, IF accepted
                         THEN {SvrConnectPacket(k, a), Packet("send_back_conv", Listen, a, k)}
                         ELSE {})
    /\ UNCHANGED <<m_allConnectSocket, m_allSession, listener, idle>> /\ ServerStep

(* connectResult *)
Answered(socket, isSuc) ==
    [socket EXCEPT !.state = IF isSuc THEN "CONNECT" ELSE "DISCONNECT"]

(* The client's answer: connectResult, and the manager's on_socket_connect. *)
(* A session of a connected socket is told about its close from now on.     *)
OnAnswer(k, p) ==
    /\ LoopFree
    /\ p.type = "svr_send_back_conv" /\ p.to = k /\ server[k].state = "WAIT_CONNECT"
    /\ LET isSuc == p.conv # 0 /\ p.conv = server[k].conv
       IN  /\ server' = [server EXCEPT ![k] = Answered(@, isSuc)]
           /\ IF isSuc /\ listener = "LISTEN"
              THEN /\ m_allConnectSocket' = [m_allConnectSocket EXCEPT ![k] = "valid"]
                   /\ m_allSession' = [m_allSession EXCEPT ![k] = "online"]
                   /\ m_allAwaitConnectSocket' = [m_allAwaitConnectSocket EXCEPT ![k] = "null"]
              ELSE /\ m_allAwaitConnectSocket' = [m_allAwaitConnectSocket EXCEPT ![k] = "invalid"]
                   /\ UNCHANGED <<m_allConnectSocket, m_allSession>>
    /\ Receive(p, {})
    /\ UNCHANGED <<m_convCount, m_recess, listener, idle>> /\ ServerStep

ServerSocketStep(k, socket) ==
    /\ server' = [server EXCEPT ![k] = socket]
    /\ UNCHANGED <<m_convCount, m_recess, listener, idle>> /\ ServerStep

ManagerUnchanged == UNCHANGED <<m_allAwaitConnectSocket, m_allConnectSocket, m_allSession>>

(* A connect packet at the pre-connect socket: its sender is the address.  *)
OnConnectPacket(a, k, p) ==
    /\ LoopFree
    /\ p = ConnectPacket(a, k) /\ server[k].state = "WAIT_CONNECT"
    /\ ServerSocketStep(k, [server[k] EXCEPT !.addr = a])
    /\ Receive(p, {SvrConnectPacket(k, a)})
    /\ ManagerUnchanged

OnServerDisconnect(k, p) ==
    /\ LoopFree
    /\ p.type = "disconnect" /\ p.to = k /\ Disconnects(server[k], p.conv)
    /\ ServerSocketStep(k, [server[k] EXCEPT !.state = "WAIT_DISCONNECT"])
    /\ Receive(p, {})
    /\ ManagerUnchanged

(* uv_on_close_socket: KCPSession::on_socket_close or the manager's        *)
OnServerClosed(k) ==
    /\ LoopFree /\ server[k].closing
    /\ ServerSocketStep(k, [server[k] EXCEPT !.closing = FALSE])
    /\ IF m_allSession[k] # "none"
       THEN /\ m_allSession' = [m_allSession EXCEPT ![k] = "closed"]
            /\ UNCHANGED m_allAwaitConnectSocket
       ELSE /\ m_allAwaitConnectSocket' = [m_allAwaitConnectSocket EXCEPT ![k] = "invalid"]
            /\ UNCHANGED m_allSession
    /\ Send({}) /\ UNCHANGED m_allConnectSocket

(* onServerSocketClose *)
OnListenerClosed ==
    /\ LoopFree /\ listener = "closing"
    /\ listener' = "closed"
    /\ m_serverStage' = "CLEAR"
    /\ Send({})
    /\ ManagerUnchanged /\ UNCHANGED <<client, server, m_convCount, m_recess, idle>>

-----------------------------------------------------------------------------
(* ~KCPSocket *)
Deleted(socket) == [socket EXCEPT !.life = "freed"]

Cleared(entry) == IF entry = "valid" THEN "valid" ELSE "none"

(* onIdleRun: first KCPSocketManager::idleRun, which begins with            *)
(* clearInvalid ...                                                         *)
ClearInvalid ==
    /\ LoopFree
    /\ idle' = "update"
    /\ server' = [k \in Convs |-> IF m_allAwaitConnectSocket[k] = "invalid"
                                  THEN Deleted(server[k]) ELSE server[k]]
    /\ m_allAwaitConnectSocket' = [k \in Convs |-> Cleared(m_allAwaitConnectSocket[k])]
    /\ m_allConnectSocket' = [k \in Convs |-> Cleared(m_allConnectSocket[k])]
    /\ Send({})
    /\ UNCHANGED <<m_allSession, m_convCount, m_recess, listener>> /\ ServerStep

(* ... and goes on with socketUpdate of every socket in its vectors: send   *)
(* again ...                                                                *)
Updated(k) == idle = "update" /\ (m_allAwaitConnectSocket[k] # "none" \/ m_allConnectSocket[k] # "none")

UpdateResend(k) ==
    /\ Updated(k) /\ server[k].state \in {"WAIT_CONNECT", "CONNECT"}
    /\ Send({IF server[k].state = "WAIT_CONNECT" THEN SvrConnectPacket(k, server[k].addr)
             ELSE Packet("connect", k, server[k].addr, 0)})
    /\ UNCHANGED <<client, serverVars>>

(* ... doConnectTimeout, status 2 ...                                       *)
UpdateConnectTimeout(k) ==
    /\ "connect" \in Timers
    /\ Updated(k) /\ server[k].state = "WAIT_CONNECT"
    /\ ServerSocketStep(k, TimedOut(server[k]))
    /\ m_allAwaitConnectSocket' = [m_allAwaitConnectSocket EXCEPT ![k] = "invalid"]
    /\ Send({}) /\ UNCHANGED <<m_allConnectSocket, m_allSession>>

(* ... doSendTimeout ...                                                    *)
UpdateShutdown(k) ==
    /\ Updated(k)
    /\ ServerSocketStep(k, Shutdown(server[k], TRUE))
    /\ Send({}) /\ ManagerUnchanged
UpdateSendTimeout(k) ==
    "recv" \in Timers /\ server[k].state = "CONNECT" /\ UpdateShutdown(k)

(* ... m_releaseCount has run out.                                          *)
UpdateReleased(k) == server[k].state = "WAIT_DISCONNECT" /\ UpdateShutdown(k)

(* The listening socket waits for the pre-connect sockets.                  *)
UpdateListener ==
    /\ idle = "update" /\ listener = "WAIT_DISCONNECT"
    /\ \A k \in Convs : m_allAwaitConnectSocket[k] = "none"
    /\ listener' = "closing"
    /\ Send({})
    /\ ManagerUnchanged /\ UNCHANGED <<server, m_convCount, m_recess, idle>> /\ ServerStep

UpdateEnd ==
    /\ idle = "update" /\ idle' = "operations"
    /\ Send({})
    /\ ManagerUnchanged /\ UNCHANGED <<server, m_convCount, m_recess, listener>> /\ ServerStep

-----------------------------------------------------------------------------
(* ... then executeOperation.  The application may have queued whatever its *)
(* sessions allow.                                                          *)

Online(k) == m_allSession[k] = "online"

(* KCPSession::executeDisconnect, also called for illegal data or a missing *)
(* heartbeat, between two idle callbacks.                                   *)
DisSession(k) ==
    /\ "serverDisconnect" \in Calls
    /\ idle \in {"none", "operations"} /\ Online(k)
    /\ ServerSocketStep(k, SocketDisconnect(server[k]))
    /\ m_allSession' = [m_allSession EXCEPT ![k] = "offline"]
    /\ Send(DisconnectPackets(k, server[k]))
    /\ UNCHANGED <<m_allAwaitConnectSocket, m_allConnectSocket>>

(* remove *)
Removed(entry) == "invalid"

(* The answer to the DIS_CONNECT message: ~KCPSession, ~KCPSocket, remove.  *)
ReleaseSession(k) ==
    /\ idle = "operations" /\ m_allSession[k] = "closed"
    /\ ServerSocketStep(k, Deleted(server[k]))
    /\ m_allSession' = [m_allSession EXCEPT ![k] = "none"]
    /\ m_allConnectSocket' = [m_allConnectSocket EXCEPT ![k] = Removed(@)]
    /\ Send({}) /\ UNCHANGED m_allAwaitConnectSocket

DisconnectAll ==
    m_allSession' = [k \in Convs |-> IF Online(k) THEN "offline" ELSE m_allSession[k]]

(* STOP_SERVER: every session, then every socket of stop_listen *)
StopServer ==
    /\ "stopServer" \in Calls
    /\ idle = "operations" /\ m_serverStage = "RUN"
    /\ m_serverStage' = "WAIT_CLOSE_SERVER_SOCKET"
    /\ listener' = "WAIT_DISCONNECT"
    /\ DisconnectAll
    /\ LET reached == {k \in Convs : Online(k) \/ m_allConnectSocket[k] # "none"
                                               \/ m_allAwaitConnectSocket[k] # "none"}
       IN  /\ server' = [k \in Convs |-> IF k \in reached THEN SocketDisconnect(server[k])
                                         ELSE server[k]]
           /\ Send(UNION {DisconnectPackets(k, server[k]) : k \in reached})
    /\ UNCHANGED <<client, m_allAwaitConnectSocket, m_allConnectSocket, m_convCount, m_recess, idle>>

(* Then the stage decides. *)
IdleEnd ==
    /\ idle = "operations" /\ idle' = "none"
    /\ UNCHANGED <<client, m_allAwaitConnectSocket, m_allConnectSocket, m_convCount, m_recess,
                   listener>>

IdleRun ==
    /\ IdleEnd
    /\ m_serverStage \notin {"CLEAR", "WAIT_SESSION_CLOSE"}
    /\ Send({}) /\ UNCHANGED <<server, m_allSession, m_serverStage>>

IdleClear ==
    /\ IdleEnd
    /\ m_serverStage = "CLEAR" /\ m_serverStage' = "WAIT_SESSION_CLOSE"
    /\ DisconnectAll
    /\ server' = [k \in Convs |-> IF Online(k) THEN SocketDisconnect(server[k]) ELSE server[k]]
    /\ Send(UNION {DisconnectPackets(k, server[k]) : k \in {j \in Convs : Online(j)}})

IdleWaitSessionClose ==
    /\ IdleEnd
    /\ m_serverStage = "WAIT_SESSION_CLOSE"
    /\ m_serverStage' = IF \A k \in Convs : m_allSession[k] = "none" THEN "STOP" ELSE m_serverStage
    /\ Send({}) /\ UNCHANGED <<server, m_allSession>>

-----------------------------------------------------------------------------
(* A datagram that its receiver's state has no use for, or whose receiver is *)
(* gone.                                                                     *)
Wanted(p) ==
    \/ \E a \in Clients :
          /\ p.to = a
          /\ \/ p.type \in {"send_back_conv", "svr_connect"} /\ client[a].state = "WAIT_CONNECT"
             \/ p.type = "disconnect" /\ Disconnects(client[a], p.conv)
    \/ p.to = Listen /\ listener = "LISTEN"
    \/ \E k \in Convs :
          /\ p.to = k
          /\ \/ p.type \in {"connect", "svr_send_back_conv"} /\ server[k].state = "WAIT_CONNECT"
             \/ p.type = "disconnect" /\ Disconnects(server[k], p.conv)

Ignore(p) == ~Wanted(p) /\ Receive(p, {}) /\ UNCHANGED <<client, serverVars>>

ClientReads(a) ==
    \E p \in net : OnSendBackConv(a, p) \/ OnSvrConnect(a, p) \/ OnClientDisconnect(a, p)

ClientNext ==
    \E a \in Clients :
       \/ Connect(a) \/ Resend(a) \/ ConnectTimeout(a) \/ SendTimeout(a)
       \/ ClientDisconnect(a) \/ ClientReleased(a) \/ ClientClosed(a)
       \/ ClientReads(a)

ListenerReads(a) ==
    \E p \in net : \E recessFinish \in BOOLEAN : OnConnectRequest(a, p, recessFinish)

ServerReads(k) ==
    \E p \in net :
       \/ OnAnswer(k, p) \/ OnServerDisconnect(k, p)
       \/ \E a \in Clients : OnConnectPacket(a, k, p)

OnIdleRun ==
    ClearInvalid \/ UpdateEnd \/ UpdateListener \/ IdleRun \/ IdleClear \/ IdleWaitSessionClose

ServerNext ==
    \/ \E a \in Clients : ListenerReads(a)
    \/ OnListenerClosed
    \/ OnIdleRun
    \/ \E k \in Convs :
          \/ ServerReads(k) \/ OnServerClosed(k)
          \/ UpdateResend(k) \/ UpdateConnectTimeout(k) \/ UpdateSendTimeout(k) \/ UpdateReleased(k)
          \/ DisSession(k) \/ ReleaseSession(k)
    \/ StopServer

Network == \E p \in net : Lose(p) \/ Ignore(p)

(* The server's loop has ended. *)
Finished == m_serverStage = "STOP" /\ UNCHANGED vars

Next == ClientNext \/ ServerNext \/ Network \/ Finished

Spec == Init /\ [][Next]_vars

(* The loop threads run: an idle callback in each iteration of uv_run, and   *)
(* every due callback.  A datagram that is still on its way is received, a   *)
(* socket that waits sends again, and the connect timer fires in the end.    *)
(* The application answers DIS_CONNECT.                                      *)
Fairness ==
    /\ WF_vars(ClearInvalid \/ UpdateEnd \/ IdleRun \/ IdleClear \/ IdleWaitSessionClose)
    /\ SF_vars(UpdateListener \/ OnListenerClosed)
    /\ \A a \in Clients :
          /\ WF_vars(Resend(a)) /\ WF_vars(ConnectTimeout(a))
          /\ WF_vars(ClientReleased(a) \/ ClientClosed(a))
          /\ WF_vars(ClientReads(a))
          /\ SF_vars(ListenerReads(a))
    /\ \A k \in Convs :
          /\ SF_vars(\E p \in net : OnAnswer(k, p) \/ OnServerDisconnect(k, p))
          /\ SF_vars(UpdateResend(k)) /\ SF_vars(UpdateConnectTimeout(k))
          /\ SF_vars(UpdateReleased(k) \/ OnServerClosed(k) \/ ReleaseSession(k))

FairSpec == Spec /\ Fairness

-----------------------------------------------------------------------------
(* Type correctness of clients, server and network. *)
TypeOK ==
    /\ client \in [Clients -> ClientSocket]
    /\ server \in [Convs -> ServerSocket]
    /\ m_allAwaitConnectSocket \in [Convs -> {"none", "valid", "invalid", "null"}]
    /\ m_allConnectSocket \in [Convs -> {"none", "valid", "invalid"}]
    /\ m_allSession \in [Convs -> {"none", "online", "offline", "closed"}]
    /\ m_convCount \in Ports
    /\ m_recess \in BOOLEAN
    /\ listener \in {"LISTEN", "WAIT_DISCONNECT", "closing", "closed"}
    /\ m_serverStage \in {"RUN", "WAIT_CLOSE_SERVER_SOCKET", "CLEAR", "WAIT_SESSION_CLOSE", "STOP"}
    /\ idle \in {"none", "update", "operations"}
    /\ net \subseteq Datagram
    /\ lost \in 0 .. MaxLost

(* The two ends agree: a session of the server belongs to a client that was *)
(* connected with that very conv, whatever was lost, repeated or late; so   *)
(* no two sessions are of one client's attempt.                             *)
Agreement ==
    \A k \in Convs :
        m_allSession[k] # "none" =>
           server[k].peer \in Clients /\ client[server[k].peer].accepted = k

(* isAccept keeps one live socket per address, even when a recess has just  *)
(* ended and connect packets are late or repeated.                          *)
OneSocketPerAddress ==
    \A j, k \in Convs :
        /\ server[j].state \in {"WAIT_CONNECT", "CONNECT"}
        /\ server[k].state \in {"WAIT_CONNECT", "CONNECT"}
        /\ server[j].peer = server[k].peer
        => j = k

(* isAccept bounds the sockets that wait for one IP, also across a recess.  *)
AwaitBounded ==
    Cardinality({k \in Convs : server[k].state = "WAIT_CONNECT"}) <= AwaitLimit + 1

(* idleRun calls socketUpdate of every entry without looking at invalid or  *)
(* NULL: none of them is there after clearInvalid.                          *)
UpdateSafe ==
    idle = "update" =>
        \A k \in Convs :
            /\ m_allAwaitConnectSocket[k] # "none" =>
                  m_allAwaitConnectSocket[k] # "null" /\ server[k].life = "alive"
            /\ m_allConnectSocket[k] # "none" => server[k].life = "alive"

(* The address checks of isAccept follow valid entries only, and a session  *)
(* its socket: these are alive.                                             *)
ValidAlive ==
    \A k \in Convs :
        Awaiting(k) \/ Connected(k) \/ m_allSession[k] # "none" => server[k].life = "alive"

(* The state of the manager: its types, its bound, and what it points to.   *)
ManagerInv == TypeOK /\ AwaitBounded /\ UpdateSafe /\ ValidAlive

(* A socket is freed only when no uv_on_close_socket is to come for it, and *)
(* once.                                                                    *)
FreedWhenQuiet ==
    [][\A k \in Convs :
          server[k].life # "freed" /\ server[k]'.life = "freed" => ~server[k].closing]_vars

(* stopServer() ends the loop: pre-connect sockets, the listening socket    *)
(* and the sessions are closed one after the other.                         *)
StopFinishes == m_serverStage = "WAIT_CLOSE_SERVER_SOCKET" ~> m_serverStage = "STOP"

(* No pre-connect socket waits for ever. *)
AwaitResolved == \A k \in Convs : Awaiting(k) ~> ~Awaiting(k)

(* The handshake comes to its end: both sides connected. *)
HandshakeCompletes ==
    \A a \in Clients :
        client[a].state = "WAIT_CONNECT" ~>
            client[a].accepted # 0 /\ m_allSession[client[a].accepted] # "none"
=============================================================================
