-------------------------- MODULE KCPHandshakeProofs --------------------------
(***************************************************************************)
(* The safety of KCPHandshake, for any number of clients and connections,  *)
(* whatever the network loses, repeats or delays: HandshakeInv is          *)
(* inductive, and implies what the manager, the server's sessions and the  *)
(* two ends of a connection rely on.                                       *)
(***************************************************************************)
EXTENDS KCPHandshake, FiniteSetTheorems, TLAPS

(* The life of a conv: not given yet, ... *)
Unused(k) ==
    /\ k > m_convCount /\ server[k] = NoServer
    /\ m_allAwaitConnectSocket[k] = "none" /\ m_allConnectSocket[k] = "none"
    /\ m_allSession[k] = "none"

(* ... a pre-connect socket that waits for the client's answer, only while *)
(* the server listens, or is shut down, or is to be freed ...              *)
Awaited(k, socket, await, connect, session) ==
    /\ socket.life = "alive" /\ connect = "none" /\ session = "none"
    /\ \/ /\ socket.state = "WAIT_CONNECT" /\ socket.conv = k /\ ~socket.closing
          /\ await = "valid" /\ listener = "LISTEN"
       \/ socket.state = "DISCONNECT" /\ socket.closing /\ await = "valid"
       \/ socket.state = "DISCONNECT" /\ ~socket.closing /\ await = "invalid"

(* ... a socket with a session, whose close callback is due until the      *)
(* session knows; its entry among the pre-connect sockets is NULL until    *)
(* the next idle callback ...                                              *)
Established(socket, await, connect, session) ==
    /\ socket.life = "alive" /\ connect = "valid"
    /\ await = "none" \/ (await = "null" /\ idle = "none" /\ socket.state # "DISCONNECT")
    /\ \/ socket.state = "CONNECT" /\ ~socket.closing /\ session = "online"
       \/ /\ socket.state = "WAIT_DISCONNECT" /\ ~socket.closing
          /\ session \in {"online", "offline"}
       \/ socket.state = "DISCONNECT" /\ socket.closing /\ session \in {"online", "offline"}
       \/ socket.state = "DISCONNECT" /\ ~socket.closing /\ session = "closed"

(* ... or freed, and out of the vectors by the next update.                *)
Freed(socket, await, connect, session) ==
    /\ socket.life = "freed" /\ socket.state = "DISCONNECT" /\ ~socket.closing
    /\ await = "none" /\ session = "none"
    /\ connect = "none" \/ (connect = "invalid" /\ idle # "update")

Stage(k, socket, await, connect, session) ==
    \/ Awaited(k, socket, await, connect, session)
    \/ Established(socket, await, connect, session)
    \/ Freed(socket, await, connect, session)

(* Client a got conv k. *)
Assigned(a, k) ==
    a \in Clients /\ k \in Convs /\ k <= m_convCount /\ server[k].peer = a

EntryInv(k) ==
    \/ Unused(k)
    \/ /\ \E a \in Clients : Assigned(a, k) /\ server[k].addr = a
       /\ Stage(k, server[k], m_allAwaitConnectSocket[k], m_allConnectSocket[k], m_allSession[k])

(* A client asks only the socket that was opened for it, and is connected  *)
(* but once.                                                               *)
ClientInv(a) ==
    /\ client[a].addr = Listen \/ Assigned(a, client[a].addr)
    /\ client[a].state = "WAIT_CONNECT" => client[a].accepted = 0

(* What is on its way between a client and the socket of a conv is about   *)
(* that conv, which is the client's; and a client that answers is          *)
(* connected with it.                                                      *)
PacketInv(p) ==
    /\ p.type = "connect" /\ p.from \in Clients /\ p.to # Listen => Assigned(p.from, p.to)
    /\ p.type = "send_back_conv" => Assigned(p.to, p.conv)
    /\ p.type = "svr_connect" => p.from = p.conv /\ Assigned(p.to, p.conv)
    /\ p.type = "svr_send_back_conv" =>
          p.to = p.conv /\ Assigned(p.from, p.conv) /\ client[p.from].accepted = p.conv

(* The inductive invariant *)
HandshakeInv ==
    /\ TypeOK
    /\ \A k \in Convs : EntryInv(k)
    /\ \A a \in Clients : ClientInv(a)
    /\ \A p \in net : PacketInv(p)
    /\ Agreement /\ OneSocketPerAddress /\ AwaitBounded

-----------------------------------------------------------------------------
(* Sockets                                                                 *)

(* What shutdownSocket and disconnect make of a server's socket *)
LEMMA ServerSocketOps ==
    ASSUME NEW x \in ServerSocket
    PROVE  /\ x.life \in {"none", "alive", "freed"} /\ x.state \in State /\ x.conv \in Ports
           /\ x.addr \in Clients \cup {Listen} /\ x.peer \in Clients \cup {Listen}
           /\ x.closing \in BOOLEAN
           /\ \A b \in BOOLEAN :
                /\ Shutdown(x, b) \in ServerSocket
                /\ Shutdown(x, b).state = "DISCONNECT" /\ Shutdown(x, b).conv = 0
                /\ Shutdown(x, b).closing <=> x.closing \/ b
                /\ Shutdown(x, b).life = x.life /\ Shutdown(x, b).peer = x.peer
                /\ Shutdown(x, b).addr = x.addr
           /\ ReleaseConv(x) \in ServerSocket
           /\ ReleaseConv(x).state = x.state /\ ReleaseConv(x).closing = x.closing
           /\ ReleaseConv(x).life = x.life /\ ReleaseConv(x).peer = x.peer
           /\ ReleaseConv(x).addr = x.addr /\ ReleaseConv(x).conv = 0
           /\ \A f \in State :
                /\ [x EXCEPT !.state = f] \in ServerSocket
                /\ [x EXCEPT !.state = f].state = f /\ [x EXCEPT !.state = f].closing = x.closing
                /\ [x EXCEPT !.state = f].life = x.life /\ [x EXCEPT !.state = f].peer = x.peer
                /\ [x EXCEPT !.state = f].addr = x.addr /\ [x EXCEPT !.state = f].conv = x.conv
<1>1. 0 \in Ports /\ "DISCONNECT" \in State
  BY BoundsAssumption DEF Ports, State
<1>2. /\ x.life \in {"none", "alive", "freed"} /\ x.state \in State /\ x.conv \in Ports
      /\ x.addr \in Clients \cup {Listen} /\ x.peer \in Clients \cup {Listen}
      /\ x.closing \in BOOLEAN
  BY DEF ServerSocket
<1>3. \A b \in BOOLEAN :
         /\ Shutdown(x, b) \in ServerSocket
         /\ Shutdown(x, b).state = "DISCONNECT" /\ Shutdown(x, b).conv = 0
         /\ Shutdown(x, b).closing <=> x.closing \/ b
         /\ Shutdown(x, b).life = x.life /\ Shutdown(x, b).peer = x.peer
         /\ Shutdown(x, b).addr = x.addr
  BY <1>1 DEF ServerSocket, Shutdown
<1>4. /\ ReleaseConv(x) \in ServerSocket
      /\ ReleaseConv(x).state = x.state /\ ReleaseConv(x).closing = x.closing
      /\ ReleaseConv(x).life = x.life /\ ReleaseConv(x).peer = x.peer
      /\ ReleaseConv(x).addr = x.addr /\ ReleaseConv(x).conv = 0
  BY <1>1 DEF ServerSocket, ReleaseConv
<1>5. \A f \in State :
         /\ [x EXCEPT !.state = f] \in ServerSocket
         /\ [x EXCEPT !.state = f].state = f /\ [x EXCEPT !.state = f].closing = x.closing
         /\ [x EXCEPT !.state = f].life = x.life /\ [x EXCEPT !.state = f].peer = x.peer
         /\ [x EXCEPT !.state = f].addr = x.addr /\ [x EXCEPT !.state = f].conv = x.conv
  BY DEF ServerSocket
<1> QED BY <1>2, <1>3, <1>4, <1>5

(* No shutdown frees a socket. *)
LEMMA ShutdownLife ==
    ASSUME NEW x \in ServerSocket
    PROVE  Shutdown(x, TRUE).life = x.life /\ Shutdown(x, FALSE).life = x.life
BY DEF ServerSocket, Shutdown

(* A shutdown that closes *)
LEMMA ShutsDown ==
    ASSUME NEW x \in ServerSocket
    PROVE  /\ Shutdown(x, TRUE) \in ServerSocket
           /\ Shutdown(x, TRUE).life = x.life /\ Shutdown(x, TRUE).peer = x.peer
           /\ Shutdown(x, TRUE).addr = x.addr /\ Shutdown(x, TRUE).state = "DISCONNECT"
           /\ Shutdown(x, TRUE).closing
<1>1. 0 \in Ports /\ "DISCONNECT" \in State
  BY BoundsAssumption DEF Ports, State
<1> QED BY <1>1 DEF ServerSocket, Shutdown

LEMMA ServerSocketDisconnect ==
    ASSUME NEW x \in ServerSocket
    PROVE  LET y == SocketDisconnect(x) IN
           /\ y \in ServerSocket /\ y.life = x.life /\ y.peer = x.peer /\ y.addr = x.addr
           /\ x.state = "WAIT_CONNECT" => y.state = "DISCONNECT" /\ y.closing
           /\ x.state # "WAIT_CONNECT" => y.closing = x.closing
           /\ x.state = "CONNECT" => y.state = "WAIT_DISCONNECT"
           /\ x.state \notin {"WAIT_CONNECT", "CONNECT"} => y.state = x.state
<1> DEFINE r == ReleaseConv(x)
<1>1. /\ r \in ServerSocket /\ r.life = x.life /\ r.peer = x.peer /\ r.addr = x.addr
      /\ r.state = x.state /\ r.closing = x.closing
  BY ServerSocketOps
<1> HIDE DEF r
<1>2. CASE x.state = "WAIT_CONNECT"
  <2>1. SocketDisconnect(x) = Shutdown(r, TRUE)
    BY <1>2 DEF SocketDisconnect, r
  <2>2. /\ Shutdown(r, TRUE) \in ServerSocket
        /\ Shutdown(r, TRUE).life = r.life /\ Shutdown(r, TRUE).peer = r.peer
        /\ Shutdown(r, TRUE).addr = r.addr /\ Shutdown(r, TRUE).state = "DISCONNECT"
        /\ Shutdown(r, TRUE).closing
    BY <1>1, ShutsDown, Zenon
  <2>3. PICK y : y = Shutdown(r, TRUE)
    OBVIOUS
  <2>4. /\ y \in ServerSocket /\ y.life = x.life /\ y.peer = x.peer /\ y.addr = x.addr
        /\ y.state = "DISCONNECT" /\ y.closing
    BY <1>1, <2>2, <2>3
  <2> QED BY <1>2, <2>1, <2>3, <2>4
<1>3. CASE x.state = "CONNECT"
  <2>1. SocketDisconnect(x) = [r EXCEPT !.state = "WAIT_DISCONNECT"]
    BY <1>3 DEF SocketDisconnect, r
  <2>2. "WAIT_DISCONNECT" \in State
    BY DEF State
  <2>3. /\ [r EXCEPT !.state = "WAIT_DISCONNECT"] \in ServerSocket
        /\ [r EXCEPT !.state = "WAIT_DISCONNECT"].state = "WAIT_DISCONNECT"
        /\ [r EXCEPT !.state = "WAIT_DISCONNECT"].closing = r.closing
        /\ [r EXCEPT !.state = "WAIT_DISCONNECT"].life = r.life
        /\ [r EXCEPT !.state = "WAIT_DISCONNECT"].peer = r.peer
        /\ [r EXCEPT !.state = "WAIT_DISCONNECT"].addr = r.addr
    BY <1>1, <2>2, ServerSocketOps
  <2> QED BY <1>1, <1>3, <2>1, <2>3
<1>4. CASE x.state \notin {"WAIT_CONNECT", "CONNECT"}
  <2>1. SocketDisconnect(x) = r
    BY <1>4 DEF SocketDisconnect, r
  <2> QED BY <1>1, <1>4, <2>1
<1> QED BY <1>2, <1>3, <1>4

(* What the steps of a client make of its socket *)
LEMMA ClientSocketOps ==
    ASSUME NEW x \in ClientSocket
    PROVE  /\ x.state \in State /\ x.conv \in Ports /\ x.addr \in Ports /\ x.accepted \in Ports
           /\ x.closing \in BOOLEAN
           /\ \A b \in BOOLEAN :
                /\ Shutdown(x, b) \in ClientSocket /\ Shutdown(x, b).state = "DISCONNECT"
                /\ Shutdown(x, b).addr = x.addr /\ Shutdown(x, b).accepted = x.accepted
           /\ ReleaseConv(x) \in ClientSocket /\ ReleaseConv(x).state = x.state
           /\ ReleaseConv(x).addr = x.addr /\ ReleaseConv(x).accepted = x.accepted
           /\ \A f \in State :
                /\ [x EXCEPT !.state = f] \in ClientSocket /\ [x EXCEPT !.state = f].state = f
                /\ [x EXCEPT !.state = f].addr = x.addr
                /\ [x EXCEPT !.state = f].accepted = x.accepted
<1>1. 0 \in Ports /\ "DISCONNECT" \in State
  BY BoundsAssumption DEF Ports, State
<1>2. /\ x.state \in State /\ x.conv \in Ports /\ x.addr \in Ports /\ x.accepted \in Ports
      /\ x.closing \in BOOLEAN
  BY DEF ClientSocket
<1>3. \A b \in BOOLEAN :
         /\ Shutdown(x, b) \in ClientSocket /\ Shutdown(x, b).state = "DISCONNECT"
         /\ Shutdown(x, b).addr = x.addr /\ Shutdown(x, b).accepted = x.accepted
  BY <1>1 DEF ClientSocket, Shutdown
<1>4. /\ ReleaseConv(x) \in ClientSocket /\ ReleaseConv(x).state = x.state
      /\ ReleaseConv(x).addr = x.addr /\ ReleaseConv(x).accepted = x.accepted
  BY <1>1 DEF ClientSocket, ReleaseConv
<1>5. \A f \in State :
         /\ [x EXCEPT !.state = f] \in ClientSocket /\ [x EXCEPT !.state = f].state = f
         /\ [x EXCEPT !.state = f].addr = x.addr
         /\ [x EXCEPT !.state = f].accepted = x.accepted
  BY DEF ClientSocket
<1> QED BY <1>2, <1>3, <1>4, <1>5

(* A client's shutdown, by its own call or by a timeout *)
LEMMA ClientShutsDown ==
    ASSUME NEW x \in ClientSocket, NEW y, y = Shutdown(x, TRUE) \/ y = Shutdown(x, FALSE)
    PROVE  /\ y \in ClientSocket /\ y.state = "DISCONNECT"
           /\ y.addr = x.addr /\ y.accepted = x.accepted
<1>1. 0 \in Ports /\ "DISCONNECT" \in State
  BY BoundsAssumption DEF Ports, State
<1> QED BY <1>1 DEF ClientSocket, Shutdown

LEMMA ClientSocketDisconnect ==
    ASSUME NEW x \in ClientSocket
    PROVE  /\ SocketDisconnect(x) \in ClientSocket
           /\ SocketDisconnect(x).addr = x.addr /\ SocketDisconnect(x).accepted = x.accepted
           /\ SocketDisconnect(x).state # "WAIT_CONNECT"
<1> DEFINE r == ReleaseConv(x)
<1>1. r \in ClientSocket /\ r.state = x.state /\ r.addr = x.addr /\ r.accepted = x.accepted
  BY ClientSocketOps
<1> HIDE DEF r
<1>2. CASE x.state = "WAIT_CONNECT"
  <2>1. SocketDisconnect(x) = Shutdown(r, TRUE)
    BY <1>2 DEF SocketDisconnect, r
  <2>2. /\ Shutdown(r, TRUE) \in ClientSocket /\ Shutdown(r, TRUE).state = "DISCONNECT"
        /\ Shutdown(r, TRUE).addr = r.addr /\ Shutdown(r, TRUE).accepted = r.accepted
    BY <1>1, ClientSocketOps
  <2> QED BY <1>1, <2>1, <2>2
<1>3. CASE x.state = "CONNECT"
  <2>1. SocketDisconnect(x) = [r EXCEPT !.state = "WAIT_DISCONNECT"]
    BY <1>3 DEF SocketDisconnect, r
  <2>2. "WAIT_DISCONNECT" \in State
    BY DEF State
  <2>3. /\ [r EXCEPT !.state = "WAIT_DISCONNECT"] \in ClientSocket
        /\ [r EXCEPT !.state = "WAIT_DISCONNECT"].state = "WAIT_DISCONNECT"
        /\ [r EXCEPT !.state = "WAIT_DISCONNECT"].addr = r.addr
        /\ [r EXCEPT !.state = "WAIT_DISCONNECT"].accepted = r.accepted
    BY <1>1, <2>2 DEF ClientSocket
  <2> QED BY <1>1, <2>1, <2>3
<1>4. CASE x.state \notin {"WAIT_CONNECT", "CONNECT"}
  <2>1. SocketDisconnect(x) = r
    BY <1>4 DEF SocketDisconnect, r
  <2> QED BY <1>1, <1>4, <2>1
<1> QED BY <1>2, <1>3, <1>4
-----------------------------------------------------------------------------
(* What steps keep                                                         *)

LEMMA PortFacts ==
    /\ Convs \subseteq Nat \ {0} /\ Convs \subseteq Ports /\ Listen \in Ports /\ Listen \notin Convs
    /\ Ports \subseteq Nat /\ Ports = Convs \cup {Listen}
    /\ \A a \in Clients : a \notin Ports
BY BoundsAssumption, ClientsAssumption DEF Convs, Ports, Listen

(* Convs are given once, and a client's first connection is remembered. *)
Remembers ==
    /\ m_convCount <= m_convCount'
    /\ \A k \in Convs : k <= m_convCount => server'[k].peer = server[k].peer
    /\ \A a \in Clients : client[a].accepted # 0 => client'[a].accepted = client[a].accepted

LEMMA AssignedKeeps ==
    ASSUME TypeOK, TypeOK', Remembers
    PROVE  \A a, k : Assigned(a, k) => Assigned(a, k)'
<1>1. m_convCount \in Nat /\ m_convCount' \in Nat /\ \A k \in Convs : k \in Nat
  BY PortFacts DEF TypeOK
<1> QED BY <1>1 DEF Remembers, Assigned

LEMMA PacketKeeps ==
    ASSUME TypeOK, TypeOK', Remembers
    PROVE  \A p \in Datagram : PacketInv(p) => PacketInv(p)'
<1> SUFFICES ASSUME NEW p \in Datagram, PacketInv(p) PROVE PacketInv(p)'
  OBVIOUS
<1>1. p.type = "svr_send_back_conv" => client'[p.from].accepted = p.conv
  BY PortFacts DEF PacketInv, Assigned, Remembers, Listen
<1> QED BY <1>1, AssignedKeeps DEF PacketInv

(* Datagrams that are true when they are sent stay so. *)
LEMMA NetKeeps ==
    ASSUME HandshakeInv, TypeOK', Remembers, NEW P, net' \subseteq net \cup P,
           \A p \in P : PacketInv(p)'
    PROVE  \A p \in net' : PacketInv(p)'
<1>1. \A p \in net : p \in Datagram /\ PacketInv(p)
  BY DEF HandshakeInv, TypeOK
<1> QED BY <1>1, PacketKeeps DEF HandshakeInv

(* A step of a client *)
LEMMA ClientStepKeeps ==
    ASSUME HandshakeInv, NEW a \in Clients, NEW x \in ClientSocket, ClientStep(a, x),
           NEW P, P \subseteq Datagram, net' \subseteq net \cup P, UNCHANGED lost,
           x.addr = Listen \/ Assigned(a, x.addr),
           x.state = "WAIT_CONNECT" => x.accepted = 0,
           client[a].accepted # 0 => x.accepted = client[a].accepted,
           \A p \in P :
              \/ PacketInv(p)
              \/ /\ p.type = "svr_send_back_conv" /\ p.from = a /\ p.to = p.conv
                 /\ Assigned(a, p.conv) /\ x.accepted = p.conv
    PROVE  HandshakeInv'
<1>0. TypeOK
  BY DEF HandshakeInv
<1>1. client' = [client EXCEPT ![a] = x] /\ UNCHANGED serverVars
  BY DEF ClientStep
<1>2. client' \in [Clients -> ClientSocket] /\ client'[a] = x
      /\ \A b \in Clients \ {a} : client'[b] = client[b]
  BY <1>0, <1>1 DEF TypeOK
<1>3. TypeOK'
  BY <1>0, <1>1, <1>2 DEF TypeOK, serverVars
<1>4. Remembers
  <2>1. m_convCount \in Nat /\ UNCHANGED <<m_convCount, server>>
    BY <1>0, <1>1, PortFacts DEF TypeOK, serverVars
  <2> QED BY <1>2, <2>1 DEF Remembers
<1>5. \A p \in net' : PacketInv(p)'
  <2>1. ASSUME NEW p \in P PROVE PacketInv(p)'
    <3>1. CASE PacketInv(p)
      BY <3>1, <1>0, <1>3, <1>4, PacketKeeps
    <3>2. CASE /\ p.type = "svr_send_back_conv" /\ p.from = a /\ p.to = p.conv
               /\ Assigned(a, p.conv) /\ x.accepted = p.conv
      BY <3>2, <1>0, <1>2, <1>3, <1>4, AssignedKeeps DEF PacketInv
    <3> QED BY <3>1, <3>2
  <2> QED BY <2>1, <1>3, <1>4, NetKeeps
<1>6. \A k \in Convs : EntryInv(k)'
  <2>1. ASSUME NEW k \in Convs PROVE EntryInv(k)'
    <3>1. EntryInv(k)
      BY DEF HandshakeInv
    <3> QED BY <1>1, <3>1 DEF EntryInv, Unused, Stage, Awaited, Established, Freed, Assigned, serverVars
  <2> QED BY <2>1
<1>7. ASSUME NEW b \in Clients PROVE ClientInv(b)'
  <2>1. CASE b = a
    BY <2>1, <1>0, <1>2, <1>3, <1>4, AssignedKeeps DEF ClientInv
  <2>2. CASE b # a
    BY <2>2, <1>0, <1>2, <1>3, <1>4, AssignedKeeps DEF ClientInv, HandshakeInv
  <2> QED BY <2>1, <2>2
<1>8. Agreement'
  <2>1. ASSUME NEW k \in Convs, m_allSession[k] # "none"
        PROVE  server[k].peer \in Clients /\ client'[server[k].peer].accepted = k
    <3>1. server[k].peer \in Clients /\ client[server[k].peer].accepted = k /\ k # 0
      BY <2>1, PortFacts DEF HandshakeInv, Agreement, Listen
    <3> QED BY <3>1, <1>4 DEF Remembers
  <2> QED BY <1>1, <2>1 DEF Agreement, serverVars
<1>9. OneSocketPerAddress' /\ AwaitBounded'
  BY <1>1 DEF HandshakeInv, OneSocketPerAddress, AwaitBounded, serverVars
<1> QED BY <1>3, <1>5, <1>6, <1>7, <1>8, <1>9 DEF HandshakeInv

LEMMA ConvsFinite == IsFiniteSet(Convs)
  BY BoundsAssumption, FS_Interval DEF Convs

(* A socket that waits, or that lives *)
Live(k) == server[k].state \in {"WAIT_CONNECT", "CONNECT"}

(* A step of the server in which no socket comes to life *)
LEMMA ServerStepKeeps ==
    ASSUME HandshakeInv, TypeOK', UNCHANGED <<client, m_convCount>>,
           \A k \in Convs :
              /\ EntryInv(k)' /\ server'[k].peer = server[k].peer
              /\ server'[k].state = "WAIT_CONNECT" => server[k].state = "WAIT_CONNECT"
              /\ Live(k)' => Live(k)
              /\ m_allSession'[k] # "none" =>
                    \/ m_allSession[k] # "none"
                    \/ server[k].peer \in Clients /\ client[server[k].peer].accepted = k,
           NEW P, net' \subseteq net \cup P, \A p \in P : PacketInv(p)'
    PROVE  HandshakeInv'
<1>0. TypeOK
  BY DEF HandshakeInv
<1>1. Remembers
  <2>1. m_convCount \in Nat
    BY <1>0, PortFacts DEF TypeOK
  <2> QED BY <2>1 DEF Remembers
<1>2. \A p \in net' : PacketInv(p)'
  BY <1>1, NetKeeps
<1>3. \A b \in Clients : ClientInv(b)'
  BY <1>0, <1>1, AssignedKeeps DEF ClientInv, HandshakeInv
<1>4. Agreement'
  BY DEF HandshakeInv, Agreement
<1>5. OneSocketPerAddress'
  BY DEF HandshakeInv, OneSocketPerAddress, Live
<1>6. AwaitBounded'
  <2> DEFINE W == {k \in Convs : server[k].state = "WAIT_CONNECT"}
             V == {k \in Convs : server'[k].state = "WAIT_CONNECT"}
  <2>1. V \subseteq W
    OBVIOUS
  <2>2. IsFiniteSet(W)
    BY ConvsFinite, FS_Subset
  <2>3. Cardinality(W) <= AwaitLimit + 1
    BY DEF HandshakeInv, AwaitBounded
  <2>4. Cardinality(V) <= Cardinality(W) /\ Cardinality(V) \in Nat /\ Cardinality(W) \in Nat
    <3> HIDE DEF V, W
    <3> QED BY <2>1, <2>2, FS_Subset, FS_CardinalityType
  <2>5. Cardinality(V) <= AwaitLimit + 1
    <3> HIDE DEF V, W
    <3> QED BY <2>3, <2>4, BoundsAssumption
  <2> QED BY <2>5 DEF AwaitBounded
<1> QED BY <1>2, <1>3, <1>4, <1>5, <1>6 DEF HandshakeInv
-----------------------------------------------------------------------------
(* Datagrams                                                               *)

LEMMA ConnectPacketInv ==
    ASSUME NEW a \in Clients, NEW k \in Ports, k = Listen \/ Assigned(a, k)
    PROVE  ConnectPacket(a, k) \in Datagram /\ PacketInv(ConnectPacket(a, k))
BY PortFacts DEF ConnectPacket, Packet, Datagram, PacketType, PacketInv, Listen

LEMMA SvrConnectPacketInv ==
    ASSUME NEW a \in Clients, NEW k \in Convs, Assigned(a, k)
    PROVE  SvrConnectPacket(k, a) \in Datagram /\ PacketInv(SvrConnectPacket(k, a))
BY PortFacts DEF SvrConnectPacket, Packet, Datagram, PacketType, PacketInv

LEMMA DisconnectPacketInv ==
    ASSUME NEW self \in Clients \cup Ports, NEW x, x.addr \in Clients \cup Ports,
           ReleaseConv(x).conv = 0
    PROVE  /\ DisconnectPackets(self, x) \subseteq Datagram
           /\ \A p \in DisconnectPackets(self, x) : PacketInv(p)
<1>1. /\ Packet("disconnect", self, x.addr, 0) \in Datagram
      /\ Packet("disconnect", self, x.addr, 0).type = "disconnect"
  BY PortFacts DEF Packet, Datagram, PacketType, Listen
<1> QED BY <1>1 DEF DisconnectPackets, PacketInv

LEMMA ReceiveFacts ==
    ASSUME NEW p, NEW P, Receive(p, P)
    PROVE  p \in net /\ net' \subseteq net \cup P /\ UNCHANGED lost
BY DEF Receive

-----------------------------------------------------------------------------
(* The clients                                                             *)

LEMMA ConnectKeeps == ASSUME HandshakeInv, NEW a \in Clients, Connect(a) PROVE HandshakeInv'
<1>1. client[a] \in ClientSocket /\ client[a].addr = Listen /\ client[a].accepted = 0
  <2>1. client[a] \in ClientSocket
    BY DEF HandshakeInv, TypeOK
  <2>2. NewClient.addr = Listen /\ NewClient.accepted = 0
    BY DEF NewClient
  <2> QED BY <2>1, <2>2 DEF Connect
<1>2. PICK x : x = [client[a] EXCEPT !.state = "WAIT_CONNECT"]
  OBVIOUS
<1>3. x \in ClientSocket /\ x.addr = Listen /\ x.accepted = 0
  BY <1>1, <1>2 DEF ClientSocket, State
<1>4. ClientStep(a, x) /\ net' = net \cup {ConnectPacket(a, Listen)} /\ UNCHANGED lost
  BY <1>2 DEF Connect, Send
<1>5. ConnectPacket(a, Listen) \in Datagram /\ PacketInv(ConnectPacket(a, Listen))
  BY PortFacts, ConnectPacketInv
<1>6. PICK P : P = {ConnectPacket(a, Listen)}
  OBVIOUS
<1>7. P \subseteq Datagram /\ net' \subseteq net \cup P /\ \A p \in P : PacketInv(p)
  BY <1>4, <1>5, <1>6
<1> QED BY <1>1, <1>3, <1>4, <1>7, ClientStepKeeps

LEMMA ResendKeeps == ASSUME HandshakeInv, NEW a \in Clients, Resend(a) PROVE HandshakeInv'
<1>1. client[a] \in ClientSocket /\ client \in [Clients -> ClientSocket]
  BY DEF HandshakeInv, TypeOK
<1>2. PICK x : x = client[a]
  OBVIOUS
<1>3. ClientInv(a) /\ x.addr \in Ports
  BY <1>1, <1>2 DEF HandshakeInv, ClientSocket
<1>4. client' = client /\ UNCHANGED serverVars
      /\ net' = net \cup {ConnectPacket(a, x.addr)} /\ UNCHANGED lost
  BY <1>2 DEF Resend, Send
<1>5. ClientStep(a, x)
  BY <1>1, <1>2, <1>4 DEF ClientStep
<1>6. ConnectPacket(a, x.addr) \in Datagram /\ PacketInv(ConnectPacket(a, x.addr))
  BY <1>2, <1>3, ConnectPacketInv DEF ClientInv
<1>7. PICK P : P = {ConnectPacket(a, x.addr)}
  OBVIOUS
<1>8. P \subseteq Datagram /\ net' \subseteq net \cup P /\ \A p \in P : PacketInv(p)
  BY <1>4, <1>6, <1>7
<1>9. /\ x.addr = Listen \/ Assigned(a, x.addr)
      /\ x.state = "WAIT_CONNECT" => x.accepted = 0
      /\ x.accepted = client[a].accepted /\ x \in ClientSocket
  BY <1>1, <1>2, <1>3 DEF ClientInv
<1> QED BY <1>4, <1>5, <1>8, <1>9, ClientStepKeeps

(* A step that sends nothing but the end of a connection, and starts none *)
LEMMA ClientEndKeeps ==
    ASSUME HandshakeInv, NEW a \in Clients, NEW x \in ClientSocket, ClientStep(a, x),
           x.addr = client[a].addr, x.accepted = client[a].accepted,
           x.state # "WAIT_CONNECT",
           NEW P, P \subseteq Datagram, net' \subseteq net \cup P, UNCHANGED lost,
           \A p \in P : PacketInv(p)
    PROVE  HandshakeInv'
<1>1. ClientInv(a)
  BY DEF HandshakeInv
<1> QED BY <1>1, ClientStepKeeps DEF ClientInv

LEMMA ClientTimersKeep ==
    ASSUME HandshakeInv, NEW a \in Clients,
           ConnectTimeout(a) \/ SendTimeout(a) \/ ClientReleased(a) \/ ClientClosed(a)
    PROVE  HandshakeInv'
<1>1. client[a] \in ClientSocket
  BY DEF HandshakeInv, TypeOK
<1>2. PICK P : P = {}
  OBVIOUS
<1>3. P \subseteq Datagram /\ net' \subseteq net \cup P /\ UNCHANGED lost
      /\ \A p \in P : PacketInv(p)
  BY <1>2 DEF ConnectTimeout, SendTimeout, ClientReleased, ClientClosed, Send
<1>4. CASE ConnectTimeout(a)
  <2>0. PICK y : y = Shutdown(client[a], FALSE)
    OBVIOUS
  <2>1. /\ y \in ClientSocket /\ y = TimedOut(client[a]) /\ y.state = "DISCONNECT"
        /\ y.addr = client[a].addr /\ y.accepted = client[a].accepted
    BY <1>1, <2>0, ClientShutsDown DEF TimedOut
  <2>2. PICK x : x = [y EXCEPT !.result = "timedout"]
    OBVIOUS
  <2>3. /\ x \in ClientSocket /\ x.state = "DISCONNECT" /\ x.addr = y.addr
        /\ x.accepted = y.accepted
    BY <2>1, <2>2 DEF ClientSocket
  <2>4. ClientStep(a, x)
    BY <1>4, <2>1, <2>2 DEF ConnectTimeout
  <2> QED BY <1>3, <2>1, <2>3, <2>4, ClientEndKeeps
<1>5. CASE SendTimeout(a) \/ ClientReleased(a)
  <2>0. PICK x : x = Shutdown(client[a], TRUE)
    OBVIOUS
  <2>1. /\ x \in ClientSocket /\ x.state = "DISCONNECT"
        /\ x.addr = client[a].addr /\ x.accepted = client[a].accepted
    BY <1>1, <2>0, ClientShutsDown
  <2>2. ClientStep(a, x)
    BY <1>5, <2>0 DEF SendTimeout, ClientReleased
  <2> QED BY <1>3, <2>1, <2>2, ClientEndKeeps
<1>6. CASE ClientClosed(a)
  <2>1. PICK x : x = [client[a] EXCEPT !.closing = FALSE, !.result = "closed"]
    OBVIOUS
  <2>2. /\ x \in ClientSocket /\ x.addr = client[a].addr /\ x.state = client[a].state
        /\ x.accepted = client[a].accepted
    BY <1>1, <2>1 DEF ClientSocket
  <2>3. ClientStep(a, x) /\ ClientInv(a)
    BY <1>6, <2>1 DEF ClientClosed, HandshakeInv
  <2> QED BY <1>3, <2>2, <2>3, ClientStepKeeps DEF ClientInv
<1> QED BY <1>4, <1>5, <1>6

LEMMA ClientDisconnectKeeps ==
    ASSUME HandshakeInv, NEW a \in Clients, ClientDisconnect(a) PROVE HandshakeInv'
<1>1. client[a] \in ClientSocket
  BY DEF HandshakeInv, TypeOK
<1>2. PICK x \in ClientSocket : x = SocketDisconnect(client[a]) /\ x.state # "WAIT_CONNECT"
                    /\ x.addr = client[a].addr /\ x.accepted = client[a].accepted
  BY <1>1, ClientSocketDisconnect
<1>3. PICK P : P = DisconnectPackets(a, client[a])
  OBVIOUS
<1>4. P \subseteq Datagram /\ \A p \in P : PacketInv(p)
  <2>1. client[a].addr \in Clients \cup Ports /\ ReleaseConv(client[a]).conv = 0
    BY <1>1 DEF ClientSocket, ReleaseConv
  <2> QED BY <1>3, <2>1, DisconnectPacketInv
<1>5. ClientStep(a, x) /\ net' \subseteq net \cup P /\ UNCHANGED lost
  BY <1>2, <1>3 DEF ClientDisconnect, Send
<1> QED BY <1>2, <1>4, <1>5, ClientEndKeeps

(* A client connects but once, with the socket it was given. *)
LEMMA ClientReadsKeep == ASSUME HandshakeInv, NEW a \in Clients, ClientReads(a) PROVE HandshakeInv'
<1>1. client[a] \in ClientSocket /\ ClientInv(a)
  BY DEF HandshakeInv, TypeOK
<1>2. PICK p \in net : OnSendBackConv(a, p) \/ OnSvrConnect(a, p) \/ OnClientDisconnect(a, p)
  BY DEF ClientReads
<1>3. PacketInv(p) /\ p \in Datagram
  BY DEF HandshakeInv, TypeOK
<1>4. CASE OnSendBackConv(a, p)
  <2>1. p.type = "send_back_conv" /\ p.to = a /\ client[a].state = "WAIT_CONNECT"
        /\ Assigned(a, p.conv) /\ p.conv \in Ports
    BY <1>3, <1>4, PortFacts DEF OnSendBackConv, PacketInv, Assigned
  <2>2. PICK x : x = [client[a] EXCEPT !.addr = p.conv, !.conv = p.conv]
    OBVIOUS
  <2>3. /\ x \in ClientSocket /\ x.addr = p.conv /\ x.state = client[a].state
        /\ x.accepted = client[a].accepted
    BY <1>1, <2>1, <2>2 DEF ClientSocket
  <2>4. ConnectPacket(a, p.conv) \in Datagram /\ PacketInv(ConnectPacket(a, p.conv))
    BY <2>1, ConnectPacketInv
  <2>5. PICK P : P = {ConnectPacket(a, p.conv)}
    OBVIOUS
  <2>6. ClientStep(a, x) /\ net' \subseteq net \cup P /\ UNCHANGED lost
    BY <1>4, <2>2, <2>5, ReceiveFacts DEF OnSendBackConv
  <2> QED BY <1>1, <2>1, <2>3, <2>4, <2>5, <2>6, ClientStepKeeps DEF ClientInv
<1>5. CASE OnSvrConnect(a, p)
  <2>1. p.type = "svr_connect" /\ p.to = a /\ client[a].state = "WAIT_CONNECT"
        /\ p.from = p.conv /\ Assigned(a, p.conv) /\ p.conv \in Ports /\ client[a].accepted = 0
    BY <1>1, <1>3, <1>5, PortFacts DEF OnSvrConnect, PacketInv, Assigned, ClientInv
  <2>2. PICK x : x = [client[a] EXCEPT !.addr = p.from, !.conv = p.conv, !.state = "CONNECT",
                                       !.result = "connected", !.accepted = p.conv]
    OBVIOUS
  <2>3. /\ x \in ClientSocket /\ x.addr = p.conv /\ x.state = "CONNECT" /\ x.accepted = p.conv
    BY <1>1, <2>1, <2>2 DEF ClientSocket, State
  <2>4. PICK r \in Datagram : r = Answer(a, p) /\ r.type = "svr_send_back_conv" /\ r.from = a
                              /\ r.to = p.conv /\ r.conv = p.conv
    <3>1. /\ Answer(a, p) \in Datagram /\ Answer(a, p).type = "svr_send_back_conv"
          /\ Answer(a, p).from = a /\ Answer(a, p).to = p.conv /\ Answer(a, p).conv = p.conv
      BY <2>1 DEF Answer, Packet, Datagram, PacketType
    <3> QED BY <3>1
  <2>5. ClientStep(a, x) /\ net' \subseteq net \cup {r} /\ UNCHANGED lost
    BY <1>5, <2>2, <2>4, ReceiveFacts DEF OnSvrConnect
  <2>6. \A q \in {r} : /\ q.type = "svr_send_back_conv" /\ q.from = a /\ q.to = q.conv
                       /\ Assigned(a, q.conv) /\ x.accepted = q.conv
    BY <2>1, <2>3, <2>4
  <2>7. PICK P : P = {r}
    OBVIOUS
  <2>8. P \subseteq Datagram /\ net' \subseteq net \cup P
        /\ \A q \in P : /\ q.type = "svr_send_back_conv" /\ q.from = a /\ q.to = q.conv
                        /\ Assigned(a, q.conv) /\ x.accepted = q.conv
    BY <2>5, <2>6, <2>7
  <2> QED BY <2>1, <2>3, <2>5, <2>8, ClientStepKeeps
<1>6. CASE OnClientDisconnect(a, p)
  <2>1. PICK x : x = [client[a] EXCEPT !.state = "WAIT_DISCONNECT"]
    OBVIOUS
  <2>2. /\ x \in ClientSocket /\ x.addr = client[a].addr /\ x.state = "WAIT_DISCONNECT"
        /\ x.accepted = client[a].accepted
    BY <1>1, <2>1 DEF ClientSocket, State
  <2>3. PICK P : P = {}
    OBVIOUS
  <2>4. ClientStep(a, x) /\ net' \subseteq net \cup P /\ UNCHANGED lost
    BY <1>6, <2>1, <2>3, ReceiveFacts DEF OnClientDisconnect
  <2> QED BY <2>2, <2>3, <2>4, ClientEndKeeps
<1> QED BY <1>2, <1>4, <1>5, <1>6

LEMMA ClientNextKeeps == HandshakeInv /\ ClientNext => HandshakeInv'
BY ConnectKeeps, ResendKeeps, ClientTimersKeep, ClientDisconnectKeeps, ClientReadsKeep DEF ClientNext
-----------------------------------------------------------------------------
(* The server's sockets                                                    *)

(* A conv that is in use has a client and a stage. *)
LEMMA InUse ==
    ASSUME HandshakeInv, NEW k \in Convs,
           \/ server[k].state # "DISCONNECT" \/ server[k].life = "alive"
           \/ m_allAwaitConnectSocket[k] # "none" \/ m_allConnectSocket[k] # "none"
           \/ m_allSession[k] # "none"
    PROVE  /\ server[k].peer \in Clients /\ server[k].addr = server[k].peer
           /\ Assigned(server[k].peer, k)
           /\ Stage(k, server[k], m_allAwaitConnectSocket[k], m_allConnectSocket[k], m_allSession[k])
<1>1. EntryInv(k)
  BY DEF HandshakeInv
<1>2. ~Unused(k)
  BY DEF Unused, NoServer
<1> QED BY <1>1, <1>2 DEF EntryInv, Assigned

(* A step of the socket y of one conv k in use, to the entries u, v and w,  *)
(* that sends the packets P                                                 *)
SocketStep(k, y, u, v, w, P) ==
    /\ UNCHANGED <<client, m_convCount, m_recess, listener, m_serverStage, idle, lost>>
    /\ y \in ServerSocket /\ server' = [server EXCEPT ![k] = y]
    /\ u \in {"none", "valid", "invalid", "null"}
    /\ m_allAwaitConnectSocket' = [m_allAwaitConnectSocket EXCEPT ![k] = u]
    /\ v \in {"none", "valid", "invalid"}
    /\ m_allConnectSocket' = [m_allConnectSocket EXCEPT ![k] = v]
    /\ w \in {"none", "online", "offline", "closed"}
    /\ m_allSession' = [m_allSession EXCEPT ![k] = w]
    /\ Assigned(server[k].peer, k) /\ server[k].addr = server[k].peer
    /\ y.peer = server[k].peer /\ y.addr = server[k].addr
    /\ y.state = "WAIT_CONNECT" => server[k].state = "WAIT_CONNECT"
    /\ y.state \in {"WAIT_CONNECT", "CONNECT"} => Live(k)
    /\ w # "none" => m_allSession[k] # "none" \/ client[server[k].peer].accepted = k
    /\ Stage(k, y, u, v, w)
    /\ P \subseteq Datagram /\ net' \subseteq net \cup P /\ \A p \in P : PacketInv(p)

(* Such a step keeps the invariant of every entry and of every packet.      *)
LEMMA SocketStepKeeps ==
    ASSUME HandshakeInv, NEW k \in Convs, NEW y, NEW u, NEW v, NEW w, NEW P,
           SocketStep(k, y, u, v, w, P)
    PROVE  HandshakeInv'
<1> USE DEF SocketStep
<1>0. TypeOK
  BY DEF HandshakeInv
<1>1. /\ server' \in [Convs -> ServerSocket] /\ server'[k] = y
      /\ \A j \in Convs \ {k} : server'[j] = server[j]
  BY <1>0 DEF TypeOK
<1>2. /\ m_allAwaitConnectSocket' \in [Convs -> {"none", "valid", "invalid", "null"}]
      /\ m_allAwaitConnectSocket'[k] = u
      /\ \A j \in Convs \ {k} : m_allAwaitConnectSocket'[j] = m_allAwaitConnectSocket[j]
  BY <1>0 DEF TypeOK
<1>3. /\ m_allConnectSocket' \in [Convs -> {"none", "valid", "invalid"}]
      /\ m_allConnectSocket'[k] = v
      /\ \A j \in Convs \ {k} : m_allConnectSocket'[j] = m_allConnectSocket[j]
  BY <1>0 DEF TypeOK
<1>4. /\ m_allSession' \in [Convs -> {"none", "online", "offline", "closed"}]
      /\ m_allSession'[k] = w
      /\ \A j \in Convs \ {k} : m_allSession'[j] = m_allSession[j]
  BY <1>0 DEF TypeOK
<1>5. TypeOK'
  BY <1>0, <1>1, <1>2, <1>3, <1>4 DEF TypeOK
<1>6. EntryInv(k)'
  BY <1>1, <1>2, <1>3, <1>4 DEF EntryInv, Assigned, Stage, Awaited, Established, Freed
<1>7. ASSUME NEW j \in Convs \ {k} PROVE EntryInv(j)'
  <2>1. EntryInv(j)
    BY DEF HandshakeInv
  <2> QED BY <2>1, <1>1, <1>2, <1>3, <1>4
          DEF EntryInv, Unused, Assigned, Stage, Awaited, Established, Freed
<1>8. Remembers
  <2>1. m_convCount \in Nat
    BY <1>0, PortFacts DEF TypeOK
  <2> QED BY <2>1, <1>1 DEF Remembers
<1>9. \A p \in P : PacketInv(p)'
  BY <1>0, <1>5, <1>8, PacketKeeps
<1>10. \A j \in Convs :
          /\ EntryInv(j)' /\ server'[j].peer = server[j].peer
          /\ server'[j].state = "WAIT_CONNECT" => server[j].state = "WAIT_CONNECT"
          /\ Live(j)' => Live(j)
          /\ m_allSession'[j] # "none" =>
                \/ m_allSession[j] # "none"
                \/ server[j].peer \in Clients /\ client[server[j].peer].accepted = j
  BY <1>1, <1>4, <1>6, <1>7 DEF Live, Assigned
<1> QED BY <1>5, <1>9, <1>10, ServerStepKeeps
LEMMA ServerSocketFields ==
    ASSUME NEW x \in ServerSocket
    PROVE  /\ Deleted(x) \in ServerSocket /\ Deleted(x).life = "freed"
           /\ Deleted(x).state = x.state /\ Deleted(x).closing = x.closing
           /\ Deleted(x).peer = x.peer /\ Deleted(x).addr = x.addr /\ Deleted(x).conv = x.conv
           /\ Answered(x, TRUE) \in ServerSocket /\ Answered(x, TRUE).state = "CONNECT"
           /\ Answered(x, TRUE).closing = x.closing /\ Answered(x, TRUE).life = x.life
           /\ Answered(x, TRUE).peer = x.peer /\ Answered(x, TRUE).addr = x.addr
BY DEF ServerSocket, Deleted, Answered, State

(* Nothing is freed, and no entry of the server changes. *)
LEMMA NetStepKeeps ==
    ASSUME HandshakeInv,
           UNCHANGED <<client, serverVars>>, lost' \in 0 .. MaxLost,
           NEW P, P \subseteq Datagram, net' \subseteq net \cup P, \A p \in P : PacketInv(p)
    PROVE  HandshakeInv'
<1>0. TypeOK
  BY DEF HandshakeInv
<1>1. TypeOK'
  BY <1>0 DEF TypeOK, serverVars
<1>2. Remembers
  <2>1. m_convCount \in Nat
    BY <1>0, PortFacts DEF TypeOK
  <2> QED BY <2>1 DEF Remembers, serverVars
<1>3. \A p \in P : PacketInv(p)'
  BY <1>0, <1>1, <1>2, PacketKeeps
<1>4. \A j \in Convs : EntryInv(j)'
  <2>1. ASSUME NEW j \in Convs PROVE EntryInv(j)'
    <3>1. EntryInv(j)
      BY DEF HandshakeInv
    <3> QED BY <3>1 DEF EntryInv, Unused, Assigned, Stage, Awaited, Established, Freed, serverVars
  <2> QED BY <2>1
<1> QED BY <1>1, <1>3, <1>4, ServerStepKeeps DEF Live, serverVars

LEMMA UpdateResendKeeps ==
    ASSUME HandshakeInv, NEW k \in Convs, UpdateResend(k) PROVE HandshakeInv'
<1>1. server[k].peer \in Clients /\ server[k].addr = server[k].peer /\ Assigned(server[k].peer, k)
  BY InUse DEF UpdateResend
<1>2. PICK a \in Clients : a = server[k].addr
  BY <1>1
<1>3. SvrConnectPacket(k, a) \in Datagram /\ PacketInv(SvrConnectPacket(k, a))
  BY <1>1, <1>2, SvrConnectPacketInv
<1>4. Packet("connect", k, a, 0) \in Datagram /\ PacketInv(Packet("connect", k, a, 0))
  BY <1>2, PortFacts DEF Packet, Datagram, PacketType, PacketInv, Listen
<1>5. PICK P : P = {IF server[k].state = "WAIT_CONNECT" THEN SvrConnectPacket(k, a)
                    ELSE Packet("connect", k, a, 0)}
  OBVIOUS
<1>6. P \subseteq Datagram /\ \A p \in P : PacketInv(p)
  BY <1>3, <1>4, <1>5
<1>7. net' \subseteq net \cup P /\ lost' \in 0 .. MaxLost /\ UNCHANGED <<client, serverVars>>
  BY <1>2, <1>5 DEF UpdateResend, Send, HandshakeInv, TypeOK
<1> QED BY <1>6, <1>7, NetStepKeeps

(* The answer finds the socket waiting, while the server listens, and comes *)
(* from a client that is connected with it.                                 *)
LEMMA OnAnswerKeeps ==
    ASSUME HandshakeInv, NEW k \in Convs, NEW p \in net, OnAnswer(k, p) PROVE HandshakeInv'
<1>0. TypeOK /\ server[k] \in ServerSocket
  BY DEF HandshakeInv, TypeOK
<1>1. /\ server[k].peer \in Clients /\ server[k].addr = server[k].peer
      /\ Assigned(server[k].peer, k)
      /\ Stage(k, server[k], m_allAwaitConnectSocket[k], m_allConnectSocket[k], m_allSession[k])
  BY InUse DEF OnAnswer
<1>2. /\ server[k].state = "WAIT_CONNECT" /\ server[k].conv = k /\ ~server[k].closing
      /\ server[k].life = "alive" /\ listener = "LISTEN"
  BY <1>1 DEF OnAnswer, Stage, Awaited, Established, Freed
<1>3. p.conv = k /\ k # 0 /\ client[server[k].peer].accepted = k
  BY PortFacts DEF OnAnswer, HandshakeInv, PacketInv, Assigned, Listen
<1>4. PICK y \in ServerSocket :
         /\ y = Answered(server[k], TRUE) /\ y.state = "CONNECT"
         /\ y.closing = server[k].closing /\ y.life = server[k].life
         /\ y.peer = server[k].peer /\ y.addr = server[k].addr
  BY <1>0, ServerSocketFields
<1>5. /\ server' = [server EXCEPT ![k] = y]
      /\ m_allConnectSocket' = [m_allConnectSocket EXCEPT ![k] = "valid"]
      /\ m_allSession' = [m_allSession EXCEPT ![k] = "online"]
      /\ m_allAwaitConnectSocket' = [m_allAwaitConnectSocket EXCEPT ![k] = "null"]
      /\ UNCHANGED <<client, m_convCount, m_recess, listener, m_serverStage, idle>>
      /\ idle = "none"
  BY <1>2, <1>3, <1>4 DEF OnAnswer, ServerStep, LoopFree
<1>6. PICK P : P = {}
  OBVIOUS
<1>7. P \subseteq Datagram /\ net' \subseteq net \cup P /\ UNCHANGED lost /\ \A q \in P : PacketInv(q)
  BY <1>6, ReceiveFacts DEF OnAnswer
<1>8. Stage(k, y, "null", "valid", "online")
  BY <1>2, <1>4, <1>5 DEF Stage, Established
<1>9. SocketStep(k, y, "null", "valid", "online", P)
  BY <1>1, <1>2, <1>3, <1>4, <1>5, <1>7, <1>8 DEF SocketStep, Live
<1> QED BY <1>9, SocketStepKeeps
LEMMA OnConnectPacketKeeps ==
    ASSUME HandshakeInv, NEW k \in Convs, NEW p \in net, NEW a \in Clients, OnConnectPacket(a, k, p)
    PROVE  HandshakeInv'
<1>0. TypeOK /\ server[k] \in ServerSocket
  BY DEF HandshakeInv, TypeOK
<1>1. /\ server[k].peer \in Clients /\ server[k].addr = server[k].peer
      /\ Assigned(server[k].peer, k)
  BY InUse DEF OnConnectPacket
<1>2. server[k].peer = a
  <2>1. p.type = "connect" /\ p.from = a /\ p.to = k /\ k # Listen
    BY PortFacts DEF OnConnectPacket, ConnectPacket, Packet
  <2> QED BY <2>1 DEF HandshakeInv, PacketInv, Assigned
<1>3. [server[k] EXCEPT !.addr = a] = server[k]
  BY <1>0, <1>1, <1>2 DEF ServerSocket
<1>4. server' = server
  BY <1>0, <1>3 DEF OnConnectPacket, ServerSocketStep, TypeOK
<1>5. PICK P : P = {SvrConnectPacket(k, a)}
  OBVIOUS
<1>6. P \subseteq Datagram /\ \A q \in P : PacketInv(q)
  BY <1>1, <1>2, <1>5, SvrConnectPacketInv
<1>7. net' \subseteq net \cup P /\ UNCHANGED lost
  BY <1>5, ReceiveFacts DEF OnConnectPacket
<1>8. UNCHANGED <<client, serverVars>> /\ lost' \in 0 .. MaxLost
  BY <1>0, <1>4, <1>7 DEF OnConnectPacket, ServerSocketStep, ServerStep, ManagerUnchanged, serverVars,
                    TypeOK
<1> QED BY <1>6, <1>7, <1>8, NetStepKeeps

(* The steps that change only a socket and its session *)
LEMMA SessionStepKeeps ==
    ASSUME HandshakeInv, NEW k \in Convs, NEW y \in ServerSocket,
           NEW w \in {"none", "online", "offline", "closed"},
           ServerSocketStep(k, y), UNCHANGED <<m_allAwaitConnectSocket, m_allConnectSocket>>,
           m_allSession' = [m_allSession EXCEPT ![k] = w],
           Assigned(server[k].peer, k), server[k].addr = server[k].peer,
           y.peer = server[k].peer, y.addr = server[k].addr,
           y.state \in {"WAIT_CONNECT", "CONNECT"} => y.state = server[k].state,
           w # "none" => m_allSession[k] # "none",
           Stage(k, y, m_allAwaitConnectSocket[k], m_allConnectSocket[k], w),
           NEW P, P \subseteq Datagram, net' \subseteq net \cup P, UNCHANGED lost,
           \A p \in P : PacketInv(p)
    PROVE  HandshakeInv'
<1>0. TypeOK
  BY DEF HandshakeInv
<1>1. PICK u \in {"none", "valid", "invalid", "null"} : u = m_allAwaitConnectSocket[k]
  BY <1>0 DEF TypeOK
<1>2. PICK v \in {"none", "valid", "invalid"} : v = m_allConnectSocket[k]
  BY <1>0 DEF TypeOK
<1>3. /\ m_allAwaitConnectSocket' = [m_allAwaitConnectSocket EXCEPT ![k] = u]
      /\ m_allConnectSocket' = [m_allConnectSocket EXCEPT ![k] = v]
  BY <1>0, <1>1, <1>2 DEF TypeOK
<1>4. /\ UNCHANGED <<client, m_convCount, m_recess, listener, m_serverStage, idle>>
      /\ server' = [server EXCEPT ![k] = y]
  BY DEF ServerSocketStep, ServerStep
<1>5. Stage(k, y, u, v, w)
  BY <1>1, <1>2
<1>6. SocketStep(k, y, u, v, w, P)
  BY <1>3, <1>4, <1>5 DEF SocketStep, Live
<1> QED BY <1>6, SocketStepKeeps

LEMMA OnServerDisconnectKeeps ==
    ASSUME HandshakeInv, NEW k \in Convs, NEW p \in net, OnServerDisconnect(k, p)
    PROVE  HandshakeInv'
<1>0. TypeOK /\ server[k] \in ServerSocket
  BY DEF HandshakeInv, TypeOK
<1>1. /\ server[k].peer \in Clients /\ server[k].addr = server[k].peer
      /\ Assigned(server[k].peer, k)
      /\ Stage(k, server[k], m_allAwaitConnectSocket[k], m_allConnectSocket[k], m_allSession[k])
  BY InUse DEF OnServerDisconnect, Disconnects
<1>2. PICK y \in ServerSocket :
         /\ y = [server[k] EXCEPT !.state = "WAIT_DISCONNECT"] /\ y.state = "WAIT_DISCONNECT"
         /\ y.closing = server[k].closing /\ y.life = server[k].life
         /\ y.peer = server[k].peer /\ y.addr = server[k].addr
  <2>1. "WAIT_DISCONNECT" \in State
    BY DEF State
  <2>2. PICK x \in ServerSocket : x = server[k]
    BY <1>0
  <2>3. /\ [x EXCEPT !.state = "WAIT_DISCONNECT"] \in ServerSocket
        /\ [x EXCEPT !.state = "WAIT_DISCONNECT"].state = "WAIT_DISCONNECT"
        /\ [x EXCEPT !.state = "WAIT_DISCONNECT"].closing = x.closing
        /\ [x EXCEPT !.state = "WAIT_DISCONNECT"].life = x.life
        /\ [x EXCEPT !.state = "WAIT_DISCONNECT"].peer = x.peer
        /\ [x EXCEPT !.state = "WAIT_DISCONNECT"].addr = x.addr
    BY <2>1, ServerSocketOps
  <2> QED BY <2>2, <2>3
<1>3. PICK w \in {"none", "online", "offline", "closed"} : w = m_allSession[k]
  BY <1>0 DEF TypeOK
<1>4. /\ ServerSocketStep(k, y) /\ UNCHANGED <<m_allAwaitConnectSocket, m_allConnectSocket>>
      /\ m_allSession' = [m_allSession EXCEPT ![k] = w]
  BY <1>0, <1>2, <1>3 DEF OnServerDisconnect, ManagerUnchanged, TypeOK
<1>5. Stage(k, y, m_allAwaitConnectSocket[k], m_allConnectSocket[k], w)
  BY <1>1, <1>2, <1>3
     DEF OnServerDisconnect, Disconnects, Stage, Awaited, Established, Freed
<1>6. PICK P : P = {}
  OBVIOUS
<1>7. P \subseteq Datagram /\ net' \subseteq net \cup P /\ UNCHANGED lost /\ \A q \in P : PacketInv(q)
  BY <1>6, ReceiveFacts DEF OnServerDisconnect
<1> QED BY <1>1, <1>2, <1>3, <1>4, <1>5, <1>7, SessionStepKeeps

(* The steps that give up a pre-connect socket: its entry becomes invalid.  *)
LEMMA AwaitEndKeeps ==
    ASSUME HandshakeInv, NEW k \in Convs, NEW y \in ServerSocket, ServerSocketStep(k, y),
           m_allAwaitConnectSocket' = [m_allAwaitConnectSocket EXCEPT ![k] = "invalid"],
           UNCHANGED <<m_allConnectSocket, m_allSession>>, Send({}),
           Assigned(server[k].peer, k), server[k].addr = server[k].peer,
           y.peer = server[k].peer, y.addr = server[k].addr,
           y.state = "DISCONNECT", ~y.closing, y.life = "alive",
           m_allConnectSocket[k] = "none", m_allSession[k] = "none"
    PROVE  HandshakeInv'
<1>0. TypeOK
  BY DEF HandshakeInv
<1>1. /\ m_allConnectSocket' = [m_allConnectSocket EXCEPT ![k] = "none"]
      /\ m_allSession' = [m_allSession EXCEPT ![k] = "none"]
  BY <1>0 DEF TypeOK
<1>2. /\ UNCHANGED <<client, m_convCount, m_recess, listener, m_serverStage, idle, lost>>
      /\ server' = [server EXCEPT ![k] = y]
  BY DEF ServerSocketStep, ServerStep, Send
<1>3. Stage(k, y, "invalid", "none", "none")
  BY DEF Stage, Awaited
<1>4. PICK P : P = {}
  OBVIOUS
<1>5. P \subseteq Datagram /\ net' \subseteq net \cup P /\ \A q \in P : PacketInv(q)
  BY <1>4 DEF Send
<1>6. SocketStep(k, y, "invalid", "none", "none", P)
  BY <1>1, <1>2, <1>3, <1>5 DEF SocketStep
<1> QED BY <1>6, SocketStepKeeps

(* The close callback, of a session or of a pre-connect socket that was     *)
(* shut down                                                                *)
LEMMA OnServerClosedKeeps ==
    ASSUME HandshakeInv, NEW k \in Convs, OnServerClosed(k) PROVE HandshakeInv'
<1>0. TypeOK /\ server[k] \in ServerSocket
  BY DEF HandshakeInv, TypeOK
<1>1. server[k].closing /\ idle = "none"
  BY DEF OnServerClosed, LoopFree
<1>2. EntryInv(k) /\ ~Unused(k)
  BY <1>1 DEF HandshakeInv, Unused, NoServer
<1>3. /\ server[k].peer \in Clients /\ server[k].addr = server[k].peer
      /\ Assigned(server[k].peer, k)
      /\ Stage(k, server[k], m_allAwaitConnectSocket[k], m_allConnectSocket[k], m_allSession[k])
  BY <1>2 DEF EntryInv, Assigned
<1>4. PICK y \in ServerSocket :
         /\ y = [server[k] EXCEPT !.closing = FALSE] /\ y.state = server[k].state
         /\ ~y.closing /\ y.life = server[k].life
         /\ y.peer = server[k].peer /\ y.addr = server[k].addr
  <2>1. PICK x \in ServerSocket : x = server[k]
    BY <1>0
  <2>2. /\ [x EXCEPT !.closing = FALSE] \in ServerSocket
        /\ [x EXCEPT !.closing = FALSE].state = x.state
        /\ ~[x EXCEPT !.closing = FALSE].closing
        /\ [x EXCEPT !.closing = FALSE].life = x.life
        /\ [x EXCEPT !.closing = FALSE].peer = x.peer
        /\ [x EXCEPT !.closing = FALSE].addr = x.addr
    BY DEF ServerSocket
  <2> QED BY <2>1, <2>2
<1>5. ServerSocketStep(k, y) /\ Send({}) /\ UNCHANGED m_allConnectSocket
  BY <1>4 DEF OnServerClosed
<1>6. CASE m_allSession[k] # "none"
  <2>1. /\ UNCHANGED <<m_allAwaitConnectSocket, m_allConnectSocket>>
        /\ m_allSession' = [m_allSession EXCEPT ![k] = "closed"]
    BY <1>6 DEF OnServerClosed
  <2>2. y.state = "DISCONNECT"
        /\ Stage(k, y, m_allAwaitConnectSocket[k], m_allConnectSocket[k], "closed")
    BY <1>1, <1>3, <1>4, <1>6 DEF Stage, Awaited, Established, Freed
  <2>3. PICK P : P = {}
    OBVIOUS
  <2>4. P \subseteq Datagram /\ net' \subseteq net \cup P /\ UNCHANGED lost
        /\ \A q \in P : PacketInv(q)
    BY <1>5, <2>3 DEF Send
  <2>5. PICK w \in {"none", "online", "offline", "closed"} : w = "closed"
    OBVIOUS
  <2> QED BY <1>3, <1>4, <1>5, <1>6, <2>1, <2>2, <2>4, <2>5, SessionStepKeeps
<1>7. CASE m_allSession[k] = "none"
  <2>1. /\ m_allAwaitConnectSocket' = [m_allAwaitConnectSocket EXCEPT ![k] = "invalid"]
        /\ UNCHANGED <<m_allConnectSocket, m_allSession>>
    BY <1>7 DEF OnServerClosed
  <2>2. y.state = "DISCONNECT" /\ y.life = "alive" /\ m_allConnectSocket[k] = "none"
    BY <1>1, <1>3, <1>4, <1>7 DEF Stage, Awaited, Established, Freed
  <2> QED BY <1>3, <1>4, <1>5, <1>7, <2>1, <2>2, AwaitEndKeeps
<1> QED BY <1>6, <1>7

LEMMA UpdateConnectTimeoutKeeps ==
    ASSUME HandshakeInv, NEW k \in Convs, UpdateConnectTimeout(k) PROVE HandshakeInv'
<1>0. TypeOK /\ server[k] \in ServerSocket
  BY DEF HandshakeInv, TypeOK
<1>1. /\ server[k].peer \in Clients /\ server[k].addr = server[k].peer
      /\ Assigned(server[k].peer, k)
      /\ Stage(k, server[k], m_allAwaitConnectSocket[k], m_allConnectSocket[k], m_allSession[k])
  BY InUse DEF UpdateConnectTimeout
<1>2. /\ server[k].life = "alive" /\ ~server[k].closing
      /\ m_allConnectSocket[k] = "none" /\ m_allSession[k] = "none"
  BY <1>1 DEF UpdateConnectTimeout, Stage, Awaited, Established, Freed
<1>3. PICK y \in ServerSocket :
         /\ y = TimedOut(server[k]) /\ y.state = "DISCONNECT" /\ ~y.closing
         /\ y.life = server[k].life /\ y.peer = server[k].peer /\ y.addr = server[k].addr
  <2>1. PICK x \in ServerSocket : x = server[k]
    BY <1>0
  <2>2. /\ Shutdown(x, FALSE) \in ServerSocket /\ Shutdown(x, FALSE).state = "DISCONNECT"
        /\ Shutdown(x, FALSE).closing <=> x.closing \/ FALSE
        /\ Shutdown(x, FALSE).life = x.life /\ Shutdown(x, FALSE).peer = x.peer
        /\ Shutdown(x, FALSE).addr = x.addr
    BY ServerSocketOps
  <2> QED BY <1>2, <2>1, <2>2 DEF TimedOut
<1>4. /\ ServerSocketStep(k, y) /\ Send({})
      /\ m_allAwaitConnectSocket' = [m_allAwaitConnectSocket EXCEPT ![k] = "invalid"]
      /\ UNCHANGED <<m_allConnectSocket, m_allSession>>
  BY <1>3 DEF UpdateConnectTimeout
<1> QED BY <1>1, <1>2, <1>3, <1>4, AwaitEndKeeps

(* doSendTimeout and the release of a socket that disconnected: only        *)
(* sockets with a session, and not before clearInvalid                      *)
LEMMA UpdateShutdownKeeps ==
    ASSUME HandshakeInv, NEW k \in Convs, UpdateShutdown(k),
           server[k].state \in {"CONNECT", "WAIT_DISCONNECT"}
    PROVE  HandshakeInv'
<1>0. TypeOK /\ server[k] \in ServerSocket
  BY DEF HandshakeInv, TypeOK
<1>1. /\ server[k].peer \in Clients /\ server[k].addr = server[k].peer
      /\ Assigned(server[k].peer, k)
      /\ Stage(k, server[k], m_allAwaitConnectSocket[k], m_allConnectSocket[k], m_allSession[k])
  BY InUse
<1>2. PICK y \in ServerSocket :
         /\ y = Shutdown(server[k], TRUE) /\ y.state = "DISCONNECT" /\ y.closing
         /\ y.life = server[k].life /\ y.peer = server[k].peer /\ y.addr = server[k].addr
  BY <1>0, ServerSocketOps
<1>3. PICK w \in {"none", "online", "offline", "closed"} : w = m_allSession[k]
  BY <1>0 DEF TypeOK
<1>4. /\ ServerSocketStep(k, y) /\ UNCHANGED <<m_allAwaitConnectSocket, m_allConnectSocket>>
      /\ m_allSession' = [m_allSession EXCEPT ![k] = w]
  BY <1>0, <1>2, <1>3 DEF UpdateShutdown, ManagerUnchanged, TypeOK
<1>5. Stage(k, y, m_allAwaitConnectSocket[k], m_allConnectSocket[k], w) /\ w # "none"
  BY <1>1, <1>2, <1>3 DEF UpdateShutdown, Updated, Stage, Awaited, Established, Freed
<1>6. PICK P : P = {}
  OBVIOUS
<1>7. P \subseteq Datagram /\ net' \subseteq net \cup P /\ UNCHANGED lost /\ \A q \in P : PacketInv(q)
  BY <1>6 DEF UpdateShutdown, Send
<1> QED BY <1>1, <1>2, <1>3, <1>4, <1>5, <1>7, SessionStepKeeps

LEMMA DisSessionKeeps ==
    ASSUME HandshakeInv, NEW k \in Convs, DisSession(k) PROVE HandshakeInv'
<1>0. TypeOK /\ server[k] \in ServerSocket
  BY DEF HandshakeInv, TypeOK
<1>1. /\ server[k].peer \in Clients /\ server[k].addr = server[k].peer
      /\ Assigned(server[k].peer, k)
      /\ Stage(k, server[k], m_allAwaitConnectSocket[k], m_allConnectSocket[k], m_allSession[k])
  BY InUse DEF DisSession, Online
<1>2. PICK y \in ServerSocket :
         /\ y = SocketDisconnect(server[k])
         /\ y.life = server[k].life /\ y.peer = server[k].peer /\ y.addr = server[k].addr
         /\ server[k].state # "WAIT_CONNECT" => y.closing = server[k].closing
         /\ server[k].state = "CONNECT" => y.state = "WAIT_DISCONNECT"
         /\ server[k].state \notin {"WAIT_CONNECT", "CONNECT"} => y.state = server[k].state
  BY <1>0, ServerSocketDisconnect
<1>3. /\ ServerSocketStep(k, y) /\ UNCHANGED <<m_allAwaitConnectSocket, m_allConnectSocket>>
      /\ m_allSession' = [m_allSession EXCEPT ![k] = "offline"] /\ m_allSession[k] = "online"
  BY <1>2 DEF DisSession, Online
<1>4. /\ Stage(k, y, m_allAwaitConnectSocket[k], m_allConnectSocket[k], "offline")
      /\ y.state \notin {"WAIT_CONNECT", "CONNECT"}
  BY <1>1, <1>2, <1>3 DEF Stage, Awaited, Established, Freed
<1>5. PICK P : P = DisconnectPackets(k, server[k])
  OBVIOUS
<1>6. P \subseteq Datagram /\ \A q \in P : PacketInv(q)
  <2>1. server[k].addr \in Clients \cup Ports /\ k \in Clients \cup Ports
        /\ ReleaseConv(server[k]).conv = 0
    BY <1>0, <1>1, PortFacts, ServerSocketOps
  <2> QED BY <1>5, <2>1, DisconnectPacketInv
<1>7. net' \subseteq net \cup P /\ UNCHANGED lost
  BY <1>5 DEF DisSession, Send
<1>8. PICK w \in {"none", "online", "offline", "closed"} : w = "offline"
  OBVIOUS
<1> QED BY <1>1, <1>2, <1>3, <1>4, <1>6, <1>7, <1>8, SessionStepKeeps

(* The session is deleted with its socket, whose close callback has come.   *)
LEMMA ReleaseSessionKeeps ==
    ASSUME HandshakeInv, NEW k \in Convs, ReleaseSession(k) PROVE HandshakeInv'
<1>0. TypeOK /\ server[k] \in ServerSocket
  BY DEF HandshakeInv, TypeOK
<1>1. /\ server[k].peer \in Clients /\ server[k].addr = server[k].peer
      /\ Assigned(server[k].peer, k)
      /\ Stage(k, server[k], m_allAwaitConnectSocket[k], m_allConnectSocket[k], m_allSession[k])
  BY InUse DEF ReleaseSession
<1>2. /\ server[k].state = "DISCONNECT" /\ ~server[k].closing
      /\ m_allAwaitConnectSocket[k] = "none" /\ idle = "operations"
  BY <1>1 DEF ReleaseSession, Stage, Awaited, Established, Freed
<1>3. PICK y \in ServerSocket :
         /\ y = Deleted(server[k]) /\ y.life = "freed" /\ y.state = server[k].state
         /\ y.closing = server[k].closing /\ y.peer = server[k].peer /\ y.addr = server[k].addr
  BY <1>0, ServerSocketFields
<1>4. /\ UNCHANGED <<client, m_convCount, m_recess, listener, m_serverStage, idle, lost>>
      /\ server' = [server EXCEPT ![k] = y]
      /\ m_allAwaitConnectSocket' = [m_allAwaitConnectSocket EXCEPT ![k] = "none"]
      /\ m_allConnectSocket' = [m_allConnectSocket EXCEPT ![k] = "invalid"]
      /\ m_allSession' = [m_allSession EXCEPT ![k] = "none"]
  BY <1>0, <1>2, <1>3
     DEF ReleaseSession, ServerSocketStep, ServerStep, Send, Removed, TypeOK
<1>5. Stage(k, y, "none", "invalid", "none")
  BY <1>2, <1>3 DEF Stage, Freed
<1>6. PICK P : P = {}
  OBVIOUS
<1>7. P \subseteq Datagram /\ net' \subseteq net \cup P /\ \A q \in P : PacketInv(q)
  BY <1>6 DEF ReleaseSession, Send
<1>8. SocketStep(k, y, "none", "invalid", "none", P)
  BY <1>1, <1>2, <1>3, <1>4, <1>5, <1>7 DEF SocketStep
<1> QED BY <1>8, SocketStepKeeps
-----------------------------------------------------------------------------
(* Steps over all sockets of the server                                    *)

(* A step in which every conv stays in use, or unused, and in a stage *)
LEMMA BatchKeeps ==
    ASSUME HandshakeInv, TypeOK', UNCHANGED <<client, m_convCount>>,
           \A k \in Convs :
              /\ Unused(k) => Unused(k)'
              /\ server'[k].peer = server[k].peer /\ server'[k].addr = server[k].addr
              /\ Stage(k, server[k], m_allAwaitConnectSocket[k], m_allConnectSocket[k],
                       m_allSession[k])
                 => Stage(k, server[k], m_allAwaitConnectSocket[k], m_allConnectSocket[k],
                          m_allSession[k])'
              /\ server'[k].state \in {"WAIT_CONNECT", "CONNECT"} =>
                    server'[k].state = server[k].state
              /\ m_allSession'[k] # "none" => m_allSession[k] # "none",
           NEW P, P \subseteq Datagram, net' \subseteq net \cup P, \A p \in P : PacketInv(p)
    PROVE  HandshakeInv'
<1>0. TypeOK
  BY DEF HandshakeInv
<1>1. Remembers
  <2>1. m_convCount \in Nat
    BY <1>0, PortFacts DEF TypeOK
  <2> QED BY <2>1 DEF Remembers
<1>2. \A p \in P : PacketInv(p)'
  BY <1>0, <1>1, PacketKeeps
<1>3. ASSUME NEW k \in Convs PROVE EntryInv(k)'
  <2>1. EntryInv(k)
    BY DEF HandshakeInv
  <2>2. ASSUME NEW a \in Clients, Assigned(a, k), server[k].addr = a
        PROVE  Assigned(a, k)' /\ server'[k].addr = a
    BY <2>2, <1>0, <1>1, AssignedKeeps
  <2> QED BY <2>1, <2>2 DEF EntryInv
<1>4. \A k \in Convs :
         /\ server'[k].state = "WAIT_CONNECT" => server[k].state = "WAIT_CONNECT"
         /\ Live(k)' => Live(k)
  BY DEF Live
<1> QED BY <1>2, <1>3, <1>4, ServerStepKeeps

(* A step of the idle callback that touches no socket *)
LEMMA StageStepKeeps ==
    ASSUME HandshakeInv,
           UNCHANGED <<client, server, m_allAwaitConnectSocket, m_allConnectSocket, m_allSession,
                       m_convCount, m_recess>>,
           Send({}), TypeOK',
           UNCHANGED listener \/ listener # "LISTEN",
           UNCHANGED idle \/ (idle # "none" /\ idle' # "update")
    PROVE  HandshakeInv'
<1>1. PICK P : P = {}
  OBVIOUS
<1>2. P \subseteq Datagram /\ net' \subseteq net \cup P /\ \A q \in P : PacketInv(q)
  BY <1>1 DEF Send
<1>3. \A k \in Convs : Unused(k) => Unused(k)'
  BY DEF Unused
<1>4. ASSUME NEW k \in Convs,
             Stage(k, server[k], m_allAwaitConnectSocket[k], m_allConnectSocket[k], m_allSession[k])
      PROVE  Stage(k, server[k], m_allAwaitConnectSocket[k], m_allConnectSocket[k],
                   m_allSession[k])'
  BY <1>4 DEF Stage, Awaited, Established, Freed
<1> QED BY <1>2, <1>3, <1>4, BatchKeeps

LEMMA StageStepsKeep ==
    ASSUME HandshakeInv,
           OnListenerClosed \/ UpdateListener \/ UpdateEnd \/ IdleRun \/ IdleWaitSessionClose
    PROVE  HandshakeInv'
<1>0. TypeOK
  BY DEF HandshakeInv
<1>1. CASE OnListenerClosed
  <2>1. /\ UNCHANGED <<client, server, m_allAwaitConnectSocket, m_allConnectSocket, m_allSession,
                       m_convCount, m_recess, idle>>
        /\ Send({}) /\ listener # "LISTEN"
        /\ listener' = "closed" /\ m_serverStage' = "CLEAR"
    BY <1>1 DEF OnListenerClosed, ManagerUnchanged
  <2>2. net' \subseteq Datagram /\ UNCHANGED lost
    BY <1>0, <2>1 DEF TypeOK, Send
  <2>3. TypeOK'
    BY <1>0, <2>1, <2>2 DEF TypeOK
  <2> QED BY <2>1, <2>3, StageStepKeeps
<1>2. CASE UpdateListener
  <2>1. /\ UNCHANGED <<client, server, m_allAwaitConnectSocket, m_allConnectSocket, m_allSession,
                       m_convCount, m_recess, m_serverStage, idle>>
        /\ Send({}) /\ listener # "LISTEN" /\ listener' = "closing"
    BY <1>2 DEF UpdateListener, ManagerUnchanged, ServerStep
  <2>2. net' \subseteq Datagram /\ UNCHANGED lost
    BY <1>0, <2>1 DEF TypeOK, Send
  <2>3. TypeOK'
    BY <1>0, <2>1, <2>2 DEF TypeOK
  <2> QED BY <2>1, <2>3, StageStepKeeps
<1>3. CASE UpdateEnd
  BY <1>0, <1>3, StageStepKeeps DEF UpdateEnd, ManagerUnchanged, ServerStep, TypeOK, Send
<1>4. CASE IdleRun
  BY <1>0, <1>4, StageStepKeeps DEF IdleRun, IdleEnd, TypeOK, Send
<1>5. CASE IdleWaitSessionClose
  BY <1>0, <1>5, StageStepKeeps DEF IdleWaitSessionClose, IdleEnd, TypeOK, Send
<1> QED BY <1>1, <1>2, <1>3, <1>4, <1>5

(* Invalid entries go, and the pre-connect sockets of theirs with them.     *)
LEMMA ClearInvalidKeeps == ASSUME HandshakeInv, ClearInvalid PROVE HandshakeInv'
<1>0. TypeOK
  BY DEF HandshakeInv
<1>1. /\ UNCHANGED <<client, m_allSession, m_convCount, m_recess, listener, m_serverStage, lost>>
      /\ idle' = "update" /\ net' = net
  BY DEF ClearInvalid, ServerStep, Send
<1>2. ASSUME NEW k \in Convs
      PROVE  /\ server'[k] = IF m_allAwaitConnectSocket[k] = "invalid"
                             THEN Deleted(server[k]) ELSE server[k]
             /\ m_allAwaitConnectSocket'[k] = Cleared(m_allAwaitConnectSocket[k])
             /\ m_allConnectSocket'[k] = Cleared(m_allConnectSocket[k])
  BY DEF ClearInvalid
<1>3. ASSUME NEW k \in Convs
      PROVE  /\ server'[k] \in ServerSocket /\ server'[k].state = server[k].state
             /\ server'[k].closing = server[k].closing /\ server'[k].conv = server[k].conv
             /\ server'[k].peer = server[k].peer /\ server'[k].addr = server[k].addr
             /\ m_allAwaitConnectSocket[k] = "invalid" => server'[k].life = "freed"
             /\ m_allAwaitConnectSocket[k] # "invalid" => server'[k] = server[k]
  <2>1. PICK x \in ServerSocket : x = server[k]
    BY <1>0 DEF TypeOK
  <2>2. CASE m_allAwaitConnectSocket[k] = "invalid"
    <3>1. server'[k] = Deleted(x)
      BY <1>2, <2>1, <2>2
    <3>2. /\ Deleted(x) \in ServerSocket /\ Deleted(x).life = "freed"
          /\ Deleted(x).state = x.state /\ Deleted(x).closing = x.closing
          /\ Deleted(x).peer = x.peer /\ Deleted(x).addr = x.addr /\ Deleted(x).conv = x.conv
      BY ServerSocketFields
    <3> QED BY <2>1, <2>2, <3>1, <3>2
  <2>3. CASE m_allAwaitConnectSocket[k] # "invalid"
    BY <1>2, <2>1, <2>3
  <2> QED BY <2>2, <2>3
<1>4. TypeOK'
  <2>1. server' \in [Convs -> ServerSocket]
    <3>1. server' = [k \in Convs |-> server'[k]]
      BY DEF ClearInvalid
    <3> QED BY <1>3, <3>1
  <2>2. /\ m_allAwaitConnectSocket' \in [Convs -> {"none", "valid", "invalid", "null"}]
        /\ m_allConnectSocket' \in [Convs -> {"none", "valid", "invalid"}]
    BY DEF ClearInvalid, Cleared
  <2> QED BY <1>0, <1>1, <2>1, <2>2 DEF TypeOK
<1>5. ASSUME NEW k \in Convs, Unused(k) PROVE Unused(k)'
  BY <1>1, <1>2, <1>3, <1>5 DEF Unused, Cleared
<1>6. ASSUME NEW k \in Convs,
             Stage(k, server[k], m_allAwaitConnectSocket[k], m_allConnectSocket[k], m_allSession[k])
      PROVE  Stage(k, server[k], m_allAwaitConnectSocket[k], m_allConnectSocket[k],
                   m_allSession[k])'
  BY <1>1, <1>2, <1>3, <1>6 DEF Stage, Awaited, Established, Freed, Cleared
<1>7. PICK P : P = {}
  OBVIOUS
<1>8. P \subseteq Datagram /\ net' \subseteq net \cup P /\ \A q \in P : PacketInv(q)
  BY <1>1, <1>7
<1> QED BY <1>1, <1>3, <1>4, <1>5, <1>6, <1>8, BatchKeeps

(* disconnect, of the sockets of a set R of convs: what StopServer and      *)
(* IdleClear do                                                             *)
LEMMA DisconnectBatchKeeps ==
    ASSUME HandshakeInv, NEW R \in SUBSET Convs,
           server' = [k \in Convs |-> IF k \in R THEN SocketDisconnect(server[k]) ELSE server[k]],
           DisconnectAll, \A k \in Convs : Online(k) => k \in R, \A k \in R : ~Unused(k),
           net' = net \cup UNION {DisconnectPackets(k, server[k]) : k \in R},
           UNCHANGED <<client, m_allAwaitConnectSocket, m_allConnectSocket, m_convCount, m_recess,
                       lost>>,
           m_serverStage' \in {"RUN", "WAIT_CLOSE_SERVER_SOCKET", "CLEAR", "WAIT_SESSION_CLOSE"},
           \/ UNCHANGED listener
           \/ /\ listener' = "WAIT_DISCONNECT"
              /\ \A k \in Convs : m_allAwaitConnectSocket[k] # "none" => k \in R,
           UNCHANGED idle \/ idle' # "update", idle = "operations", idle' \in {"none", "operations"}
    PROVE  HandshakeInv'
<1>0. TypeOK
  BY DEF HandshakeInv
<1>1. ASSUME NEW k \in Convs
      PROVE  /\ server'[k] \in ServerSocket /\ server'[k].life = server[k].life
             /\ server'[k].peer = server[k].peer /\ server'[k].addr = server[k].addr
             /\ k \notin R => server'[k] = server[k]
             /\ k \in R =>
                  /\ server[k].state = "WAIT_CONNECT" =>
                       server'[k].state = "DISCONNECT" /\ server'[k].closing
                  /\ server[k].state # "WAIT_CONNECT" => server'[k].closing = server[k].closing
                  /\ server[k].state = "CONNECT" => server'[k].state = "WAIT_DISCONNECT"
                  /\ server[k].state \notin {"WAIT_CONNECT", "CONNECT"} =>
                       server'[k].state = server[k].state
  <2>1. server[k] \in ServerSocket
    BY <1>0 DEF TypeOK
  <2> QED BY <2>1, ServerSocketDisconnect
<1>2. \A k \in Convs :
         /\ m_allSession[k] = "online" => m_allSession'[k] = "offline" /\ k \in R
         /\ m_allSession[k] # "online" => m_allSession'[k] = m_allSession[k]
  BY DEF DisconnectAll, Online
<1>3. TypeOK'
  <2>1. server' \in [Convs -> ServerSocket]
    <3>1. server' = [k \in Convs |-> server'[k]]
      OBVIOUS
    <3> QED BY <1>1, <3>1
  <2>2. m_allSession' \in [Convs -> {"none", "online", "offline", "closed"}]
    BY <1>0 DEF TypeOK, DisconnectAll
  <2>3. net' \subseteq Datagram
    <3>1. ASSUME NEW k \in R PROVE DisconnectPackets(k, server[k]) \subseteq Datagram
      <4>1. server[k] \in ServerSocket
        BY <1>0 DEF TypeOK
      <4>2. server[k].addr \in Clients \cup Ports /\ ReleaseConv(server[k]).conv = 0
            /\ k \in Clients \cup Ports
        BY <4>1, PortFacts, ServerSocketOps
      <4> QED BY <4>2, DisconnectPacketInv
    <3> QED BY <1>0, <3>1 DEF TypeOK
  <2> QED BY <1>0, <2>1, <2>2, <2>3 DEF TypeOK
<1>4. ASSUME NEW k \in Convs, Unused(k) PROVE Unused(k)'
  BY <1>1, <1>2, <1>4 DEF Unused
<1>5. ASSUME NEW k \in Convs,
             Stage(k, server[k], m_allAwaitConnectSocket[k], m_allConnectSocket[k], m_allSession[k])
      PROVE  Stage(k, server[k], m_allAwaitConnectSocket[k], m_allConnectSocket[k],
                   m_allSession[k])'
  <2>1. CASE k \notin R
    BY <1>1, <1>2, <1>5, <2>1 DEF Stage, Awaited, Established, Freed
  <2>2. CASE k \in R
    BY <1>1, <1>2, <1>5, <2>2 DEF Stage, Awaited, Established, Freed
  <2> QED BY <2>1, <2>2
<1>6. \A k \in Convs : server'[k].state \in {"WAIT_CONNECT", "CONNECT"} =>
                          server'[k].state = server[k].state
  <2>1. ASSUME NEW k \in Convs PROVE server[k].state \in State
    BY <1>0 DEF TypeOK, ServerSocket
  <2> QED BY <1>1, <2>1 DEF State
<1>7. PICK P : P = UNION {DisconnectPackets(k, server[k]) : k \in R}
  OBVIOUS
<1>8. ASSUME NEW q \in P PROVE q \in Datagram /\ PacketInv(q)
  <2>1. PICK k \in R : q \in DisconnectPackets(k, server[k])
    BY <1>7
  <2>2. server[k] \in ServerSocket
    BY <1>0 DEF TypeOK
  <2>3. server[k].addr \in Clients \cup Ports /\ ReleaseConv(server[k]).conv = 0
        /\ k \in Clients \cup Ports
    BY <2>2, PortFacts, ServerSocketOps
  <2> QED BY <2>1, <2>3, DisconnectPacketInv
<1>9. P \subseteq Datagram /\ net' \subseteq net \cup P /\ \A q \in P : PacketInv(q)
  BY <1>7, <1>8
<1> QED BY <1>1, <1>2, <1>3, <1>4, <1>5, <1>6, <1>9, BatchKeeps

LEMMA StopServerKeeps == ASSUME HandshakeInv, StopServer PROVE HandshakeInv'
<1> DEFINE R == {k \in Convs : Online(k) \/ m_allConnectSocket[k] # "none"
                                          \/ m_allAwaitConnectSocket[k] # "none"}
<1>1. R \in SUBSET Convs /\ \A k \in R : ~Unused(k)
  BY DEF Unused, Online
<1>2. \A k \in Convs : (Online(k) => k \in R) /\ (m_allAwaitConnectSocket[k] # "none" => k \in R)
  OBVIOUS
<1>3. /\ server' = [k \in Convs |-> IF k \in R THEN SocketDisconnect(server[k]) ELSE server[k]]
      /\ net' = net \cup UNION {DisconnectPackets(k, server[k]) : k \in R}
      /\ UNCHANGED lost
  BY DEF StopServer, Send
<1>4. /\ DisconnectAll /\ listener' = "WAIT_DISCONNECT"
      /\ UNCHANGED <<client, m_allAwaitConnectSocket, m_allConnectSocket, m_convCount, m_recess,
                     idle>>
      /\ m_serverStage' = "WAIT_CLOSE_SERVER_SOCKET" /\ idle = "operations"
  BY DEF StopServer
<1> HIDE DEF R
<1> QED BY <1>1, <1>2, <1>3, <1>4, DisconnectBatchKeeps

LEMMA IdleClearKeeps == ASSUME HandshakeInv, IdleClear PROVE HandshakeInv'
<1> DEFINE R == {k \in Convs : Online(k)}
<1>1. /\ R \in SUBSET Convs /\ \A k \in Convs : Online(k) => k \in R
      /\ \A k \in R : ~Unused(k)
  BY DEF Unused, Online
<1>2. /\ server' = [k \in Convs |-> IF k \in R THEN SocketDisconnect(server[k]) ELSE server[k]]
      /\ net' = net \cup UNION {DisconnectPackets(k, server[k]) : k \in R}
      /\ UNCHANGED lost
  BY DEF IdleClear, Send
<1>3. /\ DisconnectAll
      /\ UNCHANGED <<client, m_allAwaitConnectSocket, m_allConnectSocket, m_convCount, m_recess,
                     listener>>
      /\ m_serverStage' = "WAIT_SESSION_CLOSE" /\ idle = "operations" /\ idle' = "none"
  BY DEF IdleClear, IdleEnd
<1> HIDE DEF R
<1> QED BY <1>1, <1>2, <1>3, DisconnectBatchKeeps
-----------------------------------------------------------------------------
(* A request at the listening socket                                       *)

(* What the end of a recess does to a socket: one that waits is shut down.  *)
LEMMA AfterRecessFacts ==
    ASSUME HandshakeInv, listener = "LISTEN", idle = "none", NEW k \in Convs, NEW r \in BOOLEAN
    PROVE  /\ AfterRecess(k, r) \in ServerSocket
           /\ AfterRecess(k, r).peer = server[k].peer /\ AfterRecess(k, r).addr = server[k].addr
           /\ Unused(k) => AfterRecess(k, r) = server[k]
           /\ AfterRecess(k, r).state \in {"WAIT_CONNECT", "CONNECT"} =>
                 AfterRecess(k, r).state = server[k].state
           /\ Awaiting(k) /\ r => AfterRecess(k, r).state # "WAIT_CONNECT"
           /\ Stage(k, server[k], m_allAwaitConnectSocket[k], m_allConnectSocket[k],
                    m_allSession[k])
              => Stage(k, AfterRecess(k, r), m_allAwaitConnectSocket[k], m_allConnectSocket[k],
                       m_allSession[k])
<1>1. PICK x \in ServerSocket : x = server[k]
  BY DEF HandshakeInv, TypeOK
<1>2. CASE r /\ Awaiting(k)
  <2>1. PICK y \in ServerSocket :
           /\ y = SocketDisconnect(x)
           /\ y.life = x.life /\ y.peer = x.peer /\ y.addr = x.addr
           /\ x.state = "WAIT_CONNECT" => y.state = "DISCONNECT" /\ y.closing
           /\ x.state # "WAIT_CONNECT" => y.closing = x.closing
           /\ x.state = "CONNECT" => y.state = "WAIT_DISCONNECT"
           /\ x.state \notin {"WAIT_CONNECT", "CONNECT"} => y.state = x.state
    BY ServerSocketDisconnect
  <2>2. AfterRecess(k, r) = y
    BY <1>1, <1>2, <2>1 DEF AfterRecess
  <2>3. ~Unused(k)
    BY <1>2 DEF Unused, Awaiting
  <2>4. y.state # "WAIT_CONNECT" /\ (y.state = "CONNECT" => y.state = x.state)
    BY <2>1
  <2>5. Stage(k, x, m_allAwaitConnectSocket[k], m_allConnectSocket[k], m_allSession[k])
        => Stage(k, y, m_allAwaitConnectSocket[k], m_allConnectSocket[k], m_allSession[k])
    BY <1>2, <2>1 DEF Awaiting, Stage, Awaited, Established, Freed
  <2> QED BY <1>1, <2>1, <2>2, <2>3, <2>4, <2>5
<1>3. CASE ~(r /\ Awaiting(k))
  <2>1. AfterRecess(k, r) = x
    BY <1>1, <1>3 DEF AfterRecess
  <2> QED BY <1>1, <1>3, <2>1
<1> QED BY <1>2, <1>3

(* The request is turned down, or the recess begins or ends.                *)
LEMMA RefuseKeeps ==
    ASSUME HandshakeInv, NEW r \in BOOLEAN, listener = "LISTEN", idle = "none",
           server' = [j \in Convs |-> AfterRecess(j, r)], m_recess' \in BOOLEAN,
           UNCHANGED <<client, m_allAwaitConnectSocket, m_allConnectSocket, m_allSession,
                       m_convCount, listener, m_serverStage, idle, lost>>,
           net' \subseteq net
    PROVE  HandshakeInv'
<1>0. TypeOK
  BY DEF HandshakeInv
<1>1. server' \in [Convs -> ServerSocket] /\ \A j \in Convs : server'[j] = AfterRecess(j, r)
  BY AfterRecessFacts
<1>2. TypeOK'
  BY <1>0, <1>1 DEF TypeOK
<1>3. ASSUME NEW k \in Convs, Unused(k) PROVE Unused(k)'
  BY <1>1, <1>3, AfterRecessFacts DEF Unused
<1>4. ASSUME NEW k \in Convs,
             Stage(k, server[k], m_allAwaitConnectSocket[k], m_allConnectSocket[k], m_allSession[k])
      PROVE  Stage(k, server[k], m_allAwaitConnectSocket[k], m_allConnectSocket[k],
                   m_allSession[k])'
  <2>1. Stage(k, AfterRecess(k, r), m_allAwaitConnectSocket[k], m_allConnectSocket[k],
              m_allSession[k])
    BY <1>4, AfterRecessFacts
  <2> QED BY <1>1, <2>1 DEF Stage, Awaited, Established, Freed
<1>5. PICK P : P = {}
  OBVIOUS
<1>6. P \subseteq Datagram /\ net' \subseteq net \cup P /\ \A q \in P : PacketInv(q)
  BY <1>5
<1>7. \A k \in Convs :
         /\ server'[k].peer = server[k].peer /\ server'[k].addr = server[k].addr
         /\ server'[k].state \in {"WAIT_CONNECT", "CONNECT"} =>
               server'[k].state = server[k].state
  BY <1>1, AfterRecessFacts
<1> QED BY <1>2, <1>3, <1>4, <1>6, <1>7, BatchKeeps

(* The request is accepted: the next conv is the client's.                  *)
LEMMA AcceptKeeps ==
    ASSUME HandshakeInv, NEW r \in BOOLEAN, NEW a \in Clients, NEW k \in Convs,
           k = m_convCount + 1, Accept(a, r), listener = "LISTEN", idle = "none",
           server' = [j \in Convs |-> IF j = k THEN NewServer(a, k) ELSE AfterRecess(j, r)],
           m_allAwaitConnectSocket' =
              [j \in Convs |-> IF j = k THEN "valid" ELSE m_allAwaitConnectSocket[j]],
           m_recess' \in BOOLEAN, m_convCount' = k,
           UNCHANGED <<client, m_allConnectSocket, m_allSession, listener, m_serverStage, idle,
                       lost>>,
           net' \subseteq net \cup {SvrConnectPacket(k, a), Packet("send_back_conv", Listen, a, k)}
    PROVE  HandshakeInv'
<1>0. TypeOK /\ m_convCount \in Nat /\ k \in Nat /\ \A j \in Convs : j \in Nat
  BY PortFacts DEF HandshakeInv, TypeOK
<1>1. Unused(k)
  <2>1. ~(k <= m_convCount)
    BY <1>0
  <2> QED BY <2>1 DEF HandshakeInv, EntryInv, Assigned
<1>2. PICK y \in ServerSocket :
         /\ y = NewServer(a, k) /\ y.life = "alive" /\ y.state = "WAIT_CONNECT" /\ y.conv = k
         /\ y.addr = a /\ y.peer = a /\ ~y.closing
  <2>1. /\ NewServer(a, k) \in ServerSocket /\ NewServer(a, k).life = "alive"
        /\ NewServer(a, k).state = "WAIT_CONNECT" /\ NewServer(a, k).conv = k
        /\ NewServer(a, k).addr = a /\ NewServer(a, k).peer = a /\ ~NewServer(a, k).closing
    BY PortFacts DEF NewServer, ServerSocket, State
  <2> QED BY <2>1
<1>3. /\ server'[k] = y
      /\ \A j \in Convs \ {k} :
           /\ server'[j] \in ServerSocket
           /\ server'[j].peer = server[j].peer /\ server'[j].addr = server[j].addr
           /\ Unused(j) => server'[j] = server[j]
           /\ server'[j].state \in {"WAIT_CONNECT", "CONNECT"} =>
                 server'[j].state = server[j].state
           /\ Awaiting(j) /\ r => server'[j].state # "WAIT_CONNECT"
           /\ Stage(j, server[j], m_allAwaitConnectSocket[j], m_allConnectSocket[j],
                    m_allSession[j])
              => Stage(j, server'[j], m_allAwaitConnectSocket[j], m_allConnectSocket[j],
                       m_allSession[j])
  <2>1. server'[k] = y /\ \A j \in Convs \ {k} : server'[j] = AfterRecess(j, r)
    BY <1>2
  <2> QED BY <2>1, AfterRecessFacts
<1>4. /\ m_allAwaitConnectSocket'[k] = "valid"
      /\ \A j \in Convs \ {k} : m_allAwaitConnectSocket'[j] = m_allAwaitConnectSocket[j]
  OBVIOUS
<1>5. SvrConnectPacket(k, a) \in Datagram /\ Packet("send_back_conv", Listen, a, k) \in Datagram
  BY PortFacts DEF SvrConnectPacket, Packet, Datagram, PacketType
<1>6. TypeOK'
  <2>1. server' \in [Convs -> ServerSocket]
    <3>1. server' = [j \in Convs |-> server'[j]]
      OBVIOUS
    <3> QED BY <1>3, <3>1
  <2>2. m_allAwaitConnectSocket' \in [Convs -> {"none", "valid", "invalid", "null"}]
    BY <1>0 DEF TypeOK
  <2>3. net' \subseteq Datagram /\ m_convCount' \in Ports
    BY <1>0, <1>5, PortFacts DEF TypeOK
  <2> QED BY <1>0, <2>1, <2>2, <2>3 DEF TypeOK
<1>7. Remembers
  BY <1>0, <1>3 DEF Remembers
<1>8. Assigned(a, k)'
  BY <1>0, <1>2, <1>3 DEF Assigned
<1>9. \A p \in net' : PacketInv(p)'
  <2>1. PICK P : P = {SvrConnectPacket(k, a), Packet("send_back_conv", Listen, a, k)}
    OBVIOUS
  <2>2. PacketInv(SvrConnectPacket(k, a))' /\ PacketInv(Packet("send_back_conv", Listen, a, k))'
    BY <1>8 DEF PacketInv, SvrConnectPacket, Packet
  <2>3. net' \subseteq net \cup P /\ \A p \in P : PacketInv(p)'
    BY <2>1, <2>2
  <2> QED BY <1>6, <1>7, <2>3, NetKeeps
<1>10. ASSUME NEW j \in Convs PROVE EntryInv(j)'
  <2>1. CASE j = k
    <3>1. Stage(k, y, "valid", m_allConnectSocket[k], m_allSession[k])
      BY <1>1, <1>2 DEF Stage, Awaited, Unused
    <3>2. Stage(k, server[k], m_allAwaitConnectSocket[k], m_allConnectSocket[k],
                m_allSession[k])'
      BY <1>3, <1>4, <3>1 DEF Stage, Awaited, Established, Freed
    <3> QED BY <1>2, <1>3, <1>8, <2>1, <3>2 DEF EntryInv
  <2>2. CASE j # k
    <3>1. EntryInv(j)
      BY DEF HandshakeInv
    <3>2. CASE Unused(j)
      <4>1. ~(j <= m_convCount) /\ j > k
        BY <1>0, <2>2, <3>2 DEF Unused
      <4> QED BY <1>3, <1>4, <2>2, <3>2, <4>1 DEF EntryInv, Unused
    <3>3. ASSUME NEW b \in Clients, Assigned(b, j), server[j].addr = b,
                 Stage(j, server[j], m_allAwaitConnectSocket[j], m_allConnectSocket[j],
                       m_allSession[j])
          PROVE  EntryInv(j)'
      <4>1. Assigned(b, j)' /\ server'[j].addr = b
        BY <1>0, <1>3, <1>6, <1>7, <2>2, <3>3, AssignedKeeps
      <4>2. Stage(j, server'[j], m_allAwaitConnectSocket[j], m_allConnectSocket[j],
                  m_allSession[j])
        BY <1>3, <2>2, <3>3
      <4>3. Stage(j, server[j], m_allAwaitConnectSocket[j], m_allConnectSocket[j],
                  m_allSession[j])'
        BY <1>4, <2>2, <4>2 DEF Stage, Awaited, Established, Freed
      <4> QED BY <4>1, <4>3 DEF EntryInv
    <3> QED BY <3>1, <3>2, <3>3 DEF EntryInv
  <2> QED BY <2>1, <2>2
<1>11. \A b \in Clients : ClientInv(b)'
  BY <1>0, <1>6, <1>7, AssignedKeeps DEF ClientInv, HandshakeInv
<1>12. Agreement'
  <2>1. ASSUME NEW j \in Convs, m_allSession[j] # "none"
        PROVE  j # k /\ server[j].peer \in Clients /\ client[server[j].peer].accepted = j
    BY <1>1, <2>1 DEF HandshakeInv, Agreement, Unused
  <2> QED BY <1>3, <2>1 DEF Agreement
<1>13. ASSUME NEW j \in Convs \ {k}, server'[j].state \in {"WAIT_CONNECT", "CONNECT"}
       PROVE  server'[j].peer # a
  <2>1. /\ server[j].state = server'[j].state /\ server'[j].peer = server[j].peer
        /\ Awaiting(j) /\ r => server'[j].state # "WAIT_CONNECT"
    BY <1>3, <1>13
  <2>2. Stage(j, server[j], m_allAwaitConnectSocket[j], m_allConnectSocket[j], m_allSession[j])
    BY <1>13, <2>1, InUse
  <2>3. CASE server[j].state = "CONNECT"
    <3>1. Connected(j)
      BY <2>2, <2>3 DEF Stage, Awaited, Established, Freed, Connected
    <3> QED BY <2>1, <3>1 DEF Accept, ConnectedAddr
  <2>4. CASE server[j].state = "WAIT_CONNECT"
    <3>1. Awaiting(j)
      BY <2>2, <2>4 DEF Stage, Awaited, Established, Freed, Awaiting
    <3> QED BY <2>1, <2>4, <3>1 DEF Accept, AwaitingAddr
  <2> QED BY <1>13, <2>1, <2>3, <2>4
<1>14. OneSocketPerAddress'
  <2>1. ASSUME NEW i \in Convs, NEW j \in Convs,
               server'[i].state \in {"WAIT_CONNECT", "CONNECT"},
               server'[j].state \in {"WAIT_CONNECT", "CONNECT"},
               server'[i].peer = server'[j].peer
        PROVE  i = j
    <3>1. CASE i = k
      BY <1>2, <1>3, <1>13, <2>1, <3>1
    <3>2. CASE j = k
      BY <1>2, <1>3, <1>13, <2>1, <3>2
    <3>3. CASE i # k /\ j # k
      BY <1>3, <2>1, <3>3 DEF HandshakeInv, OneSocketPerAddress
    <3> QED BY <3>1, <3>2, <3>3
  <2> QED BY <2>1 DEF OneSocketPerAddress
<1>15. AwaitBounded'
  <2> DEFINE W == {j \in Convs : server'[j].state = "WAIT_CONNECT"}
             V == {j \in Convs : Awaiting(j)}
  <2>1. IsFiniteSet(V) /\ IsFiniteSet(W)
    BY ConvsFinite, FS_Subset
  <2>2. ASSUME NEW j \in W \ {k} PROVE Awaiting(j) /\ ~r
    <3>1. /\ server[j].state = "WAIT_CONNECT" /\ j \in Convs
          /\ Awaiting(j) /\ r => server'[j].state # "WAIT_CONNECT"
      BY <1>3, <2>2
    <3>2. Stage(j, server[j], m_allAwaitConnectSocket[j], m_allConnectSocket[j], m_allSession[j])
      BY <3>1, InUse
    <3> QED BY <2>2, <3>1, <3>2 DEF Stage, Awaited, Established, Freed, Awaiting
  <2>3. Cardinality(W) <= AwaitLimit + 1
    <3>1. CASE r
      <4>1. W \subseteq {k}
        BY <2>2, <3>1
      <4>2. Cardinality(W) <= 1 /\ Cardinality(W) \in Nat
        <5> HIDE DEF W
        <5>1. IsFiniteSet({k}) /\ Cardinality({k}) = 1
          BY FS_Singleton
        <5>2. Cardinality(W) <= Cardinality({k})
          BY <4>1, <5>1, FS_Subset
        <5>3. Cardinality(W) \in Nat
          BY <2>1, FS_CardinalityType
        <5> QED BY <5>1, <5>2, <5>3
      <4> HIDE DEF W
      <4> QED BY <4>2, BoundsAssumption
    <3>2. CASE ~r
      <4>1. ~(Cardinality(V) > AwaitLimit)
        BY <3>2 DEF Accept, TooMany
      <4>2. W \subseteq V \cup {k}
        BY <2>2
      <4>3. k \notin V
        BY <1>1 DEF Unused, Awaiting
      <4> HIDE DEF V, W
      <4>4. IsFiniteSet(V \cup {k}) /\ Cardinality(V \cup {k}) = Cardinality(V) + 1
        BY <2>1, <4>3, FS_AddElement
      <4>5. Cardinality(W) <= Cardinality(V) + 1 /\ Cardinality(W) \in Nat /\ Cardinality(V) \in Nat
        BY <2>1, <4>2, <4>4, FS_Subset, FS_CardinalityType
      <4> QED BY <4>1, <4>5, BoundsAssumption
    <3> QED BY <3>1, <3>2
  <2> QED BY <2>3 DEF AwaitBounded
<1> QED BY <1>6, <1>9, <1>10, <1>11, <1>12, <1>14, <1>15 DEF HandshakeInv

LEMMA OnConnectRequestKeeps ==
    ASSUME HandshakeInv, NEW a \in Clients, NEW p \in net, NEW r \in BOOLEAN,
           OnConnectRequest(a, p, r)
    PROVE  HandshakeInv'
<1> DEFINE accepted == Accept(a, r) /\ (m_recess => r)
           k == m_convCount + 1
<1>0. TypeOK
  BY DEF HandshakeInv
<1>1. /\ listener = "LISTEN" /\ idle = "none" /\ m_recess' \in BOOLEAN
      /\ UNCHANGED <<client, m_allConnectSocket, m_allSession, listener, m_serverStage, idle>>
  BY <1>0 DEF OnConnectRequest, LoopFree, ServerStep, TypeOK
<1>2. UNCHANGED lost
      /\ net' \subseteq net \cup
                 (IF accepted
                  THEN {SvrConnectPacket(k, a), Packet("send_back_conv", Listen, a, k)} ELSE {})
  BY DEF OnConnectRequest, Receive
<1>3. /\ accepted => k \in Convs
      /\ m_convCount' = IF accepted THEN k ELSE m_convCount
      /\ server' = [j \in Convs |-> IF accepted /\ j = k THEN NewServer(a, k)
                                    ELSE AfterRecess(j, r)]
      /\ m_allAwaitConnectSocket' =
            [j \in Convs |-> IF accepted /\ j = k THEN "valid" ELSE m_allAwaitConnectSocket[j]]
  BY DEF OnConnectRequest
<1>4. CASE accepted
  <2>1. PICK m \in Convs : m = k
    BY <1>3, <1>4
  <2>2. /\ server' = [j \in Convs |-> IF j = m THEN NewServer(a, m) ELSE AfterRecess(j, r)]
        /\ m_allAwaitConnectSocket' =
              [j \in Convs |-> IF j = m THEN "valid" ELSE m_allAwaitConnectSocket[j]]
        /\ m_convCount' = m /\ m = m_convCount + 1 /\ Accept(a, r)
        /\ net' \subseteq net \cup {SvrConnectPacket(m, a),
                                    Packet("send_back_conv", Listen, a, m)}
    BY <1>2, <1>3, <1>4, <2>1
  <2> QED BY <1>1, <1>2, <2>2, AcceptKeeps
<1>5. CASE ~accepted
  <2>1. server' = [j \in Convs |-> AfterRecess(j, r)] /\ UNCHANGED m_convCount
    BY <1>3, <1>5
  <2>2. m_allAwaitConnectSocket' = m_allAwaitConnectSocket
    <3>1. m_allAwaitConnectSocket' = [j \in Convs |-> m_allAwaitConnectSocket[j]]
      BY <1>3, <1>5
    <3> QED BY <1>0, <3>1 DEF TypeOK
  <2>3. net' \subseteq net
    BY <1>2, <1>5
  <2> QED BY <1>1, <1>2, <2>1, <2>2, <2>3, RefuseKeeps
<1> QED BY <1>4, <1>5
-----------------------------------------------------------------------------
(* The specification                                                       *)

LEMMA ServerNextKeeps == HandshakeInv /\ ServerNext => HandshakeInv'
<1> SUFFICES ASSUME HandshakeInv, ServerNext PROVE HandshakeInv'
  OBVIOUS
<1>1. CASE \E a \in Clients : ListenerReads(a)
  BY <1>1, OnConnectRequestKeeps DEF ListenerReads
<1>2. CASE OnListenerClosed \/ OnIdleRun
  BY <1>2, StageStepsKeep, ClearInvalidKeeps, IdleClearKeeps DEF OnIdleRun
<1>3. ASSUME NEW k \in Convs, ServerReads(k) PROVE HandshakeInv'
  BY <1>3, OnAnswerKeeps, OnServerDisconnectKeeps, OnConnectPacketKeeps DEF ServerReads
<1>4. ASSUME NEW k \in Convs, UpdateSendTimeout(k) \/ UpdateReleased(k) PROVE HandshakeInv'
  BY <1>4, UpdateShutdownKeeps DEF UpdateSendTimeout, UpdateReleased
<1>5. ASSUME NEW k \in Convs,
             \/ OnServerClosed(k) \/ UpdateResend(k) \/ UpdateConnectTimeout(k)
             \/ DisSession(k) \/ ReleaseSession(k)
      PROVE  HandshakeInv'
  BY <1>5, OnServerClosedKeeps, UpdateResendKeeps, UpdateConnectTimeoutKeeps, DisSessionKeeps,
     ReleaseSessionKeeps
<1>6. CASE StopServer
  BY <1>6, StopServerKeeps
<1> QED BY <1>1, <1>2, <1>3, <1>4, <1>5, <1>6 DEF ServerNext

(* The network, which loses and repeats, and the server that has stopped *)
LEMMA NetworkKeeps == HandshakeInv /\ (Network \/ UNCHANGED vars) => HandshakeInv'
<1> SUFFICES ASSUME HandshakeInv, Network \/ UNCHANGED vars PROVE HandshakeInv'
  OBVIOUS
<1>1. lost \in 0 .. MaxLost
  BY DEF HandshakeInv, TypeOK
<1>2. UNCHANGED <<client, serverVars>> /\ net' \subseteq net /\ lost' \in 0 .. MaxLost
  <2>1. ASSUME NEW p \in net, Lose(p)
        PROVE  UNCHANGED <<client, serverVars>> /\ net' \subseteq net /\ lost' \in 0 .. MaxLost
    BY <1>1, <2>1, BoundsAssumption DEF Lose
  <2>2. ASSUME NEW p \in net, Ignore(p)
        PROVE  UNCHANGED <<client, serverVars>> /\ net' \subseteq net /\ lost' \in 0 .. MaxLost
    BY <1>1, <2>2 DEF Ignore, Receive
  <2>3. CASE UNCHANGED vars
    BY <1>1, <2>3 DEF vars
  <2> QED BY <2>1, <2>2, <2>3 DEF Network
<1>3. PICK P : P = {}
  OBVIOUS
<1>4. P \subseteq Datagram /\ net' \subseteq net \cup P /\ \A q \in P : PacketInv(q)
  BY <1>2, <1>3
<1> QED BY <1>2, <1>4, NetStepKeeps

LEMMA InitHolds == Init => HandshakeInv
<1> SUFFICES ASSUME Init PROVE HandshakeInv
  OBVIOUS
<1>1. NewClient \in ClientSocket /\ NewClient.addr = Listen /\ NewClient.accepted = 0
  BY PortFacts DEF NewClient, ClientSocket, State, Listen
<1>2. NoServer \in ServerSocket /\ NoServer.state = "DISCONNECT"
  BY PortFacts DEF NoServer, ServerSocket, State, Listen
<1>3. TypeOK
  <2>1. 0 \in Ports /\ 0 \in 0 .. MaxLost
    BY PortFacts, BoundsAssumption DEF Listen
  <2>2. client \in [Clients -> ClientSocket] /\ server \in [Convs -> ServerSocket]
    BY <1>1, <1>2 DEF Init
  <2> QED BY <2>1, <2>2 DEF Init, TypeOK
<1>4. ASSUME NEW k \in Convs PROVE EntryInv(k)
  <2>1. k > m_convCount
    BY PortFacts DEF Init
  <2> QED BY <2>1 DEF Init, EntryInv, Unused
<1>5. \A a \in Clients : ClientInv(a)
  BY <1>1 DEF Init, ClientInv
<1>6. Agreement /\ OneSocketPerAddress /\ \A p \in net : PacketInv(p)
  BY <1>2 DEF Init, Agreement, OneSocketPerAddress
<1>7. AwaitBounded
  <2>1. {k \in Convs : server[k].state = "WAIT_CONNECT"} = {}
    BY <1>2 DEF Init
  <2>2. Cardinality({}) = 0
    BY FS_EmptySet
  <2>3. 0 <= AwaitLimit + 1
    BY BoundsAssumption
  <2>4. Cardinality({k \in Convs : server[k].state = "WAIT_CONNECT"}) = 0
    BY <2>1, <2>2
  <2> QED BY <2>3, <2>4 DEF AwaitBounded
<1> QED BY <1>3, <1>4, <1>5, <1>6, <1>7 DEF HandshakeInv

(* HandshakeInv is inductive. *)
LEMMA StepKeeps == HandshakeInv /\ [Next]_vars => HandshakeInv'
BY ClientNextKeeps, ServerNextKeeps, NetworkKeeps DEF Next, Finished

(* HandshakeInv holds in every state: of every conv, what its socket, the   *)
(* two vectors and the session list say of it fit together (the manager's   *)
(* callbacks and KCPServer keep them from different callbacks).             *)
THEOREM Safety == Spec => []HandshakeInv
<1>1. Init => HandshakeInv
  BY InitHolds
<1>2. HandshakeInv /\ [Next]_vars => HandshakeInv'
  BY StepKeeps
<1> QED BY <1>1, <1>2, PTL DEF Spec

(* What the manager relies on follows. *)
LEMMA ManagerSafe == HandshakeInv => ManagerInv
<1> SUFFICES ASSUME HandshakeInv PROVE ManagerInv
  OBVIOUS
<1>1. UpdateSafe
  <2>1. ASSUME NEW k \in Convs, idle = "update", m_allAwaitConnectSocket[k] # "none"
        PROVE  m_allAwaitConnectSocket[k] # "null" /\ server[k].life = "alive"
    BY <2>1, InUse DEF Stage, Awaited, Established, Freed
  <2>2. ASSUME NEW k \in Convs, idle = "update", m_allConnectSocket[k] # "none"
        PROVE  server[k].life = "alive"
    BY <2>2, InUse DEF Stage, Awaited, Established, Freed
  <2> QED BY <2>1, <2>2 DEF UpdateSafe
<1>2. ValidAlive
  <2>1. ASSUME NEW k \in Convs, Awaiting(k) \/ Connected(k) \/ m_allSession[k] # "none"
        PROVE  server[k].life = "alive"
    <3>1. /\ \/ m_allAwaitConnectSocket[k] # "none" \/ m_allConnectSocket[k] # "none"
             \/ m_allSession[k] # "none"
      BY <2>1 DEF Awaiting, Connected
    <3>2. Stage(k, server[k], m_allAwaitConnectSocket[k], m_allConnectSocket[k], m_allSession[k])
      BY <3>1, InUse
    <3> QED BY <2>1, <3>2 DEF Awaiting, Connected, Stage, Awaited, Established, Freed
  <2> QED BY <2>1 DEF ValidAlive
<1> QED BY <1>1, <1>2 DEF ManagerInv, HandshakeInv

(* The manager's state: no update meets an entry whose socket is gone, the  *)
(* sockets that wait for one IP stay bounded, and isAccept looks at live    *)
(* sockets only.                                                            *)
THEOREM ManagerSafety == Spec => []ManagerInv
BY Safety, ManagerSafe, PTL

(* Both ends agree on the conv of a session, whatever was lost, repeated or *)
(* late on the way.                                                         *)
THEOREM AgreementHolds == Spec => []Agreement
<1>1. HandshakeInv => Agreement
  BY DEF HandshakeInv
<1> QED BY <1>1, Safety, PTL

(* No address has two live sockets at the server. *)
THEOREM OneSocketHolds == Spec => []OneSocketPerAddress
<1>1. HandshakeInv => OneSocketPerAddress
  BY DEF HandshakeInv
<1> QED BY <1>1, Safety, PTL

(* A socket that a step frees awaits no close callback. *)
LEMMA FreedStep ==
    ASSUME HandshakeInv, [Next]_vars, NEW k \in Convs,
           server[k].life # "freed", server'[k].life = "freed"
    PROVE  ~server[k].closing
<1>0. server \in [Convs -> ServerSocket] /\ server[k] \in ServerSocket
  BY DEF HandshakeInv, TypeOK
<1>1. CASE UNCHANGED server
  BY <1>1
<1>2. ASSUME NEW j \in Convs, NEW y, server' = [server EXCEPT ![j] = y], y.life = server[j].life
      PROVE  FALSE
  BY <1>0, <1>2
<1>3. CASE ClearInvalid
  <2>1. m_allAwaitConnectSocket[k] = "invalid"
    BY <1>3 DEF ClearInvalid
  <2> QED BY <2>1, InUse DEF Stage, Awaited, Established, Freed
<1>4. ASSUME NEW j \in Convs, ReleaseSession(j) PROVE ~server[k].closing
  <2>1. j = k /\ m_allSession[k] = "closed"
    BY <1>0, <1>4 DEF ReleaseSession, ServerSocketStep
  <2> QED BY <2>1, InUse DEF Stage, Awaited, Established, Freed
<1>5. CASE StopServer \/ IdleClear
  <2>1. server'[k] = SocketDisconnect(server[k]) \/ server'[k] = server[k]
    BY <1>5 DEF StopServer, IdleClear
  <2> QED BY <1>0, <2>1, ServerSocketDisconnect
<1>6. ASSUME NEW a \in Clients, NEW p \in net, NEW r \in BOOLEAN, OnConnectRequest(a, p, r)
      PROVE  FALSE
  <2>1. \/ server'[k] = NewServer(a, m_convCount + 1) \/ server'[k] = server[k]
        \/ server'[k] = SocketDisconnect(server[k])
    BY <1>6 DEF OnConnectRequest, AfterRecess
  <2>2. NewServer(a, m_convCount + 1).life # "freed"
    BY DEF NewServer
  <2> QED BY <1>0, <2>1, <2>2, ServerSocketDisconnect
<1>7. ASSUME NEW j \in Convs, ServerReads(j) PROVE FALSE
  <2>0. PICK x \in ServerSocket : x = server[j]
    BY <1>0
  <2>1. \/ server' = [server EXCEPT ![j] = Answered(x, TRUE)]
        \/ server' = [server EXCEPT ![j] = Answered(x, FALSE)]
        \/ server' = [server EXCEPT ![j] = [x EXCEPT !.state = "WAIT_DISCONNECT"]]
        \/ \E a \in Clients : server' = [server EXCEPT ![j] = [x EXCEPT !.addr = a]]
    BY <1>0, <1>7, <2>0
       DEF ServerReads, OnAnswer, OnServerDisconnect, OnConnectPacket, ServerSocketStep
  <2>2. /\ Answered(x, TRUE).life = x.life /\ Answered(x, FALSE).life = x.life
        /\ [x EXCEPT !.state = "WAIT_DISCONNECT"].life = x.life
        /\ \A a : [x EXCEPT !.addr = a].life = x.life
    BY DEF ServerSocket, Answered
  <2>3. ASSUME NEW y, y.life = x.life, server' = [server EXCEPT ![j] = y] PROVE FALSE
    BY <1>2, <2>0, <2>3
  <2> QED BY <2>1, <2>2, <2>3
<1>8. ASSUME NEW j \in Convs,
             \/ OnServerClosed(j) \/ UpdateConnectTimeout(j) \/ UpdateSendTimeout(j)
             \/ UpdateReleased(j) \/ DisSession(j)
      PROVE  FALSE
  <2>0. PICK x \in ServerSocket : x = server[j]
    BY <1>0
  <2>1. \/ server' = [server EXCEPT ![j] = [x EXCEPT !.closing = FALSE]]
        \/ server' = [server EXCEPT ![j] = Shutdown(x, TRUE)]
        \/ server' = [server EXCEPT ![j] = Shutdown(x, FALSE)]
        \/ server' = [server EXCEPT ![j] = SocketDisconnect(x)]
    BY <1>8, <2>0
       DEF OnServerClosed, UpdateConnectTimeout, UpdateSendTimeout, UpdateReleased, UpdateShutdown,
           DisSession, ServerSocketStep, TimedOut
  <2>2. [x EXCEPT !.closing = FALSE].life = x.life
    BY DEF ServerSocket
  <2>3. Shutdown(x, TRUE).life = x.life /\ Shutdown(x, FALSE).life = x.life
    BY ShutdownLife
  <2>4. SocketDisconnect(x).life = x.life
    BY ServerSocketDisconnect
  <2>5. ASSUME NEW y, y.life = x.life, server' = [server EXCEPT ![j] = y] PROVE FALSE
    BY <1>2, <2>0, <2>5
  <2> QED BY <2>1, <2>2, <2>3, <2>4, <2>5
<1>9. CASE ClientNext \/ Network \/ Finished
  <2>1. ClientNext => UNCHANGED server
    <3>1. ASSUME NEW a \in Clients, NEW p \in net,
                 OnSendBackConv(a, p) \/ OnSvrConnect(a, p) \/ OnClientDisconnect(a, p)
          PROVE  UNCHANGED server
      BY <3>1 DEF OnSendBackConv, OnSvrConnect, OnClientDisconnect, ClientStep, serverVars
    <3>2. ASSUME NEW a \in Clients, Connect(a) \/ Resend(a) \/ ConnectTimeout(a) \/ SendTimeout(a)
          PROVE  UNCHANGED server
      BY <3>2 DEF Connect, Resend, ConnectTimeout, SendTimeout, ClientStep, serverVars
    <3>3. ASSUME NEW a \in Clients, ClientDisconnect(a) \/ ClientReleased(a) \/ ClientClosed(a)
          PROVE  UNCHANGED server
      BY <3>3 DEF ClientDisconnect, ClientReleased, ClientClosed, ClientStep, serverVars
    <3> QED BY <3>1, <3>2, <3>3 DEF ClientNext, ClientReads
  <2>2. Network => UNCHANGED server
    BY DEF Network, Lose, Ignore, serverVars
  <2>3. Finished => UNCHANGED server
    BY DEF Finished, vars, serverVars
  <2> QED BY <1>1, <1>9, <2>1, <2>2, <2>3
<1>10. CASE OnListenerClosed \/ UpdateEnd \/ UpdateListener \/ IdleRun \/ IdleWaitSessionClose
  <2>1. UNCHANGED server
    BY <1>10 DEF OnListenerClosed, UpdateEnd, UpdateListener, IdleRun, IdleWaitSessionClose
  <2> QED BY <1>1, <2>1
<1>11. ASSUME NEW j \in Convs, UpdateResend(j) PROVE FALSE
  BY <1>11 DEF UpdateResend, serverVars
<1>12. CASE ServerNext
  BY <1>3, <1>4, <1>5, <1>6, <1>7, <1>8, <1>10, <1>11, <1>12
     DEF ServerNext, OnIdleRun, ListenerReads
<1>13. CASE UNCHANGED vars
  BY <1>13 DEF vars, serverVars
<1> QED BY <1>9, <1>12, <1>13 DEF Next

(* ~KCPSocket never runs while uv_close is under way: a socket is freed     *)
(* once it is quiet.                                                        *)
THEOREM FreedQuietly == Spec => FreedWhenQuiet
<1>1. HandshakeInv /\ [Next]_vars =>
         [\A k \in Convs :
             server[k].life # "freed" /\ server[k]'.life = "freed" => ~server[k].closing]_vars
  BY FreedStep
<1> QED BY <1>1, Safety, PTL DEF Spec, FreedWhenQuiet
=============================================================================
