------------------------------ MODULE P2PPeer ------------------------------
(* Peers that connect to each other through UDP holes: p2p/P2PPeer.cpp on top *)
(* of p2p/P2PPipe.cpp.  The turn server is an environment that answers        *)
(* CHECK_PEER, and a peer is logged in at it; the network delays, reorders    *)
(* and drops datagrams.  An operation is carried out with the call that       *)
(* queues it, a callback made with the step that queues it: what the two      *)
(* queues of a P2PPeer add is a delay.  Of the data sent over KCP nothing is  *)
(* kept: to the peer that gets it, it is one more sign of life, like PONG.    *)
EXTENDS Integers, Sequences, FiniteSets, SequencesExt

CONSTANTS
    Peers,          \* the nodes
    Calls,          \* the pairs <<p, q>> such that p's application may call q
    MaxCalls,       \* bound: calls of connectToPeer in a behaviour
    MaxHangups,     \* bound: calls of disconnect
    MaxStops,       \* bound: calls of stop
    MaxTry,         \* tryConnectCount of an abandoned request (10)
    MaxNoResponse,  \* noResponseCount of a dead session (5)
    MaxHello,       \* sendCount of an abandoned hole (30)
    MaxNet          \* bound: datagrams in flight

ASSUME PeersAssumption == IsFiniteSet(Peers)
ASSUME CallsAssumption == Calls \subseteq Peers \X Peers
ASSUME BoundsAssumption ==
    {MaxCalls, MaxHangups, MaxStops, MaxTry, MaxNoResponse, MaxHello, MaxNet} \subseteq Nat

VARIABLES
    lan,     \* do the peers share a local network?
    peer,    \* the state of each P2PPeer and its P2PPipe
    net,     \* the datagrams in flight
    calls, hangups, stops

vars == <<lan, peer, net, calls, hangups, stops>>

---------------------------------------------------------------------------
(* Data *)

\* A key is an address.  The turn server knows a peer by its public one, a
\* datagram between two peers carries the one of the network they share.
Keys == Peers \X {"public", "lan"}
Public(p) == <<p, "public">>
Seen(p) == <<p, IF lan THEN "lan" ELSE "public">>
Owner(k) == k[1]
NoKey == <<>>
Turn == "turn"

NoRequest == [state |-> "none", try |-> 0, sendTo |-> NoKey]
Requests == [state: {"none", "CHECKING", "CONNECTING", "CONNECT"},
             try: 0 .. MaxTry + 1, sendTo: Keys \cup {NoKey}]

NoBurrow == [sending |-> FALSE, sendCount |-> 0, isClient |-> FALSE]
Burrows == [sending: BOOLEAN, sendCount: 0 .. MaxHello, isClient: BOOLEAN]

\* session: m_allSessionDataMap; mng: m_connectToPeerSessionMng; accept:
\* m_acceptPerrSessionMng; open: the keys the application was told of as
\* connected and not yet as lost.
PeerStates == [up: BOOLEAN,
               session: [Keys -> {"none", "plain", "kcp"}],
               noResponse: [Keys -> 0 .. MaxNoResponse + 1],
               mng: [Keys -> Requests],
               accept: SUBSET Keys,
               burrow: [Keys -> Burrows],
               open: SUBSET Keys]

\* An object made by the constructor and started.
Fresh == [up |-> TRUE,
          session |-> [k \in Keys |-> "none"],
          noResponse |-> [k \in Keys |-> 0],
          mng |-> [k \in Keys |-> NoRequest],
          accept |-> {},
          burrow |-> [k \in Keys |-> NoBurrow],
          open |-> {}]

Datagram(type, from, to, arg) == [type |-> type, from |-> from, to |-> to, arg |-> arg]

TypeOK ==
    /\ lan \in BOOLEAN
    /\ peer \in [Peers -> PeerStates]
    /\ IsFiniteSet(net) /\ Cardinality(net) <= MaxNet
    /\ calls \in [Calls -> 0 .. MaxCalls]
    /\ hangups \in 0 .. MaxHangups /\ stops \in 0 .. MaxStops

---------------------------------------------------------------------------
(* Faulty variants of the definitions below, one slip each, that no action    *)
(* uses.                                                                      *)
RemoveUntold(s, k) == [s EXCEPT !.session[k] = "none", !.noResponse[k] = 0]
LeaveAccepted(s, k) ==
    IF k \in s.accept THEN [s EXCEPT !.open = @ \ {k}]
    ELSE [s EXCEPT !.mng = [r \in Keys |-> IF r = k \/ s.mng[r].sendTo = k
                                           THEN NoRequest ELSE s.mng[r]],
                   !.open = @ \ {r \in Keys : r = k \/ s.mng[r].sendTo = k}]
LostUntold(s, k) ==
    [s EXCEPT !.mng = [r \in Keys |-> IF r = k \/ s.mng[r].sendTo = k
                                      THEN NoRequest ELSE s.mng[r]],
              !.accept = @ \ {k}]
WaitingForTurn(s) == {r \in Keys : s.mng[r].state = "CHECKING"}

---------------------------------------------------------------------------
(* The pipe and the callbacks it makes *)

\* The requests a session at address k serves: the one for the key k, else
\* the one that was sent to k.
Serving(s, k) ==
    IF s.mng[k].state # "none" THEN {k}
    ELSE {r \in Keys : s.mng[r].state # "none" /\ s.mng[r].sendTo = k}

Report(s, k) == [s EXCEPT !.open = @ \cup {k}]
ReportLost(s, k) == [s EXCEPT !.open = @ \ {k}]

RecvData(s, k) ==
    [s EXCEPT !.session[k] = IF @ = "none" THEN "plain" ELSE @, !.noResponse[k] = 0]

\* CONNECT_PEER_SUC.  The branch that finds the request by its key asks for
\* its state, the one that finds it by its address does not.
ConnectSuc(s, r, k) ==
    IF r = k /\ s.mng[r].state = "CONNECT" THEN s
    ELSE Report([s EXCEPT !.mng[r].state = "CONNECT"], r)

OnNewKcp(s, k, tag) ==
    LET t == [s EXCEPT !.burrow[k] = NoBurrow]
    IN  IF tag = 0
        THEN IF Serving(t, k) = {} THEN t
             ELSE ConnectSuc(t, CHOOSE r \in Serving(t, k) : TRUE, k)
        ELSE IF k \in t.accept THEN t
             ELSE Report([t EXCEPT !.accept = @ \cup {k}], k)

CreateKcp(s, k, tag) ==
    IF s.session[k] = "plain" THEN OnNewKcp([s EXCEPT !.session[k] = "kcp"], k, tag) ELSE s

\* DISCONNECT_PEER: a request is looked for first, and when there is one the
\* accepted session is not looked for.
OnRemoveSession(s, k) ==
    IF Serving(s, k) # {}
    THEN LET r == CHOOSE r \in Serving(s, k) : TRUE
         IN  ReportLost([s EXCEPT !.mng[r] = NoRequest], r)
    ELSE IF k \in s.accept THEN ReportLost([s EXCEPT !.accept = @ \ {k}], k)
    ELSE s

RemoveSession(s, k) ==
    [OnRemoveSession(s, k) EXCEPT !.session[k] = "none", !.noResponse[k] = 0]

\* A walk over the map that removes these sessions.
RemoveSessions(s, order) ==
    LET left[i \in 0 .. Len(order)] ==
            IF i = 0 THEN s ELSE RemoveSession(left[i - 1], order[i])
    IN  left[Len(order)]

Sessions(s) == {k \in Keys : s.session[k] # "none"}

---------------------------------------------------------------------------
(* The network *)

\* The datagrams ms leave, after those in gone arrived; the network loses any
\* of them.
Send(gone, ms) ==
    \E arriving \in SUBSET ms :
        /\ net' = (net \ gone) \cup arriving
        /\ Cardinality(net') <= MaxNet

To(p, type, k, arg) == Datagram(type, Seen(p), k, arg)

\* p receives the datagram m from another peer.
Receives(p, m, type) ==
    /\ m \in net
    /\ m.type = type
    /\ m.to # Turn /\ Owner(m.to) = p
    /\ peer[p].up

Unbounded == UNCHANGED <<lan, calls, hangups, stops>>

\* Arriving at a closed socket.
Unheard(m) ==
    /\ m \in net
    /\ m.to # Turn /\ ~peer[Owner(m.to)].up
    /\ net' = net \ {m}
    /\ Unbounded /\ UNCHANGED peer

OnPing(p, m) ==
    /\ Receives(p, m, "PING")
    /\ peer' = [peer EXCEPT ![p] = RecvData(@, m.from)]
    /\ Send({m}, {To(p, "PONG", m.from, "")})
    /\ Unbounded

OnPong(p, m) ==
    /\ Receives(p, m, "PONG")
    /\ peer' = [peer EXCEPT ![p] = RecvData(@, m.from)]
    /\ Send({m}, {})
    /\ Unbounded

\* HELLO: whoever hears the hole of a client offers it a KCP session.
OnHello(p, m) ==
    /\ Receives(p, m, "HELLO")
    /\ peer' = [peer EXCEPT ![p] = RecvData(@, m.from)]
    /\ Send({m}, IF m.arg THEN {To(p, "CREATE_KCP", m.from, "")} ELSE {})
    /\ Unbounded

OnCreateKcp(p, m) ==
    /\ Receives(p, m, "CREATE_KCP")
    /\ peer' = [peer EXCEPT ![p] = CreateKcp(RecvData(@, m.from), m.from, 0)]
    /\ Send({m}, {To(p, "CREATE_KCP_RESULT", m.from, "")})
    /\ Unbounded

OnCreateKcpResult(p, m) ==
    /\ Receives(p, m, "CREATE_KCP_RESULT")
    /\ peer' = [peer EXCEPT ![p] = CreateKcp(RecvData(@, m.from), m.from, 1)]
    /\ Send({m}, {})
    /\ Unbounded

OnDisconnect(p, m) ==
    /\ Receives(p, m, "C2C_DISCONNECT")
    /\ peer' = [peer EXCEPT ![p] = RemoveSession(RecvData(@, m.from), m.from)]
    /\ Send({m}, {})
    /\ Unbounded

---------------------------------------------------------------------------
(* The turn server's messages *)

\* A hole that is being made already is only made longer: it keeps its
\* isClient.
StartBurrow(s, k, isClient) ==
    IF s.burrow[k].sending THEN [s EXCEPT !.burrow[k].sendCount = 0]
    ELSE [s EXCEPT !.burrow[k] = [sending |-> TRUE, sendCount |-> 0, isClient |-> isClient]]

FirstHello(p, k, isClient) ==
    IF peer[p].burrow[k].sending THEN {} ELSE {To(p, "HELLO", k, isClient)}

OnStartBurrow(p, m) ==
    /\ Receives(p, m, "START_BURROW")
    /\ peer' = [peer EXCEPT ![p] = StartBurrow(@, m.arg, FALSE)]
    /\ Send({m}, FirstHello(p, m.arg, FALSE))
    /\ Unbounded

\* CHECK_PEER_RESULT for a request that is gone.
OnLateCheckResult(p, m) ==
    /\ Receives(p, m, "CHECK_PEER_RESULT")
    /\ peer[p].mng[m.arg.toKey].state = "none"
    /\ Send({m}, {})
    /\ Unbounded /\ UNCHANGED peer

\* CHECK_PEER_RESULT for the request mng[toKey], in whatever state it is.
CheckResult(p, m) ==
    /\ Receives(p, m, "CHECK_PEER_RESULT")
    /\ peer[p].mng[m.arg.toKey].state # "none"

Answered(p, m) == [peer[p] EXCEPT !.mng[m.arg.toKey] = NoRequest]

DigForPeer(p, m) ==
    LET r == m.arg.toKey
        t == m.arg.tarAddr
    IN  /\ CheckResult(p, m)
        /\ t \notin peer[p].accept
        /\ m.arg.code \in {0, 1}
        /\ peer' = [peer EXCEPT ![p] = StartBurrow(
                [@ EXCEPT !.mng[r] = [state |-> "CONNECTING", try |-> 0, sendTo |-> t]], t, TRUE)]
        /\ Send({m}, FirstHello(p, t, TRUE))
        /\ Unbounded

\* CONNECT_PEER_FAIL_NOT_FOUND
PeerNotFound(p, m) ==
    /\ CheckResult(p, m)
    /\ m.arg.tarAddr \notin peer[p].accept
    /\ m.arg.code = 2
    /\ peer' = [peer EXCEPT ![p] = ReportLost(Answered(p, m), m.arg.toKey)]
    /\ Send({m}, {})
    /\ Unbounded

\* CONNECT_PEER_FAIL_CLI_SESSION
RefusedAsClient(p, m) ==
    /\ CheckResult(p, m)
    /\ m.arg.tarAddr \in peer[p].accept
    /\ peer' = [peer EXCEPT ![p] = Answered(p, m)]
    /\ Send({m}, {})
    /\ Unbounded

\* The turn server answers a CHECK_PEER of p for the peer of key k: it knows
\* both, and then p makes a hole on their local network or both make one, or
\* it does not.
CheckPeer(m) ==
    LET p == Owner(m.from)
        Answer(code, tarAddr) ==
            Datagram("CHECK_PEER_RESULT", Turn, m.from,
                     [code |-> code, toKey |-> m.arg, tarAddr |-> tarAddr])
    IN  /\ m \in net /\ m.to = Turn /\ m.type = "CHECK_PEER"
        /\ \/ /\ ~lan
              /\ Send({m}, {Answer(0, m.arg),
                            Datagram("START_BURROW", Turn, m.arg, Public(p))})
           \/ lan /\ Send({m}, {Answer(1, Seen(Owner(m.arg)))})
           \/ Send({m}, {Answer(2, m.arg)})
        /\ Unbounded /\ UNCHANGED peer

---------------------------------------------------------------------------
(* The timers *)

\* The requests a try is counted of; the sessions that are given up.
Waiting(s) == {r \in Keys : s.mng[r].state \in {"CHECKING", "CONNECTING"}}
Dead(s) == {k \in Sessions(s) : s.noResponse[k] > MaxNoResponse}

\* onTimerRun: every hole sends another HELLO or is given up, every request
\* that is not connected counts a try or is given up (CONNECT_PEER_TIMEOUT).
OnTimer(p) ==
    LET s == peer[p]
        Digging == {k \in Keys : s.burrow[k].sending /\ s.burrow[k].sendCount < MaxHello}
        GivenUp == {r \in Waiting(s) : s.mng[r].try > MaxTry}
        Dug(k) == [s.burrow[k] EXCEPT !.sendCount = @ + 1]
        Tried(r) == [s.mng[r] EXCEPT !.try = @ + 1]
    IN  /\ s.up
        /\ peer' = [peer EXCEPT ![p] =
                [s EXCEPT !.burrow = [k \in Keys |-> IF k \in Digging THEN Dug(k) ELSE NoBurrow],
                          !.mng = [r \in Keys |-> IF r \in GivenUp THEN NoRequest
                                                  ELSE IF r \in Waiting(s) THEN Tried(r) ELSE @[r]],
                          !.open = @ \ GivenUp]]
        /\ Send({}, {To(p, "HELLO", k, s.burrow[k].isClient) : k \in Digging})
        /\ Unbounded

\* heartCheck: a session that has not been heard for MaxNoResponse checks is
\* removed, one that has not been heard for a second counts a check and is
\* pinged.  late holds the sessions that were silent for that second.  Keys are
\* not ordered here, so the map may be walked in any order.
HeartCheck(p, late) ==
    LET s == peer[p]
        Probed == late \ Dead(s)
        Counted == [k \in Keys |-> s.noResponse[k] + IF k \in Probed THEN 1 ELSE 0]
    IN  /\ s.up
        /\ {k \in Sessions(s) : s.noResponse[k] > 0} \subseteq late
        /\ late \subseteq Sessions(s)
        /\ late # {}
        /\ \E order \in SetToSeqs(Dead(s)) :
              peer' = [peer EXCEPT ![p] =
                          RemoveSessions([s EXCEPT !.noResponse = Counted], order)]
        /\ Send({}, {To(p, "PING", k, "") : k \in Probed})
        /\ Unbounded

---------------------------------------------------------------------------
(* The application *)

\* connectToPeer: refused for a stopped peer, and ignored while a request for
\* the key is on.
ConnectToPeer(p, q) ==
    LET k == Public(q)
    IN  /\ <<p, q>> \in Calls /\ p # q
        /\ calls[<<p, q>>] < MaxCalls
        /\ calls' = [calls EXCEPT ![<<p, q>>] = @ + 1]
        /\ peer[p].up
        /\ IF peer[p].mng[k].state # "none"
           THEN UNCHANGED <<peer, net>>
           ELSE /\ peer' = [peer EXCEPT ![p].mng[k] = [NoRequest EXCEPT !.state = "CHECKING"]]
                /\ Send({}, {Datagram("CHECK_PEER", Public(p), Turn, k)})
        /\ UNCHANGED <<lan, hangups, stops>>

\* disconnect(key) of a connection the application was told of.
Disconnect(p, k) ==
    /\ peer[p].up
    /\ k \in peer[p].open
    /\ hangups < MaxHangups
    /\ hangups' = hangups + 1
    /\ Send({}, IF peer[p].session[k] = "none" THEN {} ELSE {To(p, "C2C_DISCONNECT", k, "")})
    /\ UNCHANGED <<lan, peer, calls, stops>>

\* stop(): the loop closes the pipe and ends; the output queue is cleared and
\* the close callback ends all the application knew of.  A peer started again
\* binds another port and so has another key: it is another peer.
Stop(p) ==
    LET s == peer[p]
    IN  /\ s.up
        /\ stops < MaxStops
        /\ stops' = stops + 1
        /\ \E order \in SetToSeqs(Sessions(s)) :
              peer' = [peer EXCEPT ![p] =
                          [RemoveSessions(s, order) EXCEPT !.up = FALSE, !.open = {}]]
        /\ Send({}, {To(p, "C2C_DISCONNECT", k, "") : k \in Sessions(s)})
        /\ UNCHANGED <<lan, calls, hangups>>

---------------------------------------------------------------------------
Init ==
    /\ lan \in BOOLEAN
    /\ peer = [p \in Peers |-> Fresh]
    /\ net = {}
    /\ calls = [c \in Calls |-> 0]
    /\ hangups = 0 /\ stops = 0

Arrives(p, m) ==
    \/ OnPing(p, m) \/ OnPong(p, m) \/ OnHello(p, m)
    \/ OnCreateKcp(p, m) \/ OnCreateKcpResult(p, m) \/ OnDisconnect(p, m)
    \/ OnStartBurrow(p, m) \/ OnLateCheckResult(p, m)
    \/ DigForPeer(p, m) \/ PeerNotFound(p, m) \/ RefusedAsClient(p, m)

Next ==
    \/ \E m \in net : Unheard(m) \/ CheckPeer(m)
    \/ \E p \in Peers, m \in net : Arrives(p, m)
    \/ \E p \in Peers :
        \/ OnTimer(p)
        \/ \E late \in SUBSET Sessions(peer[p]) : HeartCheck(p, late)
        \/ \E q \in Peers : ConnectToPeer(p, q)
        \/ \E k \in Keys : Disconnect(p, k)
        \/ Stop(p)

Fairness ==
    \A p \in Peers :
        /\ WF_vars(OnTimer(p))
        /\ WF_vars(HeartCheck(p, Sessions(peer[p])))

FairSpec == Init /\ [][Next]_vars /\ Fairness

Spec == Init /\ [][Next]_vars

---------------------------------------------------------------------------
(* Properties *)

\* Where the data of the request or session r goes.
Via(p, r) == IF peer[p].mng[r].sendTo = NoKey THEN r ELSE peer[p].mng[r].sendTo
HasCalled(p, q) == <<p, q>> \in Calls /\ calls[<<p, q>>] > 0

\* A request that is CONNECT has a KCP session: createKcp and the removals of
\* the pipe, which are keyed by address, and m_connectToPeerSessionMng, keyed
\* by what the application asked for, stay in step (P2PPeer.cpp:450-469,
\* 494-512).  A request that connects before its CHECK_PEER_RESULT has no
\* sendToAddr; its session has the key of the request then.
ConnectedHasKcp ==
    \A p \in Peers : \A r \in Keys :
        peer[p].mng[r].state = "CONNECT" => peer[p].session[Via(p, r)] = "kcp"

\* What the application believes to be connected is: no session is removed
\* without the callback for the key it was announced with (P2PPipe.cpp:474).
\* On a local network, a peer that was announced under its address and is
\* called under its public key meanwhile is lost under that key
\* (P2PPeer.cpp:503-510).
OpenIsReal ==
    \A p \in Peers : \A k \in peer[p].open :
        \/ peer[p].session[Via(p, k)] = "kcp"
        \/ lan /\ HasCalled(p, Owner(k))

\* An entry of m_acceptPerrSessionMng stands for a client that is connected,
\* unless this peer called that client itself: then the removal may have met
\* the request and left the entry (P2PPeer.cpp:494-520).
ServedHasKcp ==
    \A p \in Peers : \A k \in peer[p].accept :
        peer[p].session[k] = "kcp" \/ HasCalled(p, Owner(k))

\* A request is answered, whatever is lost: it connects or is given up, unless
\* the peer is stopped (onTimerRun, P2PPeer.cpp:307-327).
ConnectResolves ==
    \A p, q \in Peers :
        LET Open == peer[p].mng[Public(q)].state \in {"CHECKING", "CONNECTING"}
        IN  Open ~> ~peer[p].up \/ ~Open

\* A peer that went away is reported as lost, even if none of its
\* C2C_DISCONNECT arrives (heartCheck, P2PPipe.cpp:194-217).
LostPeerReported ==
    \A q \in Peers :
        ~peer[q].up ~> \A p \in Peers : \A k \in peer[p].open : Owner(k) # q
=============================================================================
