------------------------------- MODULE Framing -------------------------------
(***************************************************************************)
(* The framing and the heartbeat of one connection of TCPClient and        *)
(* TCPServer (tcp/TCPUtils.cpp, tcp/TCPSession.cpp).                       *)
(*                                                                         *)
(* send() turns a message into a packet (a head, a hash, the bytes) and    *)
(* pushes it, cut in chunks, on the queue of its loop thread, one locked   *)
(* push per chunk.  The loop thread writes whatever is queued, and between *)
(* two such batches it writes heartbeats of its own: a probe from the      *)
(* timer, an answer from the read of a probe.  The stream is read in       *)
(* pieces cut anywhere, and TCPSession puts the packets together again.    *)
(*                                                                         *)
(* A byte is a cell <<packet, position>>: what the hash tells apart.  The  *)
(* connection is up at the start, as after connect() and accept().  The    *)
(* KCP session's code is the same line by line (kcp/KCPSession.cpp,        *)
(* kcp/KCPUtils.cpp), over the stream ikcp delivers.                       *)
(***************************************************************************)
EXTENDS Integers, FiniteSets, Sequences, SequencesExt

CONSTANTS Sends,          \* how many messages each end's application sends
          Sizes,          \* the lengths of those messages
          MaxLen,         \* TCP_BIG_MSG_MAX_LEN
          WriteMax,       \* TCP_WRITE_MAX_LEN
          ReadMax,        \* the buffer a read fills (libuv's 64 KB)
          TicksPerCheck,  \* TCP_HEARTBEAT_CHECK_DELAY / TCP_HEARTBEAT_TIMER_DELAY
          MaxCount,       \* TCP_HEARTBEAT_MAX_COUNT_CLIENT, _SERVER
          Networks,       \* the networks to consider, of {"prompt", "slow"}
          MaxDrift,       \* ticks one loop's timer may be ahead of the other's
          MaxWire         \* cells in flight beyond which the timers wait (a bound)

Ends == {"client", "server"}
Peer(e) == CHOOSE f \in Ends : f # e

HeadLen == 2              \* sizeof(TCPMsgHead): length and tag
HashLen == 1              \* tcp_uv_hashlen
HeartLen == 1             \* NET_HEARTBEAT_MSG_SIZE
\* (a faulty variant: both ends start their count at the same value)
ResetAlike == [client |-> -1, server |-> -1]
\* TCP_HEARTBEAT_COUNT_RESET_VALUE_CLIENT, _SERVER
ResetCount == [client |-> -1, server |-> -2]

ASSUME FramingAssumption ==
    /\ Sends \in [Ends -> Nat]
    /\ MaxLen \in Nat /\ MaxLen >= HashLen + HeartLen /\ Sizes \subseteq 1 .. MaxLen
    /\ WriteMax \in Nat /\ WriteMax >= HeadLen + HashLen + HeartLen
    /\ ReadMax \in Nat \ {0} /\ MaxCount \in Nat \ {0} /\ TicksPerCheck \in Nat \ {0}
    /\ MaxDrift \in Nat /\ 2 * MaxDrift <= TicksPerCheck /\ MaxWire \in Nat
    /\ Networks \subseteq {"prompt", "slow"}

VARIABLES
    sent,      \* the lengths of the messages each application sent, in order
    pushing,   \* the cells its call of send() has yet to push
    que,       \* the cells of the chunks on its operation queue
    wire,      \* the cells each end wrote and the other has not read
    online,    \* Session::isOnline
    why,       \* what took the end off line
    buf,       \* m_recvBuffer
    got,       \* the numbers of the messages handed to the application
    heart,     \* m_curHeartTime (in ticks) and m_curHeartCount
    net,       \* "prompt": threads and network are faster than a tick;
               \* "slow": anything may lag; "dead": nothing arrives any more
    drift,     \* the ticks the client's timer is ahead of the server's
    part,      \* the message of which some chunks are written and some are not
    split      \* the messages a heartbeat was written into the middle of

vars == <<sent, pushing, que, wire, online, why, buf, got, heart, net, drift, part, split>>

-----------------------------------------------------------------------------
(* Packets                                                                 *)

Message(n, size) == [kind |-> "data", n |-> n, len |-> size + HashLen]
Heartbeat(kind) == [kind |-> kind, n |-> 0, len |-> HeartLen + HashLen]

Total(p) == HeadLen + p.len
Cells(p) == [i \in 1 .. Total(p) |-> <<p, i>>]

\* tcp_packageData: the packet is cut in chunks of WriteMax cells
Chunk(cells) == SubSeq(cells, 1, IF Len(cells) < WriteMax THEN Len(cells) ELSE WriteMax)
AfterChunk(cells) == SubSeq(cells, Len(Chunk(cells)) + 1, Len(cells))

IsHead(cells) == \A i \in 1 .. HeadLen : cells[i] = <<cells[1][1], i>>
Body(p) == SubSeq(Cells(p), HeadLen + 1, Total(p))
\* (a faulty variant: any hash will do)
HashIgnored(cells, p) == TRUE
HashAgrees(cells, p) == cells = Body(p)
\* what is handed on: another text than the one sent has no number
Decoded(cells, p) == IF cells = Body(p) THEN p ELSE [p EXCEPT !.n = -1]

\* the message of the last cell written, unless that is its last
PartOf(cells) ==
    LET cell == cells[Len(cells)] IN IF cell[2] < Total(cell[1]) THEN cell[1].n ELSE 0

-----------------------------------------------------------------------------
(* Receiving: the loop of on_socket_recv over its buffer after a read of   *)
(* `data'.  The state of the loop is the buffer, the messages it handed to *)
(* the application, the answers it wrote, and whether it found the data    *)
(* invalid.                                                                *)

Loop0(b) == [buf |-> b, got |-> <<>>, written |-> <<>>, bad |-> FALSE]
Invalid(s) == [s EXCEPT !.buf = <<>>, !.bad = TRUE]

\* the packet at the front has come to its end; it cannot be a packet
Whole(b) == Len(b) >= Total(b[1][1])
Malformed(b) ==
    \/ ~IsHead(b) \/ b[1][1].len > MaxLen
    \/ Whole(b) /\ ~HashAgrees(SubSeq(b, HeadLen + 1, Total(b[1][1])), b[1][1])
FirstPacket(b) == Decoded(SubSeq(b, HeadLen + 1, Total(b[1][1])), b[1][1])

\* onRecvMsgPackage: a probe is answered, a message handed on
Handed(s, p) ==
    CASE p.kind = "probe"  -> [s EXCEPT !.written = @ \o Cells(Heartbeat("answer"))]
      [] p.kind = "data"   -> [s EXCEPT !.got = Append(@, p.n)]
      [] p.kind = "answer" -> s

\* (a faulty variant: the surplus is taken from the front of the read)
RestFromFront(data, surplus) == SubSeq(data, 1, surplus)

\* what the buffer holds after a packet: the end of the data just read
Rest(data, surplus) == SubSeq(data, Len(data) - surplus + 1, Len(data))

\* a round of the loop, which changes nothing once the loop is over
RecvRound(s, data) ==
    IF Len(s.buf) < HeadLen THEN s
    ELSE IF Malformed(s.buf) THEN Invalid(s)
    ELSE IF ~Whole(s.buf) THEN s
    ELSE [Handed(s, FirstPacket(s.buf)) EXCEPT
              !.buf = Rest(data, Len(s.buf) - Total(s.buf[1][1]))]

\* the loop over b, of which a round takes a cell at least
RecvLoop(b, data) ==
    LET round[i \in 0 .. Len(b)] == IF i = 0 THEN Loop0(b) ELSE RecvRound(round[i - 1], data)
    IN round[Len(b)]

-----------------------------------------------------------------------------
(* Writing                                                                 *)

\* TCPSocket::send: a dead network keeps the cells for ever
Write(e, cells) ==
    wire' = IF net = "dead" THEN wire ELSE [wire EXCEPT ![e] = @ \o cells]

\* a heartbeat goes out between two batches of chunks
NotesSplit(e) ==
    split' = IF part[e] # 0 THEN [split EXCEPT ![e] = @ \cup {part[e]}] ELSE split

\* setIsOnline: the buffer and the heartbeat start again
Fresh(e) == [time |-> 0, count |-> ResetCount[e]]
GoOffline(e, reason) ==
    /\ online' = [online EXCEPT ![e] = FALSE]
    /\ why' = [why EXCEPT ![e] = reason]
    /\ buf' = [buf EXCEPT ![e] = <<>>]
    /\ heart' = [heart EXCEPT ![e] = Fresh(e)]

Init ==
    /\ sent = [e \in Ends |-> <<>>]
    /\ pushing = [e \in Ends |-> <<>>]
    /\ que = [e \in Ends |-> <<>>]
    /\ wire = [e \in Ends |-> <<>>]
    /\ online = [e \in Ends |-> TRUE]
    /\ why = [e \in Ends |-> "none"]
    /\ buf = [e \in Ends |-> <<>>]
    /\ got = [e \in Ends |-> <<>>]
    /\ heart = [e \in Ends |-> Fresh(e)]
    /\ net \in Networks
    /\ drift = 0
    /\ part = [e \in Ends |-> 0]
    /\ split = [e \in Ends |-> {}]

-----------------------------------------------------------------------------
(* The application's thread                                                *)

\* TCPClient::send, TCPServer::send: the packet is cut, nothing pushed yet
SendCall(e) ==
    /\ Len(sent[e]) < Sends[e] /\ net # "dead"     \* (two bounds)
    /\ pushing[e] = <<>>
    /\ \E size \in Sizes :
        /\ sent' = [sent EXCEPT ![e] = Append(@, size)]
        /\ pushing' = [pushing EXCEPT ![e] = Cells(Message(Len(sent[e]) + 1, size))]
    /\ UNCHANGED <<que, wire, online, why, buf, got, heart, net, drift, part, split>>

\* pushOperation of the next chunk
PushChunk(e) ==
    /\ pushing[e] # <<>>
    /\ que' = [que EXCEPT ![e] = @ \o Chunk(pushing[e])]
    /\ pushing' = [pushing EXCEPT ![e] = AfterChunk(@)]
    /\ UNCHANGED <<sent, wire, online, why, buf, got, heart, net, drift, part, split>>

-----------------------------------------------------------------------------
(* The loop thread                                                         *)

\* executeOperation: everything queued is written, or dropped when off line
Drain(e) ==
    /\ que[e] # <<>>
    /\ que' = [que EXCEPT ![e] = <<>>]
    /\ IF online[e]
       THEN /\ Write(e, que[e])
            /\ part' = [part EXCEPT ![e] = PartOf(que[e])]
       ELSE UNCHANGED <<wire, part>>
    /\ UNCHANGED <<sent, pushing, online, why, buf, got, heart, net, drift, split>>

\* uv_on_after_read: a read of n cells.  libuv reads again after a read that
\* filled the buffer, and reports a socket it finds empty as a read of 0
\* cells, which the code takes for the end of the stream
EndsInZeroRead(e, n) == n = ReadMax /\ Len(wire[Peer(e)]) = n

Read(e) ==
    /\ online[e] /\ net # "dead"
    /\ \E n \in 1 .. ReadMax :
        /\ n <= Len(wire[Peer(e)])
        /\ LET data == SubSeq(wire[Peer(e)], 1, n)
               s == RecvLoop(buf[e] \o data, data)
           IN /\ got' = [got EXCEPT ![e] = @ \o s.got]
              /\ wire' = [wire EXCEPT ![Peer(e)] = SubSeq(@, n + 1, Len(@)),
                                      ![e] = @ \o s.written]
              /\ IF s.written = <<>> THEN UNCHANGED split ELSE NotesSplit(e)
              /\ IF s.bad THEN GoOffline(e, "data")
                 ELSE IF EndsInZeroRead(e, n) THEN GoOffline(e, "zero")
                 ELSE /\ buf' = [buf EXCEPT ![e] = s.buf]
                      /\ heart' = [heart EXCEPT ![e] = Fresh(e)]
                      /\ UNCHANGED <<online, why>>
    /\ UNCHANGED <<sent, pushing, que, net, drift, part>>

\* uv_on_after_read of the end of the stream, or of its reset: the cells not
\* read yet may be lost
ReadEnd(e) ==
    /\ online[e] /\ net # "dead"
    /\ ~online[Peer(e)]
    /\ GoOffline(e, "closed")
    /\ UNCHANGED <<sent, pushing, que, wire, got, net, drift, part, split>>

\* a tick may come: on a prompt network everything is done before it, and the
\* two timers keep step up to MaxDrift
TickAllowed(e, ahead) ==
    CASE net = "prompt" ->
            /\ \A f \in Ends : /\ pushing[f] = <<>> /\ que[f] = <<>>
                               /\ online[f] /\ wire[f] = <<>>
            /\ ahead \in -MaxDrift .. MaxDrift
      [] net = "slow" -> \A f \in Ends : Len(wire[f]) <= MaxWire
      [] net = "dead" -> TRUE

Ahead(e) == IF net # "prompt" THEN 0 ELSE IF e = "client" THEN drift + 1 ELSE drift - 1

\* TCPSession::update.  A tick that only counts the time is told apart on a
\* prompt network alone: on another any number of them may come (a bound)
CheckDue(e) == net # "prompt" \/ heart[e].time + 1 >= TicksPerCheck
NoCheck(e) ==
    /\ ~CheckDue(e)
    /\ heart' = [heart EXCEPT ![e].time = @ + 1]
    /\ UNCHANGED <<wire, online, why, buf, split>>
Counted(e) ==
    /\ CheckDue(e)
    /\ heart[e].count + 1 <= 0
    /\ heart' = [heart EXCEPT ![e] = [time |-> 0, count |-> @.count + 1]]
    /\ UNCHANGED <<wire, online, why, buf, split>>
\* (a faulty variant: sending a probe starts the count again)
ProbeForgets(e) ==
    /\ CheckDue(e)
    /\ heart[e].count + 1 \in 1 .. MaxCount
    /\ heart' = [heart EXCEPT ![e] = Fresh(e)]
    /\ Write(e, Cells(Heartbeat("probe")))
    /\ NotesSplit(e)
    /\ UNCHANGED <<online, why, buf>>
Probe(e) ==
    /\ CheckDue(e)
    /\ heart[e].count + 1 \in 1 .. MaxCount
    /\ heart' = [heart EXCEPT ![e] = [time |-> 0, count |-> @.count + 1]]
    /\ Write(e, Cells(Heartbeat("probe")))
    /\ NotesSplit(e)
    /\ UNCHANGED <<online, why, buf>>
GiveUp(e) ==
    /\ CheckDue(e)
    /\ heart[e].count + 1 > MaxCount
    /\ GoOffline(e, "heart")
    /\ UNCHANGED <<wire, split>>

Tick(e) ==
    /\ online[e]
    /\ TickAllowed(e, Ahead(e))
    /\ drift' = Ahead(e)
    /\ NoCheck(e) \/ Counted(e) \/ Probe(e) \/ GiveUp(e)
    /\ UNCHANGED <<sent, pushing, que, got, net, part>>

-----------------------------------------------------------------------------
(* The network                                                             *)

\* the cable is pulled: neither end is told
Die ==
    /\ net # "dead"
    /\ net' = "dead"
    /\ drift' = 0
    /\ wire' = [e \in Ends |-> <<>>]
    /\ heart' = [e \in Ends |-> [heart[e] EXCEPT !.time = 0]]
    /\ UNCHANGED <<sent, pushing, que, online, why, buf, got, part, split>>

Next ==
    \/ \E e \in Ends : SendCall(e) \/ PushChunk(e) \/ Drain(e) \/ Read(e) \/ ReadEnd(e) \/ Tick(e)
    \/ Die

Spec == Init /\ [][Next]_vars

\* uv_run and its repeating timer go on, whatever the network does
FairSpec == Spec /\ \A e \in Ends : WF_vars(Tick(e))

-----------------------------------------------------------------------------
(* Properties                                                              *)

\* The application gets the messages sent to it, whole, in order and without
\* a gap, however the stream is cut into reads and whatever is written into
\* it: TCPSession.cpp:130-225 gives nothing else on.
InOrder == \A e \in Ends : IsPrefix(got[e], [n \in 1 .. Len(sent[Peer(e)]) |-> n])

\* An end drops a connection for its data only when a heartbeat went into the
\* middle of a message in chunks or when a message was within the limit of
\* send() and above that of the receiver; and for the other's silence only when
\* the network was not prompt.
TooLong(e) == \E n \in DOMAIN sent[e] : sent[e][n] + HashLen > MaxLen
DropExplained ==
    \A e \in Ends :
        /\ why[e] = "data" => split[Peer(e)] # {} \/ TooLong(Peer(e))
        /\ why[e] = "heart" => net # "prompt"

\* While the applications send nothing, on a prompt network and with timers
\* that keep step, it is the client that probes, once, and the server that
\* answers (TCPConfig.h:51-53).
ClientProbes ==
    net = "prompt" /\ (\A e \in Ends : sent[e] = <<>>) =>
        /\ heart["server"].count <= 0
        /\ heart["client"].count <= 1

\* Once nothing arrives any more, both ends notice and drop the connection.
SilentPeerDropped == net = "dead" ~> \A e \in Ends : ~online[e]

\* A message within the limits never costs the connection
\* (TCPConfig.h:20-22: a longer one is sent in chunks).
DataAccepted ==
    \A e \in Ends : why[e] = "data" => TooLong(Peer(e))
=============================================================================
