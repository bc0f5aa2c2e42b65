------------------------------ MODULE TCPClient ------------------------------
(***************************************************************************)
(* The session life cycle of TCPClient (tcp/TCPClient.cpp, on top of       *)
(* tcp/TCPSession.cpp, tcp/TCPSocket.cpp, base/Runnable.cpp and            *)
(* base/SessionManager.cpp).                                               *)
(*                                                                         *)
(* Two threads share the object.  The application's thread calls the API   *)
(* and polls updateFrame(); the loop thread runs libuv callbacks.  They    *)
(* talk through two mutex-protected queues: m_operationQue (application to *)
(* loop) and m_msgQue (loop to application).  Each side moves a whole      *)
(* queue into a private dispatch queue and works that off, so a batch is   *)
(* interleaved with the other thread's steps but with no other callback of *)
(* its own thread.                                                         *)
(*                                                                         *)
(* Addresses, payloads and times are abstracted away: a timer may fire     *)
(* whenever it is armed.                                                   *)
(***************************************************************************)
EXTENDS Integers, Sequences, FiniteSets, SequencesExt, TCPSession

CONSTANTS
    SessionIDs,   \* the session ids the application uses
    NoSession,    \* pSession == NULL, carried by EXIT_LOOP
    Calls,        \* the API calls the application makes
    Outcomes,     \* how the kernel may end a connection attempt
    MaxConnects,  \* bound on connect() calls
    MaxOps,       \* an application with this many operations queued waits
    MaxMsgs       \* a peer or a timer waits while this many messages are queued

ApiCalls == {"connect", "disconnect", "removeSession", "send", "setAutoReconnect",
             "setAutoReconnectBySessionID", "closeClient", "delete"}

ASSUME SessionAssumption == NoSession \notin SessionIDs /\ IsFiniteSet(SessionIDs)
ASSUME CallsAssumption == Calls \subseteq ApiCalls
ASSUME OutcomesAssumption == Outcomes \subseteq {"connected", "refused", "timedout"}
ASSUME BoundsAssumption == MaxConnects \in Nat /\ MaxOps \in Nat /\ MaxMsgs \in Nat

VARIABLES
    (* the application's thread *)
    m_isStop,                \* closeClient() was called
    m_reconnect,             \* automatic reconnection for new sessions
    m_msgDispatchQue,        \* messages updateFrame() is working off
    closeClientTag,          \* updateFrame() has met EXIT_LOOP in this batch
    app,                     \* "polling", "joining" in ~TCPClient, or "gone"
    connects,                \* connect() calls made so far
    told,                    \* per session id, the last callback the application got
    closed,                  \* m_clientCloseCall was invoked
    (* shared under a mutex *)
    m_operationQue,
    m_msgQue,
    (* the loop thread *)
    m_operationDispatchQue,  \* operations executeOperation() is working off
    m_clientStage,
    loop,                    \* "running", "stopped" by uv_stop, "returned" from uv_run, or "exited"
    m_allSessionMap

appVars  == <<m_isStop, m_reconnect, m_msgDispatchQue, closeClientTag, app, connects, told, closed>>
loopVars == <<m_operationDispatchQue, m_clientStage, loop, m_allSessionMap>>
vars     == <<appVars, m_operationQue, m_msgQue, loopVars>>

-----------------------------------------------------------------------------
(* Data.                                                                   *)

ConnectState == {"CONNECT", "CONNECTING", "DISCONNECTING", "DISCONNECT"}
ClientStage  == {"START", "CLEAR_SESSION", "WAIT_EXIT", "STOP"}

(* What m_tcp of a session's TCPSocket is: NULL; a handle with a connect   *)
(* request in the kernel; one whose request ended and whose callback is    *)
(* due; one left over from a failed attempt; or one being read.            *)
TcpHandle == {"null", "connecting", "connected", "refused", "timedout", "idle", "open"}

(* An entry of m_allSessionMap with its session and its socket.  "closing" *)
(* is a uv_close whose callback has not run; "incarnation" tells the       *)
(* objects apart that have lived under one id, as their addresses do.      *)
clientSessionData ==
    [inMap : BOOLEAN, connectState : ConnectState, removeTag : BOOLEAN,
     reconnect : BOOLEAN, isOnline : BOOLEAN, tcp : TcpHandle, closing : BOOLEAN,
     incarnation : Nat]

NoEntry(n) ==
    [inMap |-> FALSE, connectState |-> "DISCONNECT", removeTag |-> FALSE,
     reconnect |-> FALSE, isOnline |-> FALSE, tcp |-> "null", closing |-> FALSE,
     incarnation |-> n]

OperationType == {"CONNECT", "SENDDATA", "DISCONNECT", "SET_AUTO_CONNECT",
                  "CLIENT_CLOSE", "REMOVE_SESSION", "DELETE_SESSION"}

(* sessionID NoSession stands for the -1 of setAutoReconnect(): all sessions *)
SessionOperation ==
    {op \in [type : OperationType, sessionID : SessionIDs \cup {NoSession}, isAuto : BOOLEAN] :
        op.sessionID = NoSession => op.type \in {"SET_AUTO_CONNECT", "CLIENT_CLOSE"}}
Op(type, s)     == [type |-> type, sessionID |-> s, isAuto |-> FALSE]
AutoOp(s, auto) == [type |-> "SET_AUTO_CONNECT", sessionID |-> s, isAuto |-> auto]

NetThreadMsgType == {"CONNECT", "CONNECT_FAIL", "CONNECT_TIMOUT", "RECV_DATA",
                     "DIS_CONNECT", "REMOVE_SESSION", "EXIT_LOOP"}

(* A message carries a Session pointer: the id and the incarnation.        *)
NetThreadMsg ==
    {m \in [type : NetThreadMsgType, sessionID : SessionIDs \cup {NoSession}, incarnation : Nat] :
        m.sessionID = NoSession <=> m.type = "EXIT_LOOP"}
Msg(type, s, data) == [type |-> type, sessionID |-> s, incarnation |-> data.incarnation]
ExitLoop           == [type |-> "EXIT_LOOP", sessionID |-> NoSession, incarnation |-> 0]

-----------------------------------------------------------------------------
(* Faulty variants of the definitions below, one slip each.  No action     *)
(* uses them; PROJECT.json says which property each one breaks.            *)

AnnounceAgain(data)       == data.connectState = "DISCONNECT"
AnnounceEarly(data)       == data.connectState # "CONNECT" /\ ~data.removeTag
RemoveBeforeClose(s, data) ==
    (IF data.removeTag THEN <<Msg("REMOVE_SESSION", s, data)>> ELSE <<>>)
       \o <<Msg("DIS_CONNECT", s, data)>>
RemoveInstead(s, data)    ==
    <<Msg(IF data.removeTag THEN "REMOVE_SESSION" ELSE "DIS_CONNECT", s, data)>>
CloseOnly(s, data)        == <<Msg("DIS_CONNECT", s, data)>>
ForgetClosed(data)        == IF data.removeTag THEN NoEntry(data.incarnation) ELSE data
NobodyToRemove            == {}
NotDeleted(data)          == data
ExitBeforeEnd ==
    /\ loop = "running" /\ m_clientStage # "START"
    /\ m_msgQue' = Append(m_msgQue, ExitLoop)
    /\ UNCHANGED <<appVars, m_operationQue, loopVars>>

-----------------------------------------------------------------------------
(* What happens to an entry beyond what TCPSession does to it.             *)

(* TCPSocket::connect: an old handle is used again *)
Connecting(data) == [data EXCEPT !.connectState = "CONNECTING", !.tcp = "connecting"]

(* uv_on_after_connect compares libuv's status, the negated errno, with    *)
(* ETIMEDOUT itself.                                                       *)
ETIMEDOUT    == 110
ECONNREFUSED == 111
UvStatus(outcome) ==
    CASE outcome = "connected" -> 0
      [] outcome = "refused"   -> -ECONNREFUSED
      [] outcome = "timedout"  -> -ETIMEDOUT
ConnectStatus(uvStatus) ==
    IF uvStatus = 0 THEN 1 ELSE IF uvStatus = ETIMEDOUT THEN 2 ELSE 0
ConnectMsg(status) ==
    CASE status = 0 -> "CONNECT_FAIL" [] status = 1 -> "CONNECT" [] status = 2 -> "CONNECT_TIMOUT"

(* onSessionClose: the entry ... *)
Closed(data) == [OnSocketClose(data) EXCEPT !.connectState = "DISCONNECT"]

(* ... and the messages *)
CloseMsgs(s, data) ==
    <<Msg("DIS_CONNECT", s, data)>>
       \o IF data.removeTag THEN <<Msg("REMOVE_SESSION", s, data)>> ELSE <<>>

(* A removal is announced at once when there is nothing to disconnect. *)
AnnounceNow(data) == data.connectState = "DISCONNECT" /\ ~data.removeTag

-----------------------------------------------------------------------------
Init ==
    /\ m_isStop = FALSE
    /\ m_reconnect = TRUE
    /\ m_msgDispatchQue = <<>>
    /\ closeClientTag = FALSE
    /\ app = "polling"
    /\ connects = 0
    /\ told = [s \in SessionIDs |-> "none"]
    /\ closed = FALSE
    /\ m_operationQue = <<>>
    /\ m_msgQue = <<>>
    /\ m_operationDispatchQue = <<>>
    /\ m_clientStage = "START"
    /\ loop = "running"
    /\ m_allSessionMap = [s \in SessionIDs |-> NoEntry(0)]

-----------------------------------------------------------------------------
(* The application's thread.  It may call the API between two callbacks,   *)
(* or from inside one.                                                     *)

PushOperation(op) == m_operationQue' = Append(m_operationQue, op)

(* if (m_isStop) return; *)
Accepting == ~m_isStop

Call(name, op) ==
    /\ app = "polling" /\ name \in Calls
    /\ Len(m_operationQue) < MaxOps
    /\ PushOperation(op)
    /\ UNCHANGED <<m_msgDispatchQue, closeClientTag, app, told, closed, m_msgQue, loopVars>>

Connect(s) ==
    /\ Accepting /\ connects < MaxConnects
    /\ Call("connect", Op("CONNECT", s))
    /\ connects' = connects + 1
    /\ UNCHANGED <<m_isStop, m_reconnect>>

Disconnect(s) ==
    /\ Accepting
    /\ Call("disconnect", Op("DISCONNECT", s))
    /\ UNCHANGED <<m_isStop, m_reconnect, connects>>

(* The one session call that does not ask m_isStop. *)
RemoveSession(s) ==
    /\ Call("removeSession", Op("REMOVE_SESSION", s))
    /\ UNCHANGED <<m_isStop, m_reconnect, connects>>

Send(s) ==
    /\ Accepting
    /\ Call("send", Op("SENDDATA", s))
    /\ UNCHANGED <<m_isStop, m_reconnect, connects>>

SetAutoReconnect(auto) ==
    /\ Accepting
    /\ Call("setAutoReconnect", AutoOp(NoSession, auto))
    /\ m_reconnect' = auto
    /\ UNCHANGED <<m_isStop, connects>>

SetAutoReconnectBySessionID(s, auto) ==
    /\ Accepting
    /\ Call("setAutoReconnectBySessionID", AutoOp(s, auto))
    /\ UNCHANGED <<m_isStop, m_reconnect, connects>>

CloseClient ==
    /\ app = "polling" /\ "closeClient" \in Calls /\ Accepting
    /\ m_isStop' = TRUE
    /\ PushOperation(Op("CLIENT_CLOSE", NoSession))
    /\ UNCHANGED <<m_reconnect, m_msgDispatchQue, closeClientTag, app, connects, told, closed,
                   m_msgQue, loopVars>>

(* ~TCPClient: closeClient(), then join() without polling. *)
Delete ==
    /\ app = "polling" /\ "delete" \in Calls /\ m_msgDispatchQue = <<>> /\ ~closeClientTag
    /\ app' = "joining"
    /\ m_isStop' = TRUE
    /\ IF Accepting THEN PushOperation(Op("CLIENT_CLOSE", NoSession)) ELSE UNCHANGED m_operationQue
    /\ UNCHANGED <<m_reconnect, m_msgDispatchQue, closeClientTag, connects, told, closed,
                   m_msgQue, loopVars>>

(* join() returns and clearData() frees what is left. *)
DeleteReturns ==
    /\ app = "joining" /\ loop = "exited"
    /\ app' = "gone"
    /\ m_allSessionMap' = [s \in SessionIDs |-> NoEntry(m_allSessionMap[s].incarnation)]
    /\ m_operationQue' = <<>> /\ m_msgQue' = <<>>
    /\ UNCHANGED <<m_isStop, m_reconnect, m_msgDispatchQue, closeClientTag, connects, told, closed,
                   m_operationDispatchQue, m_clientStage, loop>>

(* updateFrame(): getThreadMsg() ... *)
GetThreadMsg ==
    /\ app = "polling" /\ m_msgDispatchQue = <<>> /\ ~closeClientTag
    /\ m_msgQue # <<>>
    /\ m_msgDispatchQue' = m_msgQue
    /\ m_msgQue' = <<>>
    /\ UNCHANGED <<m_isStop, m_reconnect, closeClientTag, app, connects, told, closed,
                   m_operationQue, loopVars>>

Told(type) ==
    CASE type = "CONNECT"                            -> "up"
      [] type \in {"CONNECT_FAIL", "CONNECT_TIMOUT"} -> "failed"
      [] type = "RECV_DATA"                          -> "talking"
      [] type = "DIS_CONNECT"                        -> "down"
      [] type = "REMOVE_SESSION"                     -> "removed"

(* ... one turn of its loop: the callback, and for REMOVE_SESSION the      *)
(* operation that will free the session ...                                *)
DispatchMsg ==
    /\ app = "polling" /\ m_msgDispatchQue # <<>>
    /\ LET m == Head(m_msgDispatchQue)
       IN  /\ told' = IF m.type = "EXIT_LOOP" THEN told
                      ELSE [told EXCEPT ![m.sessionID] = Told(m.type)]
           /\ closeClientTag' = (closeClientTag \/ m.type = "EXIT_LOOP")
           /\ IF m.type = "REMOVE_SESSION"
              THEN PushOperation(Op("DELETE_SESSION", m.sessionID))
              ELSE UNCHANGED m_operationQue
    /\ m_msgDispatchQue' = Tail(m_msgDispatchQue)
    /\ UNCHANGED <<m_isStop, m_reconnect, app, connects, closed, m_msgQue, loopVars>>

(* ... and its end, when the batch held EXIT_LOOP. *)
ClientCloseCall ==
    /\ app = "polling" /\ m_msgDispatchQue = <<>> /\ closeClientTag
    /\ closeClientTag' = FALSE
    /\ closed' = TRUE
    /\ UNCHANGED <<m_isStop, m_reconnect, m_msgDispatchQue, app, connects, told,
                   m_operationQue, m_msgQue, loopVars>>

-----------------------------------------------------------------------------
(* The loop thread: executeOperation(), called from the idle callback.     *)

LoopFree == loop = "running" /\ m_operationDispatchQue = <<>>

TakeOperations ==
    /\ LoopFree
    /\ m_operationQue # <<>>
    /\ m_operationDispatchQue' = m_operationQue
    /\ m_operationQue' = <<>>
    /\ UNCHANGED <<appVars, m_msgQue, m_clientStage, loop, m_allSessionMap>>

curOperation == Head(m_operationDispatchQue)
Target       == m_allSessionMap[curOperation.sessionID]

(* One turn of its loop, for an operation of this type. *)
Executing(type) ==
    /\ loop = "running"
    /\ m_operationDispatchQue # <<>> /\ curOperation.type = type
    /\ m_operationDispatchQue' = Tail(m_operationDispatchQue)
    /\ UNCHANGED <<appVars, m_operationQue, loop>>

(* ... that turns its session's entry into data, and says this. *)
Executed(data, msgs) ==
    /\ m_allSessionMap' = [m_allSessionMap EXCEPT ![curOperation.sessionID] = data]
    /\ m_msgQue' = m_msgQue \o msgs
    /\ UNCHANGED m_clientStage

TargetMsg(type, data) == <<Msg(type, curOperation.sessionID, data)>>

ExecuteSendData ==
    /\ Executing("SENDDATA")
    /\ \E wrote \in BOOLEAN :
          Executed(IF Target.inMap /\ ~Target.removeTag THEN ExecuteSend(Target, wrote) ELSE Target,
                   <<>>)

ExecuteDisconnectOp ==
    /\ Executing("DISCONNECT")
    /\ Executed(IF Target.inMap /\ Target.connectState = "CONNECT"
                THEN ExecuteDisconnect([Target EXCEPT !.connectState = "DISCONNECTING"])
                ELSE Target, <<>>)

(* createNewConnect; started is what TCPSocket::connect answers *)
NewSession ==
    [NoEntry(Target.incarnation + 1) EXCEPT !.inMap = TRUE, !.reconnect = m_reconnect]

StartConnect(data, started) ==
    IF started THEN Executed(Connecting(data), <<>>)
               ELSE Executed(ExecuteDisconnect(data), TargetMsg("CONNECT_FAIL", data))

CreateNewConnect ==
    /\ Executing("CONNECT")
    /\ \E started \in BOOLEAN :
          IF ~Target.inMap THEN StartConnect(NewSession, started)
          ELSE IF AnnounceNow(Target) THEN StartConnect(Target, started)
          ELSE Executed(Target, <<>>)

ExecuteSetAutoConnect ==
    /\ Executing("SET_AUTO_CONNECT")
    /\ m_allSessionMap' =
          [s \in SessionIDs |->
              IF m_allSessionMap[s].inMap /\ curOperation.sessionID \in {s, NoSession}
              THEN [m_allSessionMap[s] EXCEPT !.reconnect = curOperation.isAuto]
              ELSE m_allSessionMap[s]]
    /\ UNCHANGED <<m_msgQue, m_clientStage>>

ExecuteClientClose ==
    /\ Executing("CLIENT_CLOSE")
    /\ m_clientStage' = "CLEAR_SESSION"
    /\ UNCHANGED <<m_msgQue, m_allSessionMap>>

ExecuteRemoveSession ==
    /\ Executing("REMOVE_SESSION")
    /\ IF Target.inMap /\ AnnounceNow(Target)
       THEN Executed([Target EXCEPT !.removeTag = TRUE], TargetMsg("REMOVE_SESSION", Target))
       ELSE Executed(IF Target.inMap /\ Target.connectState # "DISCONNECT"
                     THEN ExecuteDisconnect([Target EXCEPT !.removeTag = TRUE]) ELSE Target, <<>>)

Deleted(data) ==
    IF data.inMap /\ data.removeTag THEN NoEntry(data.incarnation) ELSE data

ExecuteDeleteSession ==
    Executing("DELETE_SESSION") /\ Executed(Deleted(Target), <<>>)

-----------------------------------------------------------------------------
(* The loop thread's other callbacks.  One about a session turns its entry *)
(* into data, and says this.                                               *)

Callback(s, data, msgs) ==
    /\ LoopFree
    /\ m_allSessionMap' = [m_allSessionMap EXCEPT ![s] = data]
    /\ m_msgQue' = m_msgQue \o msgs
    /\ UNCHANGED <<appVars, m_operationQue, m_operationDispatchQue, m_clientStage, loop>>

(* onClientUpdate in START: the reconnection timer of a session.  When the *)
(* attempt cannot even be started nothing changes.                         *)
Reconnect(s) ==
    LET data == m_allSessionMap[s]
    IN  /\ m_clientStage = "START"
        /\ data.inMap /\ AnnounceNow(data) /\ data.reconnect
        /\ Len(m_msgQue) < MaxMsgs
        /\ Callback(s, Connecting(data), <<>>)

(* onClientUpdate in CLEAR_SESSION.  Session ids are not ordered here, so   *)
(* the map may be walked in any order.                                      *)
ToClose  == {s \in SessionIDs : m_allSessionMap[s].inMap /\ m_allSessionMap[s].connectState = "CONNECT"}
ToRemove == {s \in SessionIDs : m_allSessionMap[s].inMap /\ AnnounceNow(m_allSessionMap[s])}

ClearSessions ==
    /\ LoopFree /\ m_clientStage = "CLEAR_SESSION"
    /\ m_allSessionMap' =
          [s \in SessionIDs |->
              LET data == m_allSessionMap[s]
              IN  IF s \in ToClose THEN ExecuteDisconnect([data EXCEPT !.removeTag = TRUE])
                  ELSE IF s \in ToRemove THEN [data EXCEPT !.removeTag = TRUE]
                  ELSE data]
    /\ \E order \in SetToSeqs(ToRemove) :
          m_msgQue' = m_msgQue \o [i \in DOMAIN order |->
                                     Msg("REMOVE_SESSION", order[i], m_allSessionMap[order[i]])]
    /\ m_clientStage' = IF \E s \in SessionIDs : m_allSessionMap[s].inMap
                        THEN "CLEAR_SESSION" ELSE "WAIT_EXIT"
    /\ UNCHANGED <<appVars, m_operationQue, m_operationDispatchQue, loop>>

(* onClientUpdate in WAIT_EXIT *)
WaitExit ==
    /\ LoopFree /\ m_clientStage = "WAIT_EXIT"
    /\ loop' = "stopped"
    /\ UNCHANGED <<appVars, m_operationQue, m_msgQue, m_operationDispatchQue, m_clientStage,
                   m_allSessionMap>>

(* TCPSession::update by the heartbeat timer, which CLIENT_CLOSE stops: no  *)
(* answer for too long, or the heartbeat could not be written               *)
HeartbeatLost(s) ==
    /\ m_clientStage = "START" /\ m_allSessionMap[s].isOnline
    /\ Callback(s, ExecuteDisconnect(m_allSessionMap[s]), <<>>)

(* The kernel ends a connection attempt. *)
KernelConnect(s, outcome) ==
    /\ m_allSessionMap[s].tcp = "connecting"
    /\ m_allSessionMap' = [m_allSessionMap EXCEPT ![s].tcp = outcome]
    /\ UNCHANGED <<appVars, m_operationQue, m_msgQue, m_operationDispatchQue, m_clientStage, loop>>

(* uv_on_after_connect, then TCPClient::onSocketConnect *)
OnSocketConnect(s, readStarted) ==
    LET data   == m_allSessionMap[s]
        status == IF data.tcp = "connected" /\ ~readStarted
                  THEN 0 ELSE ConnectStatus(UvStatus(data.tcp))
        isSuc  == status = 1
        unwanted == isSuc /\ (m_clientStage # "START" \/ data.removeTag)
        after  == [data EXCEPT !.tcp = IF isSuc THEN "open" ELSE "idle", !.isOnline = isSuc,
                               !.connectState = IF isSuc THEN "CONNECT" ELSE "DISCONNECT"]
    IN  /\ data.tcp \in {"connected", "refused", "timedout"}
        /\ IF unwanted THEN Callback(s, ExecuteDisconnect(after), <<>>)
                       ELSE Callback(s, after, <<Msg(ConnectMsg(status), s, data)>>)

Reading(s) == m_allSessionMap[s].tcp = "open"

(* uv_on_after_read with data that makes a message *)
OnSessionRecvData(s) ==
    /\ Reading(s) /\ m_allSessionMap[s].isOnline
    /\ Len(m_msgQue) < MaxMsgs
    /\ Callback(s, m_allSessionMap[s], <<Msg("RECV_DATA", s, m_allSessionMap[s])>>)

(* ... with data that does not: TCPSession::on_socket_recv disconnects, as  *)
(* it does when the answer to a heartbeat cannot be written                 *)
OnIllegalData(s) ==
    /\ Reading(s) /\ m_allSessionMap[s].isOnline
    /\ Callback(s, ExecuteDisconnect(m_allSessionMap[s]), <<>>)

(* ... with an illegal heartbeat: Session::disconnect is the API call, made *)
(* on the loop thread                                                       *)
OnIllegalHeart(s) ==
    /\ LoopFree
    /\ Reading(s) /\ m_allSessionMap[s].isOnline
    /\ Accepting /\ Len(m_operationQue) < MaxOps
    /\ PushOperation(Op("DISCONNECT", s))
    /\ UNCHANGED <<appVars, m_msgQue, loopVars>>

(* uv_on_after_read at the end of the stream: the socket closes itself, the *)
(* session stays online until the callback of the close                     *)
OnEof(s) ==
    /\ Reading(s)
    /\ Callback(s, SocketDisconnect(m_allSessionMap[s]), <<>>)

OnSessionClose(s) ==
    /\ m_allSessionMap[s].closing
    /\ Callback(s, Closed(m_allSessionMap[s]), CloseMsgs(s, m_allSessionMap[s]))

(* run(): the loop has ended, the stage says so before the message does *)
RunReturns ==
    /\ loop = "stopped"
    /\ loop' = "returned"
    /\ m_clientStage' = "STOP"
    /\ UNCHANGED <<appVars, m_operationQue, m_msgQue, m_operationDispatchQue, m_allSessionMap>>

PushExitLoop ==
    /\ loop = "returned"
    /\ loop' = "exited"
    /\ m_msgQue' = Append(m_msgQue, ExitLoop)
    /\ UNCHANGED <<appVars, m_operationQue, m_operationDispatchQue, m_clientStage, m_allSessionMap>>

-----------------------------------------------------------------------------
ApiCall ==
    \/ \E s \in SessionIDs :
          \/ Connect(s) \/ Disconnect(s) \/ RemoveSession(s) \/ Send(s)
          \/ \E auto \in BOOLEAN : SetAutoReconnectBySessionID(s, auto)
    \/ \E auto \in BOOLEAN : SetAutoReconnect(auto)
    \/ CloseClient \/ Delete

UpdateFrame == GetThreadMsg \/ DispatchMsg \/ ClientCloseCall

ExecuteOperation ==
    \/ TakeOperations
    \/ ExecuteSendData \/ ExecuteDisconnectOp \/ CreateNewConnect \/ ExecuteSetAutoConnect
    \/ ExecuteClientClose \/ ExecuteRemoveSession \/ ExecuteDeleteSession

OnClientUpdate == (\E s \in SessionIDs : Reconnect(s)) \/ ClearSessions \/ WaitExit

Run == RunReturns \/ PushExitLoop

Peer ==
    \E s \in SessionIDs :
       \/ HeartbeatLost(s) \/ OnSessionRecvData(s) \/ OnIllegalData(s) \/ OnIllegalHeart(s)
       \/ OnEof(s)

(* ~TCPClient has returned, or the application keeps a closed client. *)
Finished == (app = "gone" \/ closed) /\ UNCHANGED vars

Next ==
    \/ ApiCall \/ UpdateFrame \/ DeleteReturns
    \/ ExecuteOperation \/ OnClientUpdate \/ Peer \/ Run
    \/ \E s \in SessionIDs :
          \/ \E outcome \in Outcomes : KernelConnect(s, outcome)
          \/ \E readStarted \in BOOLEAN : OnSocketConnect(s, readStarted)
          \/ OnSessionClose(s)
    \/ Finished

Spec == Init /\ [][Next]_vars

(* What the threads' loops justify: the application keeps polling until it  *)
(* deletes the client; the loop thread runs every due callback in each      *)
(* iteration of uv_run, however often operations arrive in between; the     *)
(* kernel ends every attempt.                                               *)
Fairness ==
    /\ WF_vars(UpdateFrame) /\ WF_vars(DeleteReturns)
    /\ WF_vars(ExecuteOperation) /\ WF_vars(Run)
    /\ SF_vars(ClearSessions) /\ SF_vars(WaitExit)
    /\ \A s \in SessionIDs :
          /\ WF_vars(\E outcome \in Outcomes : KernelConnect(s, outcome))
          /\ SF_vars(\E readStarted \in BOOLEAN : OnSocketConnect(s, readStarted))
          /\ SF_vars(OnSessionClose(s))

FairSpec == Spec /\ Fairness

-----------------------------------------------------------------------------
(* Type correctness of the client's state. *)
TypeOK ==
    /\ m_isStop \in BOOLEAN /\ m_reconnect \in BOOLEAN
    /\ m_msgDispatchQue \in Seq(NetThreadMsg)
    /\ closeClientTag \in BOOLEAN
    /\ app \in {"polling", "joining", "gone"}
    /\ connects \in 0..MaxConnects
    /\ told \in [SessionIDs -> {"none", "up", "talking", "failed", "down", "removed"}]
    /\ closed \in BOOLEAN
    /\ m_operationQue \in Seq(SessionOperation)
    /\ m_msgQue \in Seq(NetThreadMsg)
    /\ m_operationDispatchQue \in Seq(SessionOperation)
    /\ m_clientStage \in ClientStage
    /\ loop \in {"running", "stopped", "returned", "exited"}
    /\ m_allSessionMap \in [SessionIDs -> clientSessionData]

(* The message and operation streams, dispatch queue first. *)
Messages   == m_msgDispatchQue \o m_msgQue
Operations == m_operationDispatchQue \o m_operationQue

MsgsOf(s)    == {i \in DOMAIN Messages : Messages[i].sessionID = s}
Removals(s)  == {i \in MsgsOf(s) : Messages[i].type = "REMOVE_SESSION"}
Deletions(s) ==
    {i \in DOMAIN Operations : Operations[i].sessionID = s /\ Operations[i].type = "DELETE_SESSION"}

InMap(s) == m_allSessionMap[s].inMap

(* updateFrame() hands Msg.pSession to the application and reads its id to *)
(* queue DELETE_SESSION: the session of every message still queued is      *)
(* alive, and is the one the message was sent for, whatever the order in   *)
(* which the two threads remove, delete and connect under one id.          *)
NoDanglingMessage ==
    \A i \in DOMAIN Messages :
        LET m == Messages[i]
        IN  m.sessionID # NoSession =>
               InMap(m.sessionID) /\ m.incarnation = m_allSessionMap[m.sessionID].incarnation

(* A session is announced as removed at most once and nothing is said of   *)
(* it afterwards, neither by a message behind the announcement nor while   *)
(* the deletion it led to is queued.                                       *)
RemovedOnceAndLast ==
    \A s \in SessionIDs :
        /\ Cardinality(Removals(s)) + Cardinality(Deletions(s)) <= 1
        /\ \A i \in Removals(s) : \A j \in MsgsOf(s) : j <= i
        /\ Deletions(s) # {} => MsgsOf(s) = {}

(* libuv calls back with the TCPSocket's address: executeOperation() frees *)
(* a session only when no connection attempt, reading or close of its      *)
(* socket is under way.                                                    *)
FreedWhenQuiet ==
    [][\A s \in SessionIDs :
          InMap(s) /\ ~InMap(s)' =>
             ~m_allSessionMap[s].closing /\ m_allSessionMap[s].tcp \in {"null", "idle"}]_vars

(* onClientUpdate leaves the loop with no session left and none to come: a *)
(* CONNECT queued behind CLIENT_CLOSE would be created after the last      *)
(* sweep and never be told to the application.                             *)
NothingAfterSweep ==
    m_clientStage \in {"WAIT_EXIT", "STOP"} =>
        /\ \A s \in SessionIDs : ~InMap(s)
        /\ \A i \in DOMAIN Operations : Operations[i].type # "CONNECT"

(* EXIT_LOOP is the last message ever: m_clientCloseCall, which runs at    *)
(* the end of the batch, is the last callback.                             *)
ExitLoopLast ==
    /\ \A i \in DOMAIN Messages : Messages[i].type = "EXIT_LOOP" => i = Len(Messages)
    /\ closeClientTag \/ closed => Messages = <<>>

(* A removed session that nobody will delete: no announcement and no       *)
(* deletion of it is queued, and no callback is due that would queue one.  *)
Orphan(s) ==
    /\ InMap(s) /\ m_allSessionMap[s].removeTag
    /\ m_allSessionMap[s].connectState = "DISCONNECT"
    /\ Removals(s) = {} /\ Deletions(s) = {}

(* Only one path orphans a session: REMOVE_SESSION arrives while it is     *)
(* CONNECTING, executeDisconnect() does nothing because it is not online,  *)
(* and onSocketConnect then reports the failure of the attempt.            *)
OrphanedByFailedConnect ==
    [][\A s \in SessionIDs :
          ~Orphan(s) /\ Orphan(s)' =>
             /\ m_allSessionMap[s].removeTag
             /\ m_allSessionMap[s].connectState = "CONNECTING"
             /\ m_allSessionMap[s].tcp \in {"connected", "refused", "timedout"}]_vars

(* closeClient() ends with m_clientCloseCall, provided the application     *)
(* keeps polling, without deleting the client, and no session was orphaned. *)
CloseFinishes ==
    m_isStop ~> (closed \/ app # "polling" \/ \E s \in SessionIDs : Orphan(s))

(* A session marked for removal leaves the map, unless it was orphaned or  *)
(* the application stopped polling to delete the client.                   *)
RemoveFinishes ==
    \A s \in SessionIDs :
        (InMap(s) /\ m_allSessionMap[s].removeTag) ~> (~InMap(s) \/ Orphan(s) \/ app # "polling")

(* ~TCPClient joins the loop thread without polling.  It returns when no   *)
(* session is left that only the application's thread could release ...    *)
NeedsPolling(s) == InMap(s) /\ Deletions(s) = {}
MayConnect == \E i \in DOMAIN Operations : Operations[i].type = "CONNECT"
DeleteFinishes ==
    (app = "joining" /\ ~MayConnect /\ \A s \in SessionIDs : ~NeedsPolling(s)) ~> app = "gone"

(* ... and otherwise both threads wait for each other for ever: no step of *)
(* either gets them out.                                                   *)
DeleteDeadlocks ==
    [][app = "joining" /\ (\E s \in SessionIDs : NeedsPolling(s)) =>
          app' = "joining" /\ \E s \in SessionIDs : NeedsPolling(s)']_vars

(* What the application is promised (ClientContract). *)
Contract == INSTANCE ClientContract WITH
    closing <- m_isStop,
    leaving <- {s \in SessionIDs : InMap(s) /\ m_allSessionMap[s].removeTag},
    gone    <- app = "gone"
ContractSpec == Contract!Spec
=============================================================================
