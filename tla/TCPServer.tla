------------------------------ MODULE TCPServer ------------------------------
(***************************************************************************)
(* The session life cycle of TCPServer (tcp/TCPServer.cpp, on top of       *)
(* TCPSession), with the two threads and the two queues of TCPClient:      *)
(* m_operationQue from the application to the loop, m_msgQue back.  A      *)
(* session that closed is announced by DIS_CONNECT and freed only when the *)
(* application's thread has answered that message with an operation.       *)
(*                                                                         *)
(* One run of the server: it is started, may fail to, and is stopped or    *)
(* deleted.  Addresses, payloads and times are abstracted away.            *)
(***************************************************************************)
EXTENDS Integers, Sequences, FiniteSets, TCPSession

CONSTANTS
    NoSession,    \* pSession == NULL, carried by EXIT_LOOP
    Calls,        \* the API calls the application makes
    MaxSessions,  \* bound on accepted connections
    MaxOps,       \* an application with this many operations queued waits
    MaxMsgs       \* a peer waits while this many messages are queued

ASSUME BoundsAssumption ==
    MaxSessions \in Nat /\ MaxOps \in Nat /\ MaxMsgs \in Nat /\ NoSession \notin Nat
ASSUME CallsAssumption == Calls \subseteq {"send", "disconnect", "stopServer", "delete"}

SessionIDs == 0 .. MaxSessions - 1

VARIABLES
    (* the application's thread *)
    m_start,
    m_msgDispatchQue,        \* messages updateFrame() is working off
    closeServerTag,          \* updateFrame() has met EXIT_LOOP in this batch
    app,                     \* "idle", "polling", "joining" in ~TCPServer, or "gone"
    told,                    \* per session id, the last callback the application got
    closed,                  \* m_closeCall was invoked
    (* shared under a mutex *)
    m_operationQue,
    m_msgQue,
    (* the loop thread *)
    m_operationDispatchQue,  \* operations executeOperation() is working off
    m_serverStage,
    idleRun,                 \* onIdleRun() is under way
    loop,                    \* "none", "running", "stopped", "returned" or "exited"
    m_server,                \* the listening socket: "null", "listening" or "closing"
    m_sessionID,             \* id of the next session
    m_allSession

appVars  == <<m_start, m_msgDispatchQue, closeServerTag, app, told, closed>>
loopVars == <<m_operationDispatchQue, idleRun, m_serverStage, loop, m_server, m_sessionID,
              m_allSession>>
vars     == <<appVars, m_operationQue, m_msgQue, loopVars>>

-----------------------------------------------------------------------------
ServerStage == {"RUN", "WAIT_CLOSE_SERVER_SOCKET", "CLEAR", "WAIT_SESSION_CLOSE", "STOP"}

(* An entry of m_allSession with its session and its socket *)
serverSessionData ==
    [inMap : BOOLEAN, isInvalid : BOOLEAN, isOnline : BOOLEAN, tcp : {"null", "open"},
     closing : BOOLEAN]
NoEntry ==
    [inMap |-> FALSE, isInvalid |-> FALSE, isOnline |-> FALSE, tcp |-> "null", closing |-> FALSE]

(* onNewConnect *)
NewEntry == [NoEntry EXCEPT !.inMap = TRUE, !.isOnline = TRUE, !.tcp = "open"]

OperationType == {"STOP_SERVER", "SEND_DATA", "DIS_SESSION", "SEND_DIS_SESSION_MSG_TO_MAIN_THREAD"}
SessionOperation ==
    {op \in [type : OperationType, sessionID : SessionIDs \cup {NoSession}] :
        op.type = "STOP_SERVER" <=> op.sessionID = NoSession}
Op(type, s) == [type |-> type, sessionID |-> s]

NetThreadMsgType == {"NEW_CONNECT", "RECV_DATA", "DIS_CONNECT", "EXIT_LOOP"}
NetThreadMsg ==
    {m \in [type : NetThreadMsgType, sessionID : SessionIDs \cup {NoSession}] :
        m.type = "EXIT_LOOP" <=> m.sessionID = NoSession}
Msg(type, s) == [type |-> type, sessionID |-> s]
ExitLoop     == Msg("EXIT_LOOP", NoSession)

-----------------------------------------------------------------------------
(* Faulty variants of the definitions below, one slip each, that no action *)
(* uses.                                                                   *)
FreeAtClose(data)  == NoEntry
StopAtOnce         == TRUE
KeepSessions(data) == data
AnnounceTwice(s)   == <<Msg("DIS_CONNECT", s), Msg("DIS_CONNECT", s)>>
LeaveUntold(s)     == <<>>
ExitBeforeEnd ==
    /\ loop = "running" /\ m_serverStage \in {"CLEAR", "WAIT_SESSION_CLOSE"}
    /\ m_msgQue' = Append(m_msgQue, ExitLoop)
    /\ UNCHANGED <<appVars, m_operationQue, loopVars>>

(* The application's answer to DIS_CONNECT *)
Release(s) == Op("SEND_DIS_SESSION_MSG_TO_MAIN_THREAD", s)

(* onSessionClose *)
Closed(data) == [OnSocketClose(data) EXCEPT !.isInvalid = TRUE]
CloseMsgs(s) == <<Msg("DIS_CONNECT", s)>>

-----------------------------------------------------------------------------
Init ==
    /\ m_start = FALSE
    /\ m_msgDispatchQue = <<>>
    /\ closeServerTag = FALSE
    /\ app = "idle"
    /\ told = [s \in SessionIDs |-> "none"]
    /\ closed = FALSE
    /\ m_operationQue = <<>> /\ m_msgQue = <<>> /\ m_operationDispatchQue = <<>>
    /\ m_serverStage = "STOP"
    /\ idleRun = FALSE
    /\ loop = "none"
    /\ m_server = "null"
    /\ m_sessionID = 0
    /\ m_allSession = [s \in SessionIDs |-> NoEntry]

-----------------------------------------------------------------------------
(* The application's thread.                                               *)

PushOperation(op) == m_operationQue' = Append(m_operationQue, op)

(* startServer; when bind or listen fails, startFailureLogic leaves the    *)
(* server as it was                                                        *)
StartServer ==
    /\ app = "idle" /\ m_serverStage = "STOP" /\ ~m_start
    /\ m_start' = TRUE /\ app' = "polling"
    /\ m_serverStage' = "RUN" /\ loop' = "running" /\ m_server' = "listening"
    /\ UNCHANGED <<m_msgDispatchQue, closeServerTag, told, closed, m_operationQue, m_msgQue,
                   m_operationDispatchQue, idleRun, m_sessionID, m_allSession>>

StopServer ==
    /\ app = "polling" /\ "stopServer" \in Calls
    /\ m_start
    /\ m_start' = FALSE
    /\ PushOperation(Op("STOP_SERVER", NoSession))
    /\ UNCHANGED <<m_msgDispatchQue, closeServerTag, app, told, closed, m_msgQue, loopVars>>

(* send and disconnect ask nothing, not even m_start.                      *)
Send(s) ==
    /\ app = "polling" /\ "send" \in Calls /\ Len(m_operationQue) < MaxOps
    /\ PushOperation(Op("SEND_DATA", s))
    /\ UNCHANGED <<appVars, m_msgQue, loopVars>>

Disconnect(s) ==
    /\ app = "polling" /\ "disconnect" \in Calls /\ Len(m_operationQue) < MaxOps
    /\ PushOperation(Op("DIS_SESSION", s))
    /\ UNCHANGED <<appVars, m_msgQue, loopVars>>

(* ~TCPServer: stopServer(), then join() without polling. *)
Delete ==
    /\ app = "polling" /\ "delete" \in Calls /\ m_msgDispatchQue = <<>> /\ ~closeServerTag
    /\ app' = "joining"
    /\ m_start' = FALSE
    /\ IF m_start THEN PushOperation(Op("STOP_SERVER", NoSession)) ELSE UNCHANGED m_operationQue
    /\ UNCHANGED <<m_msgDispatchQue, closeServerTag, told, closed, m_msgQue, loopVars>>

(* join() returns; clearData() empties the queues. *)
DeleteReturns ==
    /\ app = "joining" /\ loop = "exited"
    /\ app' = "gone"
    /\ m_operationQue' = <<>> /\ m_msgQue' = <<>>
    /\ UNCHANGED <<m_start, m_msgDispatchQue, closeServerTag, told, closed, loopVars>>

(* updateFrame() *)
GetThreadMsg ==
    /\ app = "polling" /\ m_msgDispatchQue = <<>> /\ ~closeServerTag
    /\ m_msgQue # <<>>
    /\ m_msgDispatchQue' = m_msgQue
    /\ m_msgQue' = <<>>
    /\ UNCHANGED <<m_start, closeServerTag, app, told, closed, m_operationQue, loopVars>>

Told(type) ==
    CASE type = "NEW_CONNECT" -> "new"
      [] type = "RECV_DATA"   -> "talking"
      [] type = "DIS_CONNECT" -> "left"

DispatchMsg ==
    /\ app = "polling" /\ m_msgDispatchQue # <<>>
    /\ LET m == Head(m_msgDispatchQue)
       IN  /\ told' = IF m.type = "EXIT_LOOP" THEN told
                      ELSE [told EXCEPT ![m.sessionID] = Told(m.type)]
           /\ closeServerTag' = (closeServerTag \/ m.type = "EXIT_LOOP")
           /\ IF m.type = "DIS_CONNECT"
              THEN PushOperation(Release(m.sessionID))
              ELSE UNCHANGED m_operationQue
    /\ m_msgDispatchQue' = Tail(m_msgDispatchQue)
    /\ UNCHANGED <<m_start, app, closed, m_msgQue, loopVars>>

CloseCall ==
    /\ app = "polling" /\ m_msgDispatchQue = <<>> /\ closeServerTag
    /\ closeServerTag' = FALSE
    /\ closed' = TRUE
    /\ UNCHANGED <<m_start, m_msgDispatchQue, app, told, m_operationQue, m_msgQue, loopVars>>

-----------------------------------------------------------------------------
(* The loop thread: onIdleRun().                                           *)

LoopFree == loop = "running" /\ ~idleRun

(* executeOperation() takes the queue ... *)
TakeOperations ==
    /\ LoopFree
    /\ m_operationQue # <<>> \/ m_serverStage \in {"CLEAR", "WAIT_SESSION_CLOSE"}
    /\ idleRun' = TRUE
    /\ m_operationDispatchQue' = m_operationQue
    /\ m_operationQue' = <<>>
    /\ UNCHANGED <<appVars, m_msgQue, m_serverStage, loop, m_server, m_sessionID, m_allSession>>

curOperation == Head(m_operationDispatchQue)
Target       == m_allSession[curOperation.sessionID]

(* ... runs an operation of this type ... *)
Executing(type) ==
    /\ idleRun
    /\ m_operationDispatchQue # <<>> /\ curOperation.type = type
    /\ m_operationDispatchQue' = Tail(m_operationDispatchQue)
    /\ UNCHANGED <<appVars, m_operationQue, m_msgQue, idleRun, loop, m_sessionID>>

(* ... which turns its session's entry into data ... *)
Executed(data) ==
    /\ m_allSession' = [m_allSession EXCEPT ![curOperation.sessionID] = IF @.inMap THEN data ELSE @]
    /\ UNCHANGED <<m_serverStage, m_server>>

ExecuteSendData ==
    Executing("SEND_DATA") /\ \E wrote \in BOOLEAN : Executed(ExecuteSend(Target, wrote))

ExecuteDisSession == Executing("DIS_SESSION") /\ Executed(ExecuteDisconnect(Target))

Released(data) == NoEntry

ExecuteRelease ==
    Executing("SEND_DIS_SESSION_MSG_TO_MAIN_THREAD") /\ Executed(Released(Target))

DisconnectAll ==
    m_allSession' = [s \in SessionIDs |->
                        IF m_allSession[s].inMap /\ ~m_allSession[s].isInvalid
                        THEN ExecuteDisconnect(m_allSession[s]) ELSE m_allSession[s]]

ExecuteStopServer ==
    /\ Executing("STOP_SERVER")
    /\ DisconnectAll
    /\ m_server' = "closing"
    /\ m_serverStage' = "WAIT_CLOSE_SERVER_SOCKET"

(* ... and when all are done the stage decides. *)
IdleEnd ==
    /\ idleRun /\ m_operationDispatchQue = <<>>
    /\ idleRun' = FALSE
    /\ UNCHANGED <<appVars, m_operationQue, m_msgQue, m_operationDispatchQue, m_server, m_sessionID>>

NoSessionLeft == \A s \in SessionIDs : ~m_allSession[s].inMap

IdleRun ==
    /\ IdleEnd
    /\ m_serverStage \notin {"CLEAR", "WAIT_SESSION_CLOSE"}
    /\ UNCHANGED <<m_serverStage, loop, m_allSession>>

IdleClear ==
    /\ IdleEnd
    /\ m_serverStage = "CLEAR"
    /\ DisconnectAll
    /\ m_serverStage' = "WAIT_SESSION_CLOSE"
    /\ UNCHANGED loop

IdleWaitSessionClose ==
    /\ IdleEnd
    /\ m_serverStage = "WAIT_SESSION_CLOSE"
    /\ loop' = IF NoSessionLeft THEN "stopped" ELSE loop
    /\ UNCHANGED <<m_serverStage, m_allSession>>

-----------------------------------------------------------------------------
(* The loop thread's other callbacks.                                      *)

(* One about a session turns its entry into data, and says this. *)
Callback(s, data, msgs) ==
    /\ LoopFree
    /\ m_allSession' = [m_allSession EXCEPT ![s] = data]
    /\ m_msgQue' = m_msgQue \o msgs
    /\ UNCHANGED <<appVars, m_operationQue, m_operationDispatchQue, idleRun, m_serverStage, loop,
                   m_server>>

(* onNewConnect, addNewSession *)
OnNewConnect ==
    /\ m_server = "listening" /\ m_sessionID < MaxSessions
    /\ Callback(m_sessionID, NewEntry, <<Msg("NEW_CONNECT", m_sessionID)>>)
    /\ m_sessionID' = m_sessionID + 1

Reading(s) == m_allSession[s].tcp = "open"

OnSessionRecvData(s) ==
    /\ Reading(s) /\ m_allSession[s].isOnline /\ Len(m_msgQue) < MaxMsgs
    /\ Callback(s, m_allSession[s], <<Msg("RECV_DATA", s)>>)
    /\ UNCHANGED m_sessionID

(* on_socket_recv disconnects: data that makes no message, or the answer to *)
(* a heartbeat cannot be written                                            *)
OnIllegalData(s) ==
    /\ Reading(s) /\ m_allSession[s].isOnline
    /\ Callback(s, ExecuteDisconnect(m_allSession[s]), <<>>)
    /\ UNCHANGED m_sessionID

(* an illegal heartbeat: Session::disconnect queues the operation *)
OnIllegalHeart(s) ==
    /\ LoopFree
    /\ Reading(s) /\ m_allSession[s].isOnline /\ Len(m_operationQue) < MaxOps
    /\ PushOperation(Op("DIS_SESSION", s))
    /\ UNCHANGED <<appVars, m_msgQue, loopVars>>

(* TCPSession::update by the heartbeat timer, which STOP_SERVER stops *)
HeartbeatLost(s) ==
    /\ m_serverStage = "RUN" /\ m_allSession[s].isOnline
    /\ Callback(s, ExecuteDisconnect(m_allSession[s]), <<>>)
    /\ UNCHANGED m_sessionID

(* uv_on_after_read at the end of the stream *)
OnEof(s) ==
    /\ Reading(s)
    /\ Callback(s, SocketDisconnect(m_allSession[s]), <<>>)
    /\ UNCHANGED m_sessionID

OnSessionClose(s) ==
    /\ m_allSession[s].closing
    /\ Callback(s, Closed(m_allSession[s]), CloseMsgs(s))
    /\ UNCHANGED m_sessionID

OnServerSocketClose ==
    /\ LoopFree
    /\ m_server = "closing"
    /\ m_server' = "null"
    /\ m_serverStage' = "CLEAR"
    /\ UNCHANGED <<appVars, m_operationQue, m_msgQue, m_operationDispatchQue, idleRun, loop,
                   m_sessionID, m_allSession>>

(* run(), after the loop: the stage says STOP before the message does *)
RunReturns ==
    /\ loop = "stopped"
    /\ loop' = "returned"
    /\ m_serverStage' = "STOP"
    /\ UNCHANGED <<appVars, m_operationQue, m_msgQue, m_operationDispatchQue, idleRun, m_server,
                   m_sessionID, m_allSession>>

PushExitLoop ==
    /\ loop = "returned"
    /\ loop' = "exited"
    /\ m_msgQue' = Append(m_msgQue, ExitLoop)
    /\ UNCHANGED <<appVars, m_operationQue, m_operationDispatchQue, idleRun, m_serverStage,
                   m_server, m_sessionID, m_allSession>>

-----------------------------------------------------------------------------
(* The application uses the ids it was given. *)
ApiCall ==
    \/ StartServer \/ StopServer \/ Delete
    \/ \E s \in SessionIDs : told[s] # "none" /\ (Send(s) \/ Disconnect(s))

UpdateFrame == GetThreadMsg \/ DispatchMsg \/ CloseCall

OnIdleRun ==
    \/ TakeOperations
    \/ ExecuteSendData \/ ExecuteDisSession \/ ExecuteRelease \/ ExecuteStopServer
    \/ IdleRun \/ IdleClear \/ IdleWaitSessionClose

Run == RunReturns \/ PushExitLoop

Peer ==
    \/ OnNewConnect
    \/ \E s \in SessionIDs :
          \/ OnSessionRecvData(s) \/ OnIllegalData(s) \/ OnIllegalHeart(s)
          \/ HeartbeatLost(s) \/ OnEof(s)

(* ~TCPServer has returned, or the application keeps a closed server. *)
Finished == (app = "gone" \/ closed) /\ UNCHANGED vars

Next ==
    \/ ApiCall \/ UpdateFrame \/ DeleteReturns
    \/ OnIdleRun \/ OnServerSocketClose \/ Run \/ Peer
    \/ \E s \in SessionIDs : OnSessionClose(s)
    \/ Finished

Spec == Init /\ [][Next]_vars

(* The application keeps polling until it deletes the server; the loop      *)
(* thread runs every due callback in each iteration of uv_run.              *)
Fairness ==
    /\ WF_vars(UpdateFrame) /\ WF_vars(DeleteReturns)
    /\ WF_vars(OnIdleRun) /\ WF_vars(Run)
    /\ SF_vars(OnServerSocketClose)
    /\ \A s \in SessionIDs : SF_vars(OnSessionClose(s))

FairSpec == Spec /\ Fairness

-----------------------------------------------------------------------------
(* Type correctness of the server's state. *)
TypeOK ==
    /\ m_start \in BOOLEAN
    /\ m_msgDispatchQue \in Seq(NetThreadMsg)
    /\ closeServerTag \in BOOLEAN
    /\ app \in {"idle", "polling", "joining", "gone"}
    /\ told \in [SessionIDs -> {"none", "new", "talking", "left"}]
    /\ closed \in BOOLEAN
    /\ m_operationQue \in Seq(SessionOperation)
    /\ m_msgQue \in Seq(NetThreadMsg)
    /\ m_operationDispatchQue \in Seq(SessionOperation)
    /\ idleRun \in BOOLEAN
    /\ m_serverStage \in ServerStage
    /\ loop \in {"none", "running", "stopped", "returned", "exited"}
    /\ m_server \in {"null", "listening", "closing"}
    /\ m_sessionID \in 0 .. MaxSessions
    /\ m_allSession \in [SessionIDs -> serverSessionData]

Messages   == m_msgDispatchQue \o m_msgQue
Operations == m_operationDispatchQue \o m_operationQue

MsgsOf(s)    == {i \in DOMAIN Messages : Messages[i].sessionID = s}
Goodbyes(s)  == {i \in MsgsOf(s) : Messages[i].type = "DIS_CONNECT"}
Releases(s)  == {i \in DOMAIN Operations : Operations[i] = Release(s)}
InMap(s)     == m_allSession[s].inMap

(* Every message still queued is about a session that is alive: m_recvCall *)
(* and m_disconnectCall get its address, and DIS_CONNECT reads its id.     *)
NoDanglingMessage ==
    \A s \in SessionIDs : MsgsOf(s) # {} => InMap(s)

(* A session leaves at most once, and is not spoken of afterwards. *)
LeavesOnceAndLast ==
    \A s \in SessionIDs :
        /\ Cardinality(Goodbyes(s)) + Cardinality(Releases(s)) <= 1
        /\ \A i \in Goodbyes(s) : \A j \in MsgsOf(s) : j <= i
        /\ Releases(s) # {} => MsgsOf(s) = {}

(* A session that is offline is on its way out: its close is pending, or   *)
(* announced, or answered.  One that is in none of these states would keep *)
(* WAIT_SESSION_CLOSE waiting for ever.                                    *)
NoSessionLost ==
    \A s \in SessionIDs :
        InMap(s) =>
           \/ m_allSession[s].tcp = "open" /\ m_allSession[s].isOnline
           \/ m_allSession[s].closing
           \/ Goodbyes(s) # {} \/ Releases(s) # {}

(* libuv calls back with the TCPSocket's address: a session is freed only  *)
(* when its socket is closed and the callback has run.                     *)
FreedWhenQuiet ==
    [][\A s \in SessionIDs :
          InMap(s) /\ ~InMap(s)' => ~m_allSession[s].closing /\ m_allSession[s].tcp = "null"]_vars

(* The loop stops only with the listening socket closed and every session  *)
(* freed; no socket callback is lost.                                      *)
StopsEmpty ==
    loop \in {"stopped", "returned", "exited"} => m_server = "null" /\ \A s \in SessionIDs : ~InMap(s)

(* EXIT_LOOP is the last message ever, so m_closeCall is the last callback. *)
ExitLoopLast ==
    /\ \A i \in DOMAIN Messages : Messages[i] = ExitLoop => i = Len(Messages)
    /\ closeServerTag \/ closed => Messages = <<>>

(* stopServer() ends with m_closeCall, if the application keeps polling:    *)
(* the test server waits for that callback (tcpServer/testServer.cpp).      *)
StopFinishes == (app = "polling" /\ ~m_start) ~> (closed \/ app # "polling")

(* ~TCPServer joins without polling: it returns when the listening socket   *)
(* is closed and no session is left that only the application's thread      *)
(* could release ...                                                        *)
NeedsPolling(s) == InMap(s) /\ Releases(s) = {}
DeleteFinishes ==
    (app = "joining" /\ m_server = "null" /\ \A s \in SessionIDs : ~NeedsPolling(s)) ~> app = "gone"

(* ... and otherwise the two threads wait for each other for ever. *)
DeleteDeadlocks ==
    [][app = "joining" /\ (\E s \in SessionIDs : NeedsPolling(s)) =>
          app' = "joining" /\ \E s \in SessionIDs : NeedsPolling(s)']_vars

(* How ~TCPServer ends.                                                     *)
DeleteEnds == DeleteFinishes /\ DeleteDeadlocks

(* What the application is promised (ServerContract). *)
Contract == INSTANCE ServerContract WITH
    stopped <- app # "idle" /\ ~m_start,
    gone    <- app = "gone"
ContractSpec == Contract!Spec
=============================================================================
